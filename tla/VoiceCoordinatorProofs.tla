----------------------- MODULE VoiceCoordinatorProofs -----------------------
(***************************************************************************)
(* Proofs about the command coordinator on a shared owner, for any number  *)
(* of cancelling threads and generations, with and without a device.       *)
(***************************************************************************)
EXTENDS VoiceCoordinator, TLAPS

-----------------------------------------------------------------------------
(* The inductive invariants *)

Preparing == {"speech", "presample", "sample"}
Capturing == {"started", "armed", "factory", "starting", "feeding", "stopping", "stopped",
              "reading"}
Processing == {"announced", "jobfactory", "jobstart", "result", "heard"}
Routing == {"route", "acting", "panelroute", "panelacting"}
Ending == {"cleanup", "release", "forget"}

\* The phase and the lease that go with each callback.
PlaceInv ==
    /\ pc \in {"free", "polling", "route", "acting", "panelroute", "panelacting"}
              \cup Preparing \cup Capturing \cup Processing \cup Ending
    /\ pc \in Preparing => phase = "idle" /\ mine = 0
    /\ pc \in Capturing => phase = "capturing" /\ mine # 0
    /\ pc \in Processing => phase = "processing" /\ mine # 0
    /\ pc \in {"route", "acting"} => phase = "routing" /\ mine # 0
    /\ pc \in {"panelroute", "panelacting"} => phase = "idle" /\ mine # 0
    /\ pc \in {"free", "polling"} => /\ phase \in {"idle", "faulted"} \cup InTurn
                                     /\ phase \in InTurn <=> mine # 0
    /\ pc \in Ending => mine # 0 /\ phase \in {"idle", "capturing", "processing", "routing"}

\* Generations only grow; a lease that is not released is the owner's, and whoever
\* took over has one that no cancel under way can name.
OwnedInv ==
    /\ generation \in Nat /\ owner \in 0 .. generation
    /\ mine \in 0 .. generation /\ other \in 0 .. generation
    /\ cancels \in [Cancellers -> [at : {"idle", "read", "flagged", "waiting"},
                                  gen : 0 .. generation]]
    /\ state \in {"idle", "owned", "canceling", "faulted"}
    /\ state = "idle" <=> owner = 0
    /\ other # 0 => /\ owner = other /\ state # "faulted" /\ mine # other
                    /\ \A t \in Cancellers : cancels[t].gen # other
    /\ mine # 0 /\ pc # "forget" => owner = mine /\ state \in {"owned", "canceling"}

\* Without a lease there is no handle and no audio; what runs has its handle, and a
\* proof was given when nothing did; transcription comes after the capture.
ResourceInv ==
    /\ mine = 0 => ~ device /\ ~ job
    /\ mine = 0 \/ pc \in {"release", "forget"} => capture = "idle"
    /\ mic => device \/ state = "faulted"
    /\ asr => job \/ state = "faulted"
    /\ mic /\ deviceCleaned = "yes" => state = "faulted"
    /\ pc \in {"started", "armed", "factory", "starting"} => ~ mic /\ deviceCleaned = "unknown"
    /\ pc = "starting" => device
    /\ pc = "jobstart" => job
    /\ pc \in {"announced", "jobfactory", "jobstart"} => ~ asr
    /\ mic => (phase \notin {"processing", "routing"} /\ pc # "stopped") \/ state = "faulted"
    /\ asr => phase \in {"processing", "routing"} \/ state = "faulted"
    /\ pc \in {"release", "forget"} /\ clean => ~ mic /\ ~ asr
    /\ pc = "forget" /\ ~ clean => state = "faulted"

CoordinatorInv == PlaceInv /\ OwnedInv /\ ResourceInv

-----------------------------------------------------------------------------
(* The steps of a turn *)

\* A call is let in, up to the lease, or refused.
Entry == \/ \E token \in BOOLEAN : Activate(token)
         \/ \E proven \in BOOLEAN : SpeechStopped(proven)
         \/ \E fresh \in BOOLEAN : Presampled(fresh)
         \/ \E usable \in BOOLEAN : Sampled(usable)
         \/ \E fresh \in BOOLEAN : ConfirmPanel(fresh)

\* The capture, up to the utterance.
CaptureStep ==
    \/ \E ok, fresh \in BOOLEAN : Started(ok, fresh)
    \/ \E ok, fresh \in BOOLEAN : Armed(ok, fresh)
    \/ \E ok, fresh \in BOOLEAN : DeviceMade(ok, fresh)
    \/ \E ok, fresh \in BOOLEAN : DeviceStarted(ok, fresh)
    \/ \E kind \in {"frame", "bad", "duplicate"}, fresh \in BOOLEAN : Feed(kind, fresh)
    \/ \E result \in {"recording", "idle", "processing", "failed"}, fresh \in BOOLEAN :
          Fed(result, fresh)
    \/ \E proven \in BOOLEAN : CaptureStopped(proven)
    \/ \E ok, fresh \in BOOLEAN : StopObserved(ok, fresh)

\* The transcription, polled, and the router.
ReplyStep ==
    \/ \E ok, fresh \in BOOLEAN : TranscriptionAnnounced(ok, fresh)
    \/ \E ok, fresh \in BOOLEAN : JobMade(ok, fresh)
    \/ \E ok, fresh \in BOOLEAN : JobStarted(ok, fresh)
    \/ Polls
    \/ \E ok \in BOOLEAN : DevicePolled(ok)
    \/ \E fresh \in BOOLEAN : PollFrame(fresh)
    \/ \E answer \in {"none", "result", "raised"} : JobPolled(answer)
    \/ Transcribed
    \/ \E proven, fresh \in BOOLEAN : ResultChecked(proven, fresh)
    \/ \E ok, success, fresh \in BOOLEAN : TranscriptObserved(ok, success, fresh)
    \/ \E fresh \in BOOLEAN : RouterActs(fresh)
    \/ \E keepsToken, fresh \in BOOLEAN : RouterReplies(keepsToken, fresh)
    \/ RouterRaises

CancelStep == \E t \in Cancellers : \/ CancelReads(t)
                                    \/ CancelFlags(t)
                                    \/ CancelInvalidates(t)
                                    \/ \E speechProven \in BOOLEAN : CancelLocks(t, speechProven)

CleanupStep ==
    \E deviceProven, speechProven, jobProven \in BOOLEAN :
        Cleanup(deviceProven, speechProven, jobProven)

\* A step of the capture leaves leases and cancels alone, except its own lease.
LEMMA CaptureDoes ==
    ASSUME CaptureStep
    PROVE  /\ UNCHANGED <<mine, threadVars>>
           /\ UNCHANGED ownerVars \/ CancelLease(mine)
           /\ pc \in Capturing \/ (pc = "free" /\ phase \in InTurn)
           /\ pc' \notin {"release", "forget", "acting", "panelacting"}
<1> DEFINE Goal == /\ UNCHANGED <<mine, threadVars>>
                   /\ UNCHANGED ownerVars \/ CancelLease(mine)
                   /\ pc \in Capturing \/ (pc = "free" /\ phase \in InTurn)
                   /\ pc' \notin {"release", "forget", "acting", "panelacting"}
<1> USE DEF Check, Continue, Fail, Done, turnVars, threadVars, Capturing, Processing, InTurn
<1>1. ASSUME NEW ok \in BOOLEAN, NEW fresh \in BOOLEAN, Started(ok, fresh) PROVE Goal
  BY <1>1 DEF Started
<1>2. ASSUME NEW ok \in BOOLEAN, NEW fresh \in BOOLEAN, Armed(ok, fresh) PROVE Goal
  BY <1>2 DEF Armed
<1>3. ASSUME NEW ok \in BOOLEAN, NEW fresh \in BOOLEAN, DeviceMade(ok, fresh) PROVE Goal
  BY <1>3 DEF DeviceMade
<1>4. ASSUME NEW ok \in BOOLEAN, NEW fresh \in BOOLEAN, DeviceStarted(ok, fresh) PROVE Goal
  BY <1>4 DEF DeviceStarted
<1>5. ASSUME NEW kind \in {"frame", "bad", "duplicate"}, NEW fresh \in BOOLEAN, Feed(kind, fresh)
      PROVE Goal
  BY <1>5 DEF Feed, FeedFrame
<1>6. ASSUME NEW result \in {"recording", "idle", "processing", "failed"}, NEW fresh \in BOOLEAN,
             Fed(result, fresh)
      PROVE Goal
  BY <1>6 DEF Fed
<1>7. ASSUME NEW proven \in BOOLEAN, CaptureStopped(proven) PROVE Goal
  BY <1>7 DEF CaptureStopped
<1>8. ASSUME NEW ok \in BOOLEAN, NEW fresh \in BOOLEAN, StopObserved(ok, fresh) PROVE Goal
  BY <1>8 DEF StopObserved
<1>9. QED BY <1>1, <1>2, <1>3, <1>4, <1>5, <1>6, <1>7, <1>8 DEF CaptureStep

\* So does a step of the transcription or the router.
LEMMA ReplyDoes ==
    ASSUME ReplyStep
    PROVE  /\ UNCHANGED <<mine, cancelRequested, cancels, other>>
           /\ UNCHANGED ownerVars \/ CancelLease(mine)
           /\ \/ pc \in Routing \cup Capturing \cup Processing
              \/ pc \in {"free", "polling"} /\ phase \in InTurn
           /\ pc' \notin {"release", "forget"}
<1> DEFINE Goal == /\ UNCHANGED <<mine, cancelRequested, cancels, other>>
                   /\ UNCHANGED ownerVars \/ CancelLease(mine)
                   /\ \/ pc \in Routing \cup Capturing \cup Processing
                      \/ pc \in {"free", "polling"} /\ phase \in InTurn
                   /\ pc' \notin {"release", "forget"}
        <1> USE DEF Check, Continue, Fail, Done, turnVars, threadVars, Capturing, Processing,
                    Routing, InTurn
<1>1. ASSUME NEW ok \in BOOLEAN, NEW fresh \in BOOLEAN, TranscriptionAnnounced(ok, fresh) PROVE Goal
  BY <1>1 DEF TranscriptionAnnounced
<1>2. ASSUME NEW ok \in BOOLEAN, NEW fresh \in BOOLEAN, JobMade(ok, fresh) PROVE Goal
  BY <1>2 DEF JobMade
<1>3. ASSUME NEW ok \in BOOLEAN, NEW fresh \in BOOLEAN, JobStarted(ok, fresh) PROVE Goal
  BY <1>3 DEF JobStarted
<1>4. ASSUME NEW fresh \in BOOLEAN, Poll(fresh) PROVE Goal
  BY <1>4 DEF Poll
<1>5. ASSUME NEW ok \in BOOLEAN, DevicePolled(ok) PROVE Goal
  BY <1>5 DEF DevicePolled
<1>6. ASSUME NEW fresh \in BOOLEAN, PollFrame(fresh) PROVE Goal
  BY <1>6 DEF PollFrame, FeedFrame
<1>7. ASSUME NEW answer \in {"none", "result", "raised"}, JobPolled(answer) PROVE Goal
  BY <1>7 DEF JobPolled
<1>8. ASSUME Transcribed PROVE Goal
  BY <1>8 DEF Transcribed
<1>9. ASSUME NEW proven \in BOOLEAN, NEW fresh \in BOOLEAN, ResultChecked(proven, fresh) PROVE Goal
  BY <1>9 DEF ResultChecked
<1>10. ASSUME NEW ok \in BOOLEAN, NEW success \in BOOLEAN, NEW fresh \in BOOLEAN,
              TranscriptObserved(ok, success, fresh)
      PROVE Goal
  BY <1>10 DEF TranscriptObserved
<1>11. ASSUME NEW fresh \in BOOLEAN, RouterActs(fresh) PROVE Goal
  BY <1>11 DEF RouterActs
<1>12. ASSUME NEW keepsToken \in BOOLEAN, NEW fresh \in BOOLEAN, RouterReplies(keepsToken, fresh)
      PROVE Goal
  BY <1>12 DEF RouterReplies
<1>13. ASSUME RouterRaises PROVE Goal
  BY <1>13 DEF RouterRaises
<1> HIDE DEF Goal
<1>14. Goal
  BY <1>1, <1>2, <1>3, <1>4, <1>5, <1>6, <1>7, <1>8, <1>9, <1>10, <1>11, <1>12, <1>13
     DEF ReplyStep, Polls
<1>15. QED BY <1>14 DEF Goal

-----------------------------------------------------------------------------
(* Phase, lease and callback go together *)

\* Each callback of the capture finds the phase and the lease that go with it.
LEMMA CapturePlace ==
    ASSUME PlaceInv, CaptureStep
    PROVE  PlaceInv'
<1> USE DEF PlaceInv, Preparing, Capturing, Processing, Ending, InTurn,
            Check, Continue, Fail, Done, turnVars
<1>1. ASSUME NEW ok \in BOOLEAN, NEW fresh \in BOOLEAN, Started(ok, fresh) PROVE PlaceInv'
  BY <1>1 DEF Started
<1>2. ASSUME NEW ok \in BOOLEAN, NEW fresh \in BOOLEAN, Armed(ok, fresh) PROVE PlaceInv'
  BY <1>2 DEF Armed
<1>3. ASSUME NEW ok \in BOOLEAN, NEW fresh \in BOOLEAN, DeviceMade(ok, fresh) PROVE PlaceInv'
  BY <1>3 DEF DeviceMade
<1>4. ASSUME NEW ok \in BOOLEAN, NEW fresh \in BOOLEAN, DeviceStarted(ok, fresh) PROVE PlaceInv'
  BY <1>4 DEF DeviceStarted
<1>5. ASSUME NEW kind \in {"frame", "bad", "duplicate"}, NEW fresh \in BOOLEAN, Feed(kind, fresh)
      PROVE PlaceInv'
  BY <1>5 DEF Feed, FeedFrame
<1>6. ASSUME NEW result \in {"recording", "idle", "processing", "failed"}, NEW fresh \in BOOLEAN,
             Fed(result, fresh)
      PROVE PlaceInv'
  BY <1>6 DEF Fed
<1>7. ASSUME NEW proven \in BOOLEAN, CaptureStopped(proven) PROVE PlaceInv'
  BY <1>7 DEF CaptureStopped
<1>8. ASSUME NEW ok \in BOOLEAN, NEW fresh \in BOOLEAN, StopObserved(ok, fresh) PROVE PlaceInv'
  BY <1>8 DEF StopObserved
<1>9. QED BY <1>1, <1>2, <1>3, <1>4, <1>5, <1>6, <1>7, <1>8 DEF CaptureStep

\* So does each callback of the transcription and of the router.
LEMMA ReplyPlace ==
    ASSUME PlaceInv, ReplyStep
    PROVE  PlaceInv'
<1> USE DEF PlaceInv, Preparing, Capturing, Processing, Ending, InTurn,
            Check, Continue, Fail, Done, turnVars
<1>1. ASSUME NEW ok \in BOOLEAN, NEW fresh \in BOOLEAN, TranscriptionAnnounced(ok, fresh)
      PROVE PlaceInv'
  BY <1>1 DEF TranscriptionAnnounced
<1>2. ASSUME NEW ok \in BOOLEAN, NEW fresh \in BOOLEAN, JobMade(ok, fresh) PROVE PlaceInv'
  BY <1>2 DEF JobMade
<1>3. ASSUME NEW ok \in BOOLEAN, NEW fresh \in BOOLEAN, JobStarted(ok, fresh) PROVE PlaceInv'
  BY <1>3 DEF JobStarted
<1>4. ASSUME NEW fresh \in BOOLEAN, Poll(fresh) PROVE PlaceInv'
  BY <1>4 DEF Poll
<1>5. ASSUME NEW ok \in BOOLEAN, DevicePolled(ok) PROVE PlaceInv'
  BY <1>5 DEF DevicePolled
<1>6. ASSUME NEW fresh \in BOOLEAN, PollFrame(fresh) PROVE PlaceInv'
  BY <1>6 DEF PollFrame, FeedFrame
<1>7. ASSUME NEW answer \in {"none", "result", "raised"}, JobPolled(answer) PROVE PlaceInv'
  BY <1>7 DEF JobPolled
<1>8. ASSUME Transcribed PROVE PlaceInv'
  BY <1>8 DEF Transcribed
<1>9. ASSUME NEW proven \in BOOLEAN, NEW fresh \in BOOLEAN, ResultChecked(proven, fresh)
      PROVE PlaceInv'
  BY <1>9 DEF ResultChecked
<1>10. ASSUME NEW ok \in BOOLEAN, NEW success \in BOOLEAN, NEW fresh \in BOOLEAN,
              TranscriptObserved(ok, success, fresh)
      PROVE PlaceInv'
  BY <1>10 DEF TranscriptObserved
<1>11. ASSUME NEW fresh \in BOOLEAN, RouterActs(fresh) PROVE PlaceInv'
  BY <1>11 DEF RouterActs
<1>12. ASSUME NEW keepsToken \in BOOLEAN, NEW fresh \in BOOLEAN, RouterReplies(keepsToken, fresh)
      PROVE PlaceInv'
  BY <1>12 DEF RouterReplies
<1>13. ASSUME RouterRaises PROVE PlaceInv'
  BY <1>13 DEF RouterRaises
<1>14. QED BY <1>1, <1>2, <1>3, <1>4, <1>5, <1>6, <1>7, <1>8, <1>9, <1>10, <1>11, <1>12, <1>13
              DEF ReplyStep, Polls

\* A call that is let in leaves the phase and the lease that its next callback wants.
LEMMA EntryPlace ==
    ASSUME PlaceInv, OwnedInv, Entry
    PROVE  PlaceInv'
<1> USE DEF PlaceInv, Preparing, Capturing, Processing, Ending, InTurn, turnVars
<1>0. generation + 1 # 0 BY DEF OwnedInv
<1>1. ASSUME NEW token \in BOOLEAN, Activate(token) PROVE PlaceInv'
  BY <1>1 DEF Activate
<1>2. ASSUME NEW proven \in BOOLEAN, SpeechStopped(proven) PROVE PlaceInv'
  BY <1>2 DEF SpeechStopped
<1>3. ASSUME NEW fresh \in BOOLEAN, Presampled(fresh) PROVE PlaceInv'
  BY <1>3 DEF Presampled
<1>4. ASSUME NEW usable \in BOOLEAN, Sampled(usable) PROVE PlaceInv'
  BY <1>0, <1>4 DEF Sampled
<1>5. ASSUME NEW fresh \in BOOLEAN, ConfirmPanel(fresh) PROVE PlaceInv'
  BY <1>0, <1>5 DEF ConfirmPanel
<1>6. QED BY <1>1, <1>2, <1>3, <1>4, <1>5 DEF Entry

\* A cleanup that went through ends in a phase without a lease.
LEMMA EndPlace ==
    ASSUME PlaceInv, CleanupStep \/ ReleaseLease \/ Forget \/ PollEnds
    PROVE  PlaceInv'
<1> USE DEF PlaceInv, Preparing, Capturing, Processing, Ending, InTurn, turnVars, Done
<1>1. CASE CleanupStep BY <1>1 DEF CleanupStep, Cleanup
<1>2. CASE ReleaseLease BY <1>2 DEF ReleaseLease
<1>3. CASE Forget BY <1>3 DEF Forget
<1>4. CASE PollEnds BY <1>4 DEF PollEnds, Continue
<1>5. QED BY <1>1, <1>2, <1>3, <1>4

\* A cancel that finds a turn sends it to its cleanup.
LEMMA CancelPlace ==
    ASSUME PlaceInv, CancelStep \/ ReentrantCancel
    PROVE  PlaceInv'
<1> USE DEF PlaceInv, Preparing, Capturing, Processing, Ending, InTurn, turnVars, callVars
<1>1. ASSUME NEW t \in Cancellers, CancelReads(t) PROVE PlaceInv'
  BY <1>1 DEF CancelReads
<1>2. ASSUME NEW t \in Cancellers, CancelFlags(t) PROVE PlaceInv'
  BY <1>2 DEF CancelFlags
<1>3. ASSUME NEW t \in Cancellers, CancelInvalidates(t) PROVE PlaceInv'
  BY <1>3 DEF CancelInvalidates
<1>4. ASSUME NEW t \in Cancellers, NEW speechProven \in BOOLEAN, CancelLocks(t, speechProven)
      PROVE PlaceInv'
  BY <1>4 DEF CancelLocks, Fail
<1>5. CASE ReentrantCancel BY <1>5 DEF ReentrantCancel
<1>6. QED BY <1>1, <1>2, <1>3, <1>4, <1>5 DEF CancelStep
-----------------------------------------------------------------------------
(* Leases *)

\* Who holds a lease still does after a cancel, and numbers only grow.
LEMMA InvalidateDoes ==
    ASSUME OwnedInv, UNCHANGED ownerVars \/ CancelLease(mine) \/ Invalidate
    PROVE  /\ generation' \in Nat /\ generation' >= generation /\ owner' = owner
           /\ state' \in {"idle", "owned", "canceling", "faulted"}
           /\ state' = "idle" <=> state = "idle"
           /\ state' = "faulted" <=> state = "faulted"
           /\ state' \in {"owned", "canceling"} <=> state \in {"owned", "canceling"}
BY GenerationAssumption DEF OwnedInv, CancelLease, Invalidate, ownerVars

\* So a step that at most invalidates keeps the leases apart.
LEMMA QuietOwned ==
    ASSUME OwnedInv, UNCHANGED ownerVars \/ CancelLease(mine) \/ Invalidate,
           UNCHANGED <<mine, other, cancels>>, pc' = "forget" \/ pc # "forget"
    PROVE  OwnedInv'
<1>1. /\ generation' \in Nat /\ generation' >= generation /\ owner' = owner
      /\ state' \in {"idle", "owned", "canceling", "faulted"}
      /\ state' = "idle" <=> state = "idle"
      /\ state' = "faulted" <=> state = "faulted"
      /\ state' \in {"owned", "canceling"} <=> state \in {"owned", "canceling"}
  BY InvalidateDoes
<1>2. QED BY <1>1 DEF OwnedInv

\* A lease that begins here is nobody's, and no cancel names it.
LEMMA BeginOwned ==
    ASSUME OwnedInv, Begin, UNCHANGED cancels,
           \/ mine = 0 /\ mine' = generation + 1 /\ UNCHANGED other
           \/ other = 0 /\ other' = generation + 1 /\ UNCHANGED <<mine, pc>>
    PROVE  OwnedInv'
<1>1. /\ state = "idle" /\ owner = 0 /\ other = 0
      /\ generation' = generation + 1 /\ owner' = generation + 1 /\ state' = "owned"
  BY DEF OwnedInv, Begin, CanBegin
<1>2. mine # 0 => pc = "forget" BY <1>1 DEF OwnedInv
<1>3. \A t \in Cancellers : cancels[t].gen < generation'
  BY <1>1 DEF OwnedInv
<1>4. QED BY <1>1, <1>2, <1>3 DEF OwnedInv

\* A call that is let in has a lease of its own, and one refused has none.
LEMMA EntryOwned ==
    ASSUME PlaceInv, OwnedInv, Entry
    PROVE  OwnedInv'
<1>1. ASSUME NEW token \in BOOLEAN, Activate(token) PROVE OwnedInv'
  BY <1>1, QuietOwned DEF Activate, turnVars
<1>2. ASSUME NEW proven \in BOOLEAN, SpeechStopped(proven) PROVE OwnedInv'
  BY <1>2, QuietOwned DEF SpeechStopped, turnVars, threadVars
<1>3. ASSUME NEW fresh \in BOOLEAN, Presampled(fresh) PROVE OwnedInv'
  BY <1>3, QuietOwned DEF Presampled, threadVars
<1>4. ASSUME NEW usable \in BOOLEAN, Sampled(usable) PROVE OwnedInv'
  <2>1. mine = 0 /\ pc # "forget" /\ UNCHANGED <<cancels, other>>
    BY <1>4 DEF Sampled, threadVars, PlaceInv, Preparing
  <2>2. CASE Begin /\ mine' = generation + 1 BY <2>1, <2>2, BeginOwned
  <2>3. CASE UNCHANGED <<ownerVars, mine>> BY <2>1, <2>3, QuietOwned
  <2>4. QED BY <1>4, <2>2, <2>3 DEF Sampled, turnVars
<1>5. ASSUME NEW fresh \in BOOLEAN, ConfirmPanel(fresh) PROVE OwnedInv'
  <2>1. mine = 0 /\ pc # "forget" /\ UNCHANGED <<cancels, other>>
    BY <1>5 DEF ConfirmPanel, threadVars, PlaceInv, InTurn
  <2>2. CASE Begin /\ mine' = generation + 1 BY <2>1, <2>2, BeginOwned
  <2>3. CASE UNCHANGED <<ownerVars, mine>> BY <2>1, <2>3, QuietOwned
  <2>4. QED BY <1>5, <2>2, <2>3 DEF ConfirmPanel
<1>6. QED BY <1>1, <1>2, <1>3, <1>4, <1>5 DEF Entry

\* A turn gives back its own lease only.
LEMMA EndOwned ==
    ASSUME PlaceInv, OwnedInv, CleanupStep \/ ReleaseLease \/ Forget \/ PollEnds
    PROVE  OwnedInv'
<1>1. CASE CleanupStep
  BY <1>1, QuietOwned DEF CleanupStep, Cleanup, turnVars, threadVars
<1>2. CASE ReleaseLease
  <2>1. /\ mine # 0 /\ owner = mine /\ other = 0 /\ pc' = "forget"
        /\ UNCHANGED <<generation, mine, other, cancels>>
        /\ \/ owner' = 0 /\ state' = "idle"
           \/ owner' = owner /\ state' = "faulted"
    BY <1>2 DEF ReleaseLease, Release, turnVars, threadVars, PlaceInv, Ending, OwnedInv
  <2>2. QED BY <2>1 DEF OwnedInv
<1>3. CASE Forget
  <2>1. /\ mine' = 0 /\ UNCHANGED <<generation, owner, state, other, cancels>>
    BY <1>3 DEF Forget, ownerVars, threadVars
  <2>2. QED BY <2>1 DEF OwnedInv
<1>4. CASE PollEnds
  BY <1>4, QuietOwned DEF PollEnds, Continue, turnVars, threadVars
<1>5. QED BY <1>1, <1>2, <1>3, <1>4

\* What a cancel does to the leases, wherever it is.
LEMMA CancelDoes ==
    ASSUME OwnedInv, CancelStep
    PROVE  /\ UNCHANGED <<mine, other>>
           /\ pc' = pc \/ (pc' = "cleanup" /\ pc = "free")
           /\ \/ UNCHANGED ownerVars
              \/ CancelLease(mine)
              \/ \E t \in Cancellers : CancelLease(cancels[t].gen)
           /\ cancels' \in [Cancellers -> [at : {"idle", "read", "flagged", "waiting"},
                                           gen : 0 .. generation]]
           /\ \A t \in Cancellers : cancels'[t].gen \in {cancels[t].gen, mine, 0}
<1> DEFINE Thread == [at : {"idle", "read", "flagged", "waiting"}, gen : 0 .. generation]
<1>0. cancels \in [Cancellers -> Thread] /\ mine \in 0 .. generation /\ generation \in Nat
  BY DEF OwnedInv
<1>1. ASSUME NEW t \in Cancellers,
             \/ cancels' = [cancels EXCEPT ![t] = [at |-> "read", gen |-> mine]]
             \/ cancels' = [cancels EXCEPT ![t].at = "flagged"]
             \/ cancels' = [cancels EXCEPT ![t].at = "waiting"]
             \/ cancels' = [cancels EXCEPT ![t] = [at |-> "idle", gen |-> 0]]
      PROVE  /\ cancels' \in [Cancellers -> Thread]
             /\ \A u \in Cancellers : cancels'[u].gen \in {cancels[u].gen, mine, 0}
  BY <1>0, <1>1
<1>2. ASSUME NEW t \in Cancellers,
             \/ CancelReads(t) \/ CancelFlags(t) \/ CancelInvalidates(t)
             \/ \E speechProven \in BOOLEAN : CancelLocks(t, speechProven)
      PROVE  /\ UNCHANGED <<mine, other>>
             /\ pc' = pc \/ (pc' = "cleanup" /\ pc = "free")
             /\ \/ UNCHANGED ownerVars
                \/ CancelLease(mine)
                \/ CancelLease(cancels[t].gen)
             /\ \/ cancels' = [cancels EXCEPT ![t] = [at |-> "read", gen |-> mine]]
                \/ cancels' = [cancels EXCEPT ![t].at = "flagged"]
                \/ cancels' = [cancels EXCEPT ![t].at = "waiting"]
                \/ cancels' = [cancels EXCEPT ![t] = [at |-> "idle", gen |-> 0]]
  <2> USE DEF turnVars, callVars
  <2>1. CASE CancelReads(t) BY <2>1 DEF CancelReads
  <2>2. CASE CancelFlags(t) BY <2>2 DEF CancelFlags
  <2>3. CASE CancelInvalidates(t) BY <2>3 DEF CancelInvalidates
  <2>4. ASSUME NEW speechProven \in BOOLEAN, CancelLocks(t, speechProven)
        PROVE  /\ UNCHANGED <<mine, other>>
               /\ pc' = pc \/ (pc' = "cleanup" /\ pc = "free")
               /\ UNCHANGED ownerVars \/ CancelLease(mine)
               /\ cancels' = [cancels EXCEPT ![t] = [at |-> "idle", gen |-> 0]]
    BY <2>4 DEF CancelLocks, Fail
  <2>5. QED BY <1>2, <2>1, <2>2, <2>3, <2>4
<1>3. QED BY <1>1, <1>2 DEF CancelStep

\* So a cancel keeps the leases apart.
LEMMA CancelOwned ==
    ASSUME OwnedInv, CancelStep
    PROVE  OwnedInv'
<1>1. /\ generation' \in Nat /\ generation' >= generation /\ owner' = owner
      /\ state' \in {"idle", "owned", "canceling", "faulted"}
      /\ state' = "idle" <=> state = "idle"
      /\ state' = "faulted" <=> state = "faulted"
      /\ state' \in {"owned", "canceling"} <=> state \in {"owned", "canceling"}
  BY CancelDoes, InvalidateDoes DEF CancelLease
<1>2. /\ UNCHANGED <<mine, other>>
      /\ pc' = "forget" => pc = "forget"
      /\ pc = "forget" => pc' = "forget"
      /\ cancels' \in [Cancellers -> [at : {"idle", "read", "flagged", "waiting"},
                                      gen : 0 .. generation]]
      /\ \A t \in Cancellers : cancels'[t].gen \in {cancels[t].gen, mine, 0}
  BY CancelDoes
<1>3. cancels' \in [Cancellers -> [at : {"idle", "read", "flagged", "waiting"},
                                   gen : 0 .. generation']]
  <2>1. 0 .. generation \subseteq 0 .. generation' BY <1>1 DEF OwnedInv
  <2>2. QED BY <1>2, <2>1
<1>4. QED BY <1>1, <1>2, <1>3 DEF OwnedInv

\* So does the other adapter.
LEMMA OtherOwned ==
    ASSUME OwnedInv, OtherBegins \/ \E cleaned \in BOOLEAN : OtherReleases(cleaned)
    PROVE  OwnedInv'
<1>1. CASE OtherBegins
  BY <1>1, BeginOwned DEF OtherBegins, turnVars, callVars
<1>2. ASSUME NEW cleaned \in BOOLEAN, OtherReleases(cleaned) PROVE OwnedInv'
  <2>1. /\ owner = other /\ mine # other /\ other # 0 /\ other' = 0
        /\ UNCHANGED <<generation, mine, pc, cancels>>
        /\ \/ owner' = 0 /\ state' = "idle"
           \/ owner' = owner /\ state' = "faulted"
    BY <1>2 DEF OtherReleases, Release, turnVars, callVars, OwnedInv
  <2>2. QED BY <2>1 DEF OwnedInv
<1>3. QED BY <1>1, <1>2

-----------------------------------------------------------------------------
(* Resources *)

\* In a step of a turn the lease is held and no fault is latched.
LEMMA TurnHolds ==
    ASSUME PlaceInv, OwnedInv, CaptureStep \/ ReplyStep
    PROVE  /\ mine # 0 /\ mine' # 0 /\ state # "faulted" /\ state' # "faulted"
           /\ pc' \notin {"release", "forget"}
<1>1. mine # 0
  BY CaptureDoes, ReplyDoes DEF PlaceInv, Capturing, Processing, Routing
<1>2. UNCHANGED mine /\ (UNCHANGED ownerVars \/ CancelLease(mine))
  BY CaptureDoes, ReplyDoes
<1>3. pc # "forget" /\ pc' \notin {"release", "forget"}
  BY CaptureDoes, ReplyDoes DEF Capturing, Processing, Routing
<1>4. state # "faulted" /\ (state' = "faulted" <=> state = "faulted")
  <2>1. state # "faulted" BY <1>1, <1>3 DEF OwnedInv
  <2>2. state' = "faulted" <=> state = "faulted"
    BY <1>2, InvalidateDoes
  <2>3. QED BY <2>1, <2>2
<1>5. QED BY <1>1, <1>2, <1>3, <1>4

\* The capture runs under its device, and its transcriber not yet.
LEMMA CaptureResource ==
    ASSUME PlaceInv, OwnedInv, ResourceInv, CaptureStep
    PROVE  ResourceInv'
<1>0. /\ mine # 0 /\ mine' # 0 /\ state # "faulted" /\ state' # "faulted"
      /\ pc' \notin {"release", "forget"}
  BY TurnHolds
<1> USE DEF PlaceInv, Capturing, InTurn, ResourceInv, Check, Continue, Fail, Done, turnVars,
            resources, StopDevice, DeviceStopped
<1>1. ASSUME NEW ok \in BOOLEAN, NEW fresh \in BOOLEAN, Started(ok, fresh) PROVE ResourceInv'
  BY <1>0, <1>1 DEF Started
<1>2. ASSUME NEW ok \in BOOLEAN, NEW fresh \in BOOLEAN, Armed(ok, fresh) PROVE ResourceInv'
  BY <1>0, <1>2 DEF Armed
<1>3. ASSUME NEW ok \in BOOLEAN, NEW fresh \in BOOLEAN, DeviceMade(ok, fresh) PROVE ResourceInv'
  BY <1>0, <1>3 DEF DeviceMade
<1>4. ASSUME NEW ok \in BOOLEAN, NEW fresh \in BOOLEAN, DeviceStarted(ok, fresh) PROVE ResourceInv'
  BY <1>0, <1>4 DEF DeviceStarted
<1>5. ASSUME NEW kind \in {"frame", "bad", "duplicate"}, NEW fresh \in BOOLEAN, Feed(kind, fresh)
      PROVE ResourceInv'
  BY <1>0, <1>5 DEF Feed, FeedFrame
<1>6. ASSUME NEW result \in {"recording", "idle", "processing", "failed"}, NEW fresh \in BOOLEAN,
             Fed(result, fresh)
      PROVE ResourceInv'
  BY <1>0, <1>6 DEF Fed
<1>7. ASSUME NEW proven \in BOOLEAN, CaptureStopped(proven) PROVE ResourceInv'
  BY <1>0, <1>7 DEF CaptureStopped
<1>8. ASSUME NEW ok \in BOOLEAN, NEW fresh \in BOOLEAN, StopObserved(ok, fresh) PROVE ResourceInv'
  BY <1>0, <1>8 DEF StopObserved
<1>9. QED BY <1>1, <1>2, <1>3, <1>4, <1>5, <1>6, <1>7, <1>8 DEF CaptureStep

\* The transcriber runs under its job, after the capture.
LEMMA ReplyResource ==
    ASSUME PlaceInv, OwnedInv, ResourceInv, ReplyStep
    PROVE  ResourceInv'
<1>0. /\ mine # 0 /\ mine' # 0 /\ state # "faulted" /\ state' # "faulted"
      /\ pc' \notin {"release", "forget"}
  BY TurnHolds
<1> USE DEF PlaceInv, Capturing, Processing, InTurn, ResourceInv, Check, Continue, Fail, Done,
            turnVars, resources
<1>1. ASSUME NEW ok \in BOOLEAN, NEW fresh \in BOOLEAN, TranscriptionAnnounced(ok, fresh)
      PROVE ResourceInv'
  BY <1>0, <1>1 DEF TranscriptionAnnounced
<1>2. ASSUME NEW ok \in BOOLEAN, NEW fresh \in BOOLEAN, JobMade(ok, fresh) PROVE ResourceInv'
  BY <1>0, <1>2 DEF JobMade
<1>3. ASSUME NEW ok \in BOOLEAN, NEW fresh \in BOOLEAN, JobStarted(ok, fresh) PROVE ResourceInv'
  BY <1>0, <1>3 DEF JobStarted
<1>4. ASSUME NEW fresh \in BOOLEAN, Poll(fresh) PROVE ResourceInv'
  BY <1>0, <1>4 DEF Poll
<1>5. ASSUME NEW ok \in BOOLEAN, DevicePolled(ok) PROVE ResourceInv'
  BY <1>0, <1>5 DEF DevicePolled
<1>6. ASSUME NEW fresh \in BOOLEAN, PollFrame(fresh) PROVE ResourceInv'
  BY <1>0, <1>6 DEF PollFrame, FeedFrame
<1>7. ASSUME NEW answer \in {"none", "result", "raised"}, JobPolled(answer) PROVE ResourceInv'
  BY <1>0, <1>7 DEF JobPolled
<1>8. ASSUME Transcribed PROVE ResourceInv'
  BY <1>0, <1>8 DEF Transcribed
<1>9. ASSUME NEW proven \in BOOLEAN, NEW fresh \in BOOLEAN, ResultChecked(proven, fresh)
      PROVE ResourceInv'
  BY <1>0, <1>9 DEF ResultChecked
<1>10. ASSUME NEW ok \in BOOLEAN, NEW success \in BOOLEAN, NEW fresh \in BOOLEAN,
              TranscriptObserved(ok, success, fresh)
      PROVE ResourceInv'
  BY <1>0, <1>10 DEF TranscriptObserved
<1>11. ASSUME NEW fresh \in BOOLEAN, RouterActs(fresh) PROVE ResourceInv'
  BY <1>0, <1>11 DEF RouterActs
<1>12. ASSUME NEW keepsToken \in BOOLEAN, NEW fresh \in BOOLEAN, RouterReplies(keepsToken, fresh)
      PROVE ResourceInv'
  BY <1>0, <1>12 DEF RouterReplies
<1>13. ASSUME RouterRaises PROVE ResourceInv'
  BY <1>0, <1>13 DEF RouterRaises
<1>14. QED BY <1>1, <1>2, <1>3, <1>4, <1>5, <1>6, <1>7, <1>8, <1>9, <1>10, <1>11, <1>12, <1>13
              DEF ReplyStep, Polls

\* A turn begins with every resource stopped.
LEMMA EntryResource ==
    ASSUME PlaceInv, OwnedInv, ResourceInv, Entry
    PROVE  ResourceInv'
<1> USE DEF PlaceInv, Preparing, InTurn, ResourceInv, turnVars, resources
<1>0. generation + 1 # 0 BY DEF OwnedInv
<1>1. ASSUME NEW token \in BOOLEAN, Activate(token) PROVE ResourceInv'
  BY <1>1 DEF Activate, ownerVars
<1>2. ASSUME NEW proven \in BOOLEAN, SpeechStopped(proven) PROVE ResourceInv'
  BY <1>2 DEF SpeechStopped, ownerVars
<1>3. ASSUME NEW fresh \in BOOLEAN, Presampled(fresh) PROVE ResourceInv'
  BY <1>3 DEF Presampled, ownerVars
<1>4. ASSUME NEW usable \in BOOLEAN, Sampled(usable) PROVE ResourceInv'
  <2>1. mine = 0 /\ ~ device /\ ~ job /\ capture = "idle"
    BY <1>4 DEF Sampled
  <2>2. CASE Begin /\ mine' = generation + 1 /\ FreshTurn /\ pc' = "started" /\ phase' = "capturing"
    BY <1>0, <2>1, <2>2 DEF Begin, CanBegin, FreshTurn
  <2>3. CASE pc' = "free" /\ UNCHANGED <<ownerVars, turnVars, resources>>
    BY <2>1, <2>3 DEF ownerVars
  <2>4. QED BY <1>4, <2>2, <2>3 DEF Sampled
<1>5. ASSUME NEW fresh \in BOOLEAN, ConfirmPanel(fresh) PROVE ResourceInv'
  <2>1. mine = 0 /\ ~ device /\ ~ job /\ capture = "idle" /\ phase' = "idle" /\ UNCHANGED resources
    BY <1>5 DEF ConfirmPanel
  <2>2. CASE Begin /\ mine' = generation + 1 /\ pc' = "panelroute"
    BY <1>0, <2>1, <2>2 DEF Begin, CanBegin
  <2>3. CASE UNCHANGED <<ownerVars, mine, pc>>
    BY <1>5, <2>1, <2>3 DEF ConfirmPanel, ownerVars
  <2>4. QED BY <1>5, <2>2, <2>3 DEF ConfirmPanel
<1>6. QED BY <1>1, <1>2, <1>3, <1>4, <1>5 DEF Entry

\* A lease is given back clean only when everything stopped, and faulted otherwise.
LEMMA EndResource ==
    ASSUME PlaceInv, OwnedInv, ResourceInv, CleanupStep \/ ReleaseLease \/ Forget \/ PollEnds
    PROVE  ResourceInv'
<1> USE DEF PlaceInv, Ending, InTurn, ResourceInv, turnVars, resources, Done
<1>1. CASE CleanupStep
  <2>1. PICK deviceProven \in BOOLEAN, speechProven \in BOOLEAN, jobProven \in BOOLEAN :
             Cleanup(deviceProven, speechProven, jobProven)
    BY <1>1 DEF CleanupStep
  <2>2. /\ pc = "cleanup" /\ pc' = "release" /\ mine # 0 /\ UNCHANGED <<mine, phase, state>>
        /\ state # "faulted" /\ capture' = "idle" /\ UNCHANGED <<device, job>>
    BY <2>1 DEF Cleanup, ownerVars, OwnedInv
  <2>3. /\ mic' => device /\ mic
        /\ mic' => deviceCleaned' # "yes"
        /\ clean' => ~ mic'
    BY <2>1, <2>2 DEF Cleanup, StopDevice, DeviceStopped
  <2>4. (asr' => asr) /\ (clean' => ~ asr')
    BY <2>1, <2>2 DEF Cleanup, JobClean
  <2>5. QED BY <2>2, <2>3, <2>4
<1>2. CASE ReleaseLease
  BY <1>2 DEF ReleaseLease, Release
<1>3. CASE Forget
  BY <1>3 DEF Forget, ownerVars
<1>4. CASE PollEnds
  BY <1>4 DEF PollEnds, Continue, ownerVars
<1>5. QED BY <1>1, <1>2, <1>3, <1>4

\* A cancel runs nothing and stops nothing: it only marks.
LEMMA CancelResource ==
    ASSUME PlaceInv, OwnedInv, ResourceInv, CancelStep \/ ReentrantCancel
    PROVE  ResourceInv'
<1>1. state' = "faulted" <=> state = "faulted"
  BY CancelDoes, InvalidateDoes DEF ReentrantCancel, CancelLease
<1>2. /\ UNCHANGED <<mine, resources, clean>>
      /\ pc' = pc \/ (pc' = "cleanup" /\ pc = "free")
  BY DEF CancelStep, CancelReads, CancelFlags, CancelInvalidates, CancelLocks, Fail,
         ReentrantCancel, turnVars, callVars
<1>3. phase' = phase \/ (mine = 0 /\ phase' = "faulted")
  BY DEF CancelStep, CancelReads, CancelFlags, CancelInvalidates, CancelLocks, Fail,
         ReentrantCancel, turnVars, callVars
<1>4. mine = 0 => (mic \/ asr => state = "faulted")
  BY DEF ResourceInv
<1>5. QED BY <1>1, <1>2, <1>3, <1>4 DEF ResourceInv, resources

\* Another adapter begins only where nothing of this turn is left.
LEMMA OtherResource ==
    ASSUME PlaceInv, OwnedInv, ResourceInv,
           \/ OtherBegins \/ ExternalCancel \/ Expire
           \/ \E cleaned \in BOOLEAN : OtherReleases(cleaned)
    PROVE  ResourceInv'
<1> USE DEF ResourceInv, turnVars, resources, callVars
<1>1. CASE OtherBegins
  <2>1. state = "idle" /\ state' = "owned" /\ UNCHANGED <<turnVars, resources, callVars>>
    BY <1>1 DEF OtherBegins, Begin, CanBegin
  <2>2. ~ mic /\ ~ asr /\ (pc = "forget" => clean)
    <3>1. mine = 0 \/ pc = "forget" BY <2>1 DEF OwnedInv
    <3>2. QED BY <2>1, <3>1
  <2>3. QED BY <2>1, <2>2
<1>2. CASE ExternalCancel BY <1>2 DEF ExternalCancel, Invalidate
<1>3. CASE Expire BY <1>3 DEF Expire, ownerVars
<1>4. ASSUME NEW cleaned \in BOOLEAN, OtherReleases(cleaned) PROVE ResourceInv'
  <2>1. /\ UNCHANGED <<turnVars, resources, callVars>>
        /\ state # "faulted" /\ owner = other /\ other # 0 /\ mine # other
        /\ state' = "faulted" \/ state' = "idle"
    BY <1>4 DEF OtherReleases, Release, OwnedInv
  <2>2. ~ mic /\ ~ asr /\ (pc = "forget" => clean)
    <3>1. mine = 0 \/ pc = "forget" BY <2>1 DEF OwnedInv
    <3>2. QED BY <2>1, <3>1
  <2>3. QED BY <2>1, <2>2
<1>5. QED BY <1>1, <1>2, <1>3, <1>4
-----------------------------------------------------------------------------
(* The invariant *)

\* The starting state: nothing holds a lease and nothing runs.
LEMMA InitInv == Init => CoordinatorInv
BY DEF Init, OwnerInit, CoordinatorInv, PlaceInv, OwnedInv, ResourceInv,
       Preparing, Capturing, Processing, Ending, InTurn

\* Next, in the parts above.
LEMMA NextParts ==
    ASSUME Next
    PROVE  \/ Entry \/ CaptureStep \/ ReplyStep
           \/ (CleanupStep \/ ReleaseLease \/ Forget \/ PollEnds)
           \/ CancelStep \/ ReentrantCancel
           \/ OtherBegins \/ ExternalCancel \/ Expire
           \/ \E cleaned \in BOOLEAN : OtherReleases(cleaned)
BY DEF Next, CallStep, Entry, CaptureStep, ReplyStep, CleanupStep, CancelStep

\* Every step keeps the leases apart.
LEMMA OwnedStep ==
    ASSUME PlaceInv, OwnedInv, Next
    PROVE  OwnedInv'
<1>1. CASE Entry BY <1>1, EntryOwned
<1>2. CASE CaptureStep BY <1>2, CaptureDoes, QuietOwned DEF threadVars, Capturing
<1>3. CASE ReplyStep BY <1>3, ReplyDoes, QuietOwned DEF threadVars, Capturing, Processing, Routing
<1>4. CASE CleanupStep \/ ReleaseLease \/ Forget \/ PollEnds BY <1>4, EndOwned
<1>5. CASE CancelStep BY <1>5, CancelOwned
<1>6. CASE ReentrantCancel BY <1>6, QuietOwned DEF ReentrantCancel
<1>7. CASE OtherBegins \/ \E cleaned \in BOOLEAN : OtherReleases(cleaned) BY <1>7, OtherOwned
<1>8. CASE ExternalCancel BY <1>8, QuietOwned DEF ExternalCancel, turnVars, threadVars, callVars
<1>9. CASE Expire BY <1>9, QuietOwned DEF Expire, turnVars, threadVars, callVars
<1>10. QED BY <1>1, <1>2, <1>3, <1>4, <1>5, <1>6, <1>7, <1>8, <1>9, NextParts

\* Every step keeps phase, lease and callback together.
LEMMA PlaceStep ==
    ASSUME PlaceInv, OwnedInv, Next
    PROVE  PlaceInv'
<1>1. CASE Entry BY <1>1, EntryPlace
<1>2. CASE CaptureStep BY <1>2, CapturePlace
<1>3. CASE ReplyStep BY <1>3, ReplyPlace
<1>4. CASE CleanupStep \/ ReleaseLease \/ Forget \/ PollEnds BY <1>4, EndPlace
<1>5. CASE CancelStep \/ ReentrantCancel BY <1>5, CancelPlace
<1>6. CASE OtherBegins \/ ExternalCancel \/ Expire
           \/ \E cleaned \in BOOLEAN : OtherReleases(cleaned)
  <2>1. UNCHANGED <<phase, mine, pc>>
    BY <1>6 DEF OtherBegins, ExternalCancel, Expire, OtherReleases, turnVars, callVars
  <2>2. QED BY <2>1 DEF PlaceInv
<1>7. QED BY <1>1, <1>2, <1>3, <1>4, <1>5, <1>6, NextParts

\* Every step accounts for what runs.
LEMMA ResourceStep ==
    ASSUME PlaceInv, OwnedInv, ResourceInv, Next
    PROVE  ResourceInv'
BY NextParts, EntryResource, CaptureResource, ReplyResource, EndResource, CancelResource,
   OtherResource

\* So it holds in every reachable state.
LEMMA Invariant == Spec => []CoordinatorInv
<1>1. ASSUME CoordinatorInv, [Next]_vars PROVE CoordinatorInv'
  <2>1. CASE Next
    BY <1>1, <2>1, PlaceStep, OwnedStep, ResourceStep DEF CoordinatorInv
  <2>2. CASE UNCHANGED vars
    BY <1>1, <2>2 DEF CoordinatorInv, PlaceInv, OwnedInv, ResourceInv, vars, ownerVars,
                      turnVars, resources, callVars, threadVars
  <2>3. QED BY <1>1, <2>1, <2>2
<1>2. QED BY InitInv, <1>1, PTL DEF Spec

-----------------------------------------------------------------------------
(* What the coordinator promises *)

\* Whatever raises or fails and whoever cancels, what records or transcribes keeps
\* the owner from every other adapter, and recording ends before transcription
\* starts (coordinator.py _feed, _cleanup, _release).
THEOREM AlwaysLeased == Spec => []ResourcesLeased
<1>1. ASSUME CoordinatorInv PROVE ResourcesLeased
  <2> USE <1>1 DEF CoordinatorInv
  <2>1. PhaseMatchesLease
    BY DEF PhaseMatchesLease, PlaceInv, OwnedInv, ResourceInv, InTurn
  <2>2. mic \/ asr \/ capture # "idle" => state = "faulted" \/ (mine # 0 /\ owner = mine)
    <3>1. SUFFICES ASSUME mic \/ asr \/ capture # "idle", state # "faulted"
                   PROVE  mine # 0 /\ owner = mine
      OBVIOUS
    <3>2. mine # 0 /\ pc # "forget" BY <3>1 DEF ResourceInv
    <3>3. QED BY <3>2 DEF OwnedInv
  <2>3. mic /\ asr => state = "faulted" BY DEF ResourceInv
  <2>4. QED BY <2>1, <2>2, <2>3 DEF ResourcesLeased
<1>2. QED BY Invariant, <1>1, PTL

\* No cancel or cleanup of a turn touches the lease of the adapter that took over,
\* however many threads cancel and however late (coordinator.py cancel, _release).
THEOREM SuccessorNeverTouched == Spec => SuccessorUntouched
<1> DEFINE A == other # 0 /\ other' = other /\ ~ExternalCancel => UNCHANGED <<owner, state>>
<1>1. ASSUME CoordinatorInv, Next PROVE A
  <2> SUFFICES ASSUME other # 0, other' = other, ~ExternalCancel
               PROVE  UNCHANGED <<owner, state>>
    OBVIOUS
  <2>1. /\ PlaceInv /\ owner = other /\ owner # 0 /\ mine # owner /\ state # "idle"
        /\ \A t \in Cancellers : cancels[t].gen # owner
    BY <1>1 DEF CoordinatorInv, OwnedInv
  <2>2. CancelLease(mine) => UNCHANGED <<owner, state>>
    BY <2>1 DEF CancelLease, ownerVars
  <2>3. \A t \in Cancellers : CancelLease(cancels[t].gen) => UNCHANGED <<owner, state>>
    BY <2>1 DEF CancelLease, ownerVars
  <2>4. CASE Entry
    BY <2>1, <2>4 DEF Entry, Activate, SpeechStopped, Presampled, Sampled, ConfirmPanel, Begin,
                      CanBegin, ownerVars
  <2>5. CASE CaptureStep \/ ReplyStep
    BY <2>2, <2>5, CaptureDoes, ReplyDoes DEF ownerVars
  <2>6. CASE CleanupStep \/ ReleaseLease \/ Forget \/ PollEnds
    BY <2>1, <2>6 DEF CleanupStep, Cleanup, ReleaseLease, Release, Forget, PollEnds, Continue,
                      ownerVars
  <2>7. CASE CancelStep BY <1>1, <2>2, <2>3, <2>7, CancelDoes DEF ownerVars, CoordinatorInv
  <2>8. CASE ReentrantCancel BY <2>2, <2>8 DEF ReentrantCancel
  <2>9. CASE OtherBegins \/ Expire \/ \E cleaned \in BOOLEAN : OtherReleases(cleaned)
    BY <2>9 DEF OtherBegins, Expire, OtherReleases, ownerVars
  <2>10. QED BY <1>1, <2>4, <2>5, <2>6, <2>7, <2>8, <2>9, NextParts
<1>2. CoordinatorInv /\ [Next]_vars => [A]_vars BY <1>1
<1>3. QED BY Invariant, <1>2, PTL DEF Spec, SuccessorUntouched

\* While there is authority left for a command that has acted, or that a cancel has
\* ended, it is because its executor is running, or there is no preview to confirm.
SpentInv ==
    /\ pc \in {"panelroute", "panelacting"} => ~ pending
    /\ valid /\ "turn" \in spent => \/ pc \in {"acting", "panelacting"}
                                    \/ ~ pending /\ (mine = 0 \/ pc \in Ending)
    /\ "next" \in spent /\ pc \in Preparing /\ ~ withToken => cancelRequested

\* A step of the capture gives no authority and takes no place of the router.
LEMMA CaptureSpent ==
    ASSUME PlaceInv, SpentInv, CaptureStep
    PROVE  SpentInv'
<1>1. UNCHANGED <<mine, spent>> /\ mine # 0 /\ pc \notin {"acting", "panelacting"} \cup Ending
  BY CaptureDoes DEF PlaceInv, Capturing, Ending, threadVars
<1>2. /\ valid' => valid
      /\ pc' \notin Preparing \cup {"panelroute", "panelacting"}
  <2> USE DEF Check, Continue, Fail, Done, turnVars, Preparing
  <2>1. ASSUME NEW ok \in BOOLEAN, NEW fresh \in BOOLEAN,
               Started(ok, fresh) \/ Armed(ok, fresh) \/ DeviceMade(ok, fresh)
                  \/ DeviceStarted(ok, fresh) \/ StopObserved(ok, fresh)
        PROVE  (valid' => valid) /\ pc' \notin Preparing \cup {"panelroute", "panelacting"}
    <3>1. CASE Started(ok, fresh) BY <3>1 DEF Started
    <3>2. CASE Armed(ok, fresh) BY <3>2 DEF Armed
    <3>3. CASE DeviceMade(ok, fresh) BY <3>3 DEF DeviceMade
    <3>4. CASE DeviceStarted(ok, fresh) BY <3>4 DEF DeviceStarted
    <3>5. CASE StopObserved(ok, fresh) BY <3>5 DEF StopObserved
    <3>6. QED BY <2>1, <3>1, <3>2, <3>3, <3>4, <3>5
  <2>2. ASSUME NEW kind \in {"frame", "bad", "duplicate"}, NEW fresh \in BOOLEAN, Feed(kind, fresh)
        PROVE  (valid' => valid) /\ pc' \notin Preparing \cup {"panelroute", "panelacting"}
    BY <2>2 DEF Feed, FeedFrame
  <2>3. ASSUME NEW result \in {"recording", "idle", "processing", "failed"}, NEW fresh \in BOOLEAN,
               Fed(result, fresh)
        PROVE  (valid' => valid) /\ pc' \notin Preparing \cup {"panelroute", "panelacting"}
    BY <2>3 DEF Fed
  <2>4. ASSUME NEW proven \in BOOLEAN, CaptureStopped(proven)
        PROVE  (valid' => valid) /\ pc' \notin Preparing \cup {"panelroute", "panelacting"}
    BY <2>4 DEF CaptureStopped
  <2>5. QED BY <2>1, <2>2, <2>3, <2>4 DEF CaptureStep
<1>3. QED BY <1>1, <1>2 DEF SpentInv

\* So does one of the transcription; the router acts for a command that has not acted,
\* and answers without authority or without a preview for one that has.
LEMMA ReplySpent ==
    ASSUME PlaceInv, SpentInv, ReplyStep
    PROVE  SpentInv' /\ (pc' \in {"acting", "panelacting"} /\ pc' # pc => "turn" \notin spent)
<1> DEFINE Quiet == /\ UNCHANGED <<mine, spent>> /\ mine # 0 /\ (valid' => valid)
                    /\ pc \notin Routing \cup Ending
                    /\ pc' \notin Preparing \cup {"panelroute", "acting", "panelacting"}
           Goal == /\ SpentInv'
                   /\ pc' \in {"acting", "panelacting"} /\ pc' # pc => "turn" \notin spent
<1>1. ASSUME Quiet PROVE Goal
  BY <1>1 DEF SpentInv, Routing
<1>2. ASSUME NEW ok \in BOOLEAN, NEW fresh \in BOOLEAN,
             TranscriptionAnnounced(ok, fresh) \/ JobMade(ok, fresh) \/ JobStarted(ok, fresh)
      PROVE  Quiet
  BY <1>2 DEF TranscriptionAnnounced, JobMade, JobStarted, Check, Continue, Fail, Done, turnVars,
     threadVars, PlaceInv, Preparing, Capturing, Processing, Routing, Ending
<1>3. ASSUME NEW fresh \in BOOLEAN, Poll(fresh) \/ PollFrame(fresh) PROVE Quiet
  BY <1>3 DEF Poll, PollFrame, FeedFrame, Check, Continue, Fail, Done, turnVars,
     threadVars, PlaceInv, Preparing, Capturing, Processing, Routing, Ending, InTurn
<1>4. ASSUME NEW ok \in BOOLEAN, DevicePolled(ok) PROVE Quiet
  BY <1>4 DEF DevicePolled, Continue, Fail, turnVars,
     threadVars, PlaceInv, Preparing, Capturing, Processing, Routing, Ending
<1>5. ASSUME NEW answer \in {"none", "result", "raised"}, JobPolled(answer) \/ Transcribed
      PROVE  Quiet
  BY <1>5 DEF JobPolled, Transcribed, Continue, Fail, turnVars,
     threadVars, PlaceInv, Preparing, Capturing, Processing, Routing, Ending, InTurn
<1>6. ASSUME NEW proven \in BOOLEAN, NEW fresh \in BOOLEAN, ResultChecked(proven, fresh) PROVE Quiet
  BY <1>6 DEF ResultChecked, Check, Continue, Fail, turnVars,
     threadVars, PlaceInv, Preparing, Capturing, Processing, Routing, Ending
<1>7. ASSUME NEW ok \in BOOLEAN, NEW success \in BOOLEAN, NEW fresh \in BOOLEAN,
             TranscriptObserved(ok, success, fresh)
      PROVE  Quiet
  BY <1>7 DEF TranscriptObserved, Fail, turnVars,
     threadVars, PlaceInv, Preparing, Capturing, Processing, Routing, Ending
<1>8. ASSUME NEW fresh \in BOOLEAN, RouterActs(fresh) PROVE Goal
  <2>1. /\ UNCHANGED <<mine, valid, pending>> /\ mine # 0 /\ valid
        /\ (pc = "route" /\ pc' = "acting") \/ (pc = "panelroute" /\ pc' = "panelacting")
    BY <1>8 DEF RouterActs, Current, Continue, turnVars, PlaceInv
  <2>2. "turn" \notin spent
    BY <2>1 DEF SpentInv, Ending
  <2>3. QED BY <2>1, <2>2 DEF SpentInv, Preparing
<1>9. ASSUME NEW keepsToken \in BOOLEAN, NEW fresh \in BOOLEAN, RouterReplies(keepsToken, fresh)
      PROVE  Goal
  <2>1. /\ pc' = "cleanup" /\ UNCHANGED <<mine, spent>> /\ mine # 0 /\ (valid' => valid)
        /\ pc \in Routing
    BY <1>9 DEF RouterReplies, threadVars, PlaceInv, Routing
  <2>2. CASE pc = "route"
    BY <2>1, <2>2 DEF SpentInv, Preparing, Ending
  <2>3. CASE pc # "route"
    <3>1. ~ pending'
      BY <1>9, <2>1, <2>3 DEF RouterReplies, SpentInv, Routing
    <3>2. QED BY <2>1, <3>1 DEF SpentInv, Preparing, Ending
  <2>4. QED BY <2>2, <2>3
<1>10. ASSUME RouterRaises PROVE Goal
  BY <1>10 DEF RouterRaises, Fail, SpentInv, Preparing, Ending
<1> HIDE DEF Goal, Quiet
<1>11. Goal
  BY <1>1, <1>2, <1>3, <1>4, <1>5, <1>6, <1>7, <1>8, <1>9, <1>10 DEF ReplyStep, Polls
<1>12. QED BY <1>11 DEF Goal

\* A fresh command begins with authority of its own, unless a cancel has reached its
\* preparation; with a token the old one goes on, which its preview shows unspent.
LEMMA EntrySpent ==
    ASSUME PlaceInv, SpentInv, Entry
    PROVE  SpentInv'
<1> USE DEF SpentInv, PlaceInv, Preparing, Ending, turnVars, threadVars
<1>1. ASSUME NEW token \in BOOLEAN, Activate(token) PROVE SpentInv'
  BY <1>1 DEF Activate
<1>2. ASSUME NEW proven \in BOOLEAN, SpeechStopped(proven) PROVE SpentInv'
  BY <1>2 DEF SpeechStopped
<1>3. ASSUME NEW fresh \in BOOLEAN, Presampled(fresh) PROVE SpentInv'
  BY <1>3 DEF Presampled
<1>4. ASSUME NEW usable \in BOOLEAN, Sampled(usable) PROVE SpentInv'
  <2>1. CASE pc' = "free"
    BY <1>4, <2>1 DEF Sampled
  <2>2. CASE pc' = "started"
    <3>1. Admitted(usable) /\ mine = 0 /\ pc = "sample"
      BY <1>4, <2>2 DEF Sampled
    <3>2. "turn" \notin spent'
      BY <1>4, <2>2, <3>1 DEF Sampled, Admitted
    <3>3. QED BY <2>2, <3>2
  <2>3. QED BY <1>4, <2>1, <2>2 DEF Sampled
<1>5. ASSUME NEW fresh \in BOOLEAN, ConfirmPanel(fresh) PROVE SpentInv'
  BY <1>5 DEF ConfirmPanel, Current, InTurn
<1>6. QED BY <1>1, <1>2, <1>3, <1>4, <1>5 DEF Entry

\* Every step keeps that, and lets the executor run only for a command that is not spent.
LEMMA SpentStep ==
    ASSUME PlaceInv, SpentInv, Next
    PROVE  SpentInv' /\ (pc' \in {"acting", "panelacting"} /\ pc' # pc => "turn" \notin spent)
<1> DEFINE Goal == /\ SpentInv'
                   /\ pc' \in {"acting", "panelacting"} /\ pc' # pc => "turn" \notin spent
<1>1. CASE Entry
  <2>1. pc' \notin {"acting", "panelacting"}
    BY <1>1 DEF Entry, Activate, SpeechStopped, Presampled, Sampled, ConfirmPanel, PlaceInv
  <2>2. QED BY <1>1, <2>1, EntrySpent
<1>2. CASE CaptureStep BY <1>2, CaptureDoes, CaptureSpent
<1>3. CASE ReplyStep BY <1>3, ReplySpent
<1>4. CASE CleanupStep \/ ReleaseLease \/ Forget \/ PollEnds
  <2> USE DEF SpentInv, Preparing, Ending, turnVars, threadVars
  <2>1. CASE CleanupStep BY <2>1 DEF CleanupStep, Cleanup
  <2>2. CASE ReleaseLease BY <2>2 DEF ReleaseLease
  <2>3. CASE Forget BY <2>3 DEF Forget, Done
  <2>4. CASE PollEnds BY <2>4 DEF PollEnds, Continue
  <2>5. QED BY <1>4, <2>1, <2>2, <2>3, <2>4
<1>5. CASE CancelStep \/ ReentrantCancel
  <2>1. /\ pc' = pc \/ pc' = "cleanup"
        /\ (UNCHANGED <<mine, valid, pending, spent, pc, withToken>>
              /\ (cancelRequested => cancelRequested'))
           \/ (~ valid' /\ ~ pending' /\ (cancelRequested' \/ pc' \in {"free", "cleanup"}))
    BY <1>5 DEF CancelStep, CancelReads, CancelFlags, CancelInvalidates, CancelLocks, Fail, Revoke,
       ReentrantCancel, turnVars, callVars
  <2>2. QED BY <2>1 DEF SpentInv, Preparing
<1>6. CASE OtherBegins \/ ExternalCancel \/ Expire
           \/ \E cleaned \in BOOLEAN : OtherReleases(cleaned)
  BY <1>6 DEF OtherBegins, ExternalCancel, Expire, OtherReleases, SpentInv, turnVars, callVars,
     threadVars
<1> HIDE DEF Goal
<1>7. Goal BY <1>1, <1>2, <1>3, <1>4, <1>5, <1>6, NextParts DEF Goal
<1>8. QED BY <1>7 DEF Goal

\* What was said once acts once at most and never after a cancel of it has returned, for
\* any number of cancelling threads and turns, with and without a device
\* (coordinator.py _activate, cancel, confirm).
THEOREM AlwaysActsOnce == Spec => ActsOnce
<1> DEFINE A == pc' \in {"acting", "panelacting"} /\ pc' # pc => "turn" \notin spent
<1>1. ASSUME CoordinatorInv, SpentInv, [Next]_vars PROVE SpentInv'
  <2>1. CASE Next BY <1>1, <2>1, SpentStep DEF CoordinatorInv
  <2>2. CASE UNCHANGED vars
    BY <1>1, <2>2 DEF SpentInv, vars, turnVars, callVars, threadVars
  <2>3. QED BY <1>1, <2>1, <2>2
<1>2. Init => SpentInv BY DEF Init, SpentInv, Preparing
<1>3. CoordinatorInv /\ SpentInv /\ [Next]_vars => [A]_vars
  BY SpentStep DEF CoordinatorInv
<1>4. QED BY Invariant, <1>1, <1>2, <1>3, PTL DEF Spec, ActsOnce
=============================================================================
