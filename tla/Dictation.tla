------------------------------ MODULE Dictation ------------------------------
(***************************************************************************)
(* Home/End dictation, runtime/voice/dictation.py: record, transcribe and  *)
(* type the text into the window that had the focus when recording began,  *)
(* or copy it when typing certainly had no effect.                         *)
(*                                                                         *)
(* The object's lock is re-entrant: another thread waits, but a callback   *)
(* (focus, observer, capture, transcriber, output) that calls home, end or *)
(* cancel runs at once and is only refused by `dstate`.                    *)
(***************************************************************************)
EXTENDS CallStack

CONSTANT Windows   \* focus tokens

ASSUME WindowAssumption == Windows # {} /\ None \notin Windows

VARIABLES
    dstate,     \* _state: "idle", "recording", "processing" or "faulted"
    target,     \* _target: focus token of the recording, or None
    recording,  \* _interaction: number of the latest one admitted
    provider,   \* is the provider a healthy, enabled transcriber of this VM?
    window,     \* focused window
    mic,        \* may the capture be recording?
    aimed,      \* history: window focused when each interaction began
    effects     \* history: texts typed, perhaps in part, or copied, per interaction

objectVars == <<dstate, target, recording>>
worldVars == <<window, mic, aimed, effects>>
dictationVars == <<objectVars, provider, worldVars>>

DictationFns == {"home", "end", "cancel"}
Interactions == 1 .. MaxCalls

DictationInit(providers) ==
    /\ dstate = "idle" /\ target = None /\ recording = 0 /\ provider \in providers
    /\ window = (CHOOSE w \in Windows : TRUE) /\ mic = FALSE
    /\ aimed = [i \in Interactions |-> None]
    /\ effects = [i \in Interactions |-> <<>>]

\* The re-entrant lock: nobody else is inside.
Enters(t, fn) == At(t, fn, "lock") /\ Inside(DictationFns) \subseteq {t}

Finishing(status, attempted) == [status |-> status, attempted |-> attempted]

\* _complete up to its observer.
Complete(t, status, attempted) == Goto(t, "complete", Finishing(status, attempted))

\* The rest of _complete: what the observer missed is not reported as done.
Completed(t, observed) ==
    \E fn \in DictationFns :
        /\ At(t, fn, "complete")
        /\ target' = None
        /\ dstate' = IF dstate = "faulted" THEN dstate ELSE "idle"
        /\ Return(t, CASE observed -> Top(t).arg.status
                       [] ~observed /\ (Top(t).arg.attempted \/ dstate = "faulted") -> "uncertain"
                       [] OTHER -> "blocked")
        /\ UNCHANGED <<recording, provider, worldVars>>

\* _cleanup, then _complete: a capture that cannot be canceled is a lasting fault.
Cleanup(t, clean) ==
    \E fn \in DictationFns :
        /\ At(t, fn, "cleanup")
        /\ IF clean THEN mic' = FALSE ELSE mic' \in {mic, FALSE}
        /\ dstate' = IF clean THEN "processing" ELSE "faulted"
        /\ Complete(t, IF ~clean THEN "uncertain" ELSE IF fn = "cancel" THEN "canceled" ELSE "failed",
                    FALSE)
        /\ UNCHANGED <<target, recording, provider, window, aimed, effects>>

-----------------------------------------------------------------------------
(* home *)

HomeEnters(t) ==
    /\ Enters(t, "home")
    /\ IF dstate # "idle"
       THEN Return(t, "blocked") /\ UNCHANGED objectVars
       ELSE /\ recording < MaxCalls  \* bound of the histories: each interaction is a call
            /\ dstate' = "processing" /\ recording' = recording + 1
            /\ UNCHANGED target
            /\ IF provider THEN Goto(t, "focus", NoArg) ELSE Complete(t, "blocked", FALSE)
    /\ UNCHANGED <<provider, worldVars>>

HomeFocus(t, ok) ==
    /\ At(t, "home", "focus")
    /\ IF ok THEN /\ target' = window /\ aimed' = [aimed EXCEPT ![recording] = window]
                  /\ Goto(t, "starting", NoArg)
             ELSE Complete(t, "blocked", FALSE) /\ UNCHANGED <<target, aimed>>
    /\ UNCHANGED <<dstate, recording, provider, window, mic, effects>>

HomeStarting(t, observed) ==
    /\ At(t, "home", "starting")
    /\ IF observed
       THEN Goto(t, "start", NoArg) /\ dstate' = "processing" /\ UNCHANGED target
       ELSE Return(t, "blocked") /\ dstate' = "idle" /\ target' = None
    /\ UNCHANGED <<recording, provider, worldVars>>

\* capture.start may fail with the device half open.
HomeStart(t, ok) ==
    /\ At(t, "home", "start")
    /\ IF ok THEN mic' = TRUE /\ dstate' = "recording" /\ Return(t, "recording")
             ELSE mic' \in BOOLEAN /\ Goto(t, "cleanup", NoArg) /\ UNCHANGED dstate
    /\ UNCHANGED <<target, recording, provider, window, aimed, effects>>

-----------------------------------------------------------------------------
(* end and cancel *)

EndEnters(t) ==
    /\ Enters(t, "end")
    /\ IF dstate # "recording"
       THEN Return(t, "blocked") /\ UNCHANGED dstate
       ELSE dstate' = "processing" /\ Goto(t, "stop", NoArg)
    /\ UNCHANGED <<target, recording, provider, worldVars>>

EndStop(t, ok) ==
    /\ At(t, "end", "stop")
    /\ IF ok THEN mic' = FALSE /\ Goto(t, "processing", NoArg)
             ELSE Goto(t, "cleanup", NoArg) /\ UNCHANGED mic
    /\ UNCHANGED <<objectVars, provider, window, aimed, effects>>

EndProcessing(t, observed) ==
    /\ At(t, "end", "processing")
    /\ IF observed THEN Goto(t, "transcribe", NoArg) ELSE Complete(t, "blocked", FALSE)
    /\ UNCHANGED dictationVars

EndTranscribe(t, ok) ==
    /\ At(t, "end", "transcribe")
    /\ IF ok THEN Goto(t, "focus", NoArg) ELSE Complete(t, "failed", FALSE)
    /\ UNCHANGED dictationVars

\* The focus is where it was: before typing, and again before copying.
EndFocus(t, ok) ==
    /\ \/ At(t, "end", "focus") /\ ok /\ window = target /\ Goto(t, "type", NoArg)
       \/ At(t, "end", "refocus") /\ ok /\ window = target /\ Goto(t, "copy", NoArg)
       \/ /\ At(t, "end", "focus") \/ At(t, "end", "refocus")
          /\ ~ok \/ window # target
          /\ Complete(t, "blocked", FALSE)
    /\ UNCHANGED dictationVars

\* What the output reports, or "raised", and the effects that may have had: the
\* trusted output says not-delivered only when nothing happened.
Deliveries == {"delivered", "not-delivered", "uncertain", "raised"}
Delivers(how, delivery) ==
    LET done == Append(effects[recording], how)
    IN effects' \in CASE delivery = "delivered" -> {[effects EXCEPT ![recording] = done]}
                      [] delivery = "not-delivered" -> {effects}
                      [] OTHER -> {effects, [effects EXCEPT ![recording] = done]}

\* Mutant: the text is also copied when the typing is uncertain.
MayCopyAgain(delivery) == delivery \in {"not-delivered", "uncertain"}
MayCopy(delivery) == delivery = "not-delivered"

Outcome(delivery) == CASE delivery = "delivered" -> "success"
                       [] delivery = "not-delivered" -> "failed"
                       [] OTHER -> "uncertain"

EndType(t, delivery) ==
    /\ At(t, "end", "type")
    /\ delivery = "delivered" => window = target
    /\ Delivers(target, delivery)
    /\ IF MayCopy(delivery) THEN Goto(t, "refocus", NoArg)
                            ELSE Complete(t, Outcome(delivery), TRUE)
    /\ UNCHANGED <<objectVars, provider, window, mic, aimed>>

EndCopy(t, delivery) ==
    /\ At(t, "end", "copy")
    /\ Delivers("clipboard", delivery)
    /\ Complete(t, Outcome(delivery), TRUE)
    /\ UNCHANGED <<objectVars, provider, window, mic, aimed>>

CancelEnters(t) ==
    /\ Enters(t, "cancel")
    /\ IF dstate # "recording"
       THEN Return(t, "blocked") /\ UNCHANGED dstate
       ELSE dstate' = "processing" /\ Goto(t, "cleanup", NoArg)
    /\ UNCHANGED <<target, recording, provider, worldVars>>

\* Before a recording has its target all windows are alike.
FocusMoves(w) ==
    /\ target # None /\ window # w /\ window' = w
    /\ UNCHANGED <<stackVars, objectVars, provider, mic, aimed, effects>>

DictationStep(t) ==
    \/ HomeEnters(t) \/ EndEnters(t) \/ CancelEnters(t)
    \/ \E ok \in BOOLEAN : \/ HomeFocus(t, ok) \/ HomeStarting(t, ok) \/ HomeStart(t, ok)
                           \/ EndStop(t, ok) \/ EndProcessing(t, ok) \/ EndTranscribe(t, ok)
                           \/ EndFocus(t, ok) \/ Cleanup(t, ok) \/ Completed(t, ok)
    \/ \E delivery \in Deliveries : EndType(t, delivery) \/ EndCopy(t, delivery)

-----------------------------------------------------------------------------
\* The microphone records only for a recording that end or cancel will still
\* close, or the fault is latched; and the text of one recording has an effect
\* once at most, in the window focused when it began or in the clipboard,
\* whatever callbacks and other threads call in between (dictation.py:91 and
\* "report uncertain after any possibly partial effect").
DictationAccounted ==
    /\ mic => \/ dstate \in {"recording", "faulted"}
              \/ dstate = "processing" /\ Inside(DictationFns) # {}
    /\ dstate = "recording" => target = aimed[recording] /\ target # None
    /\ \A i \in Interactions : /\ Len(effects[i]) <= 1
                               /\ effects[i] # <<>> => effects[i][1] \in {aimed[i], "clipboard"}
=============================================================================
