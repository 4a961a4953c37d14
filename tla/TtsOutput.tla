----------------------------- MODULE TtsOutput ------------------------------
(***************************************************************************)
(* Spoken output, runtime/voice/tts.py, borrowing the conversation's lease.*)
(* `outputs' is what physically runs; the call's fields are what TtsOutput *)
(* knows of it.  `at' is what the holder of its _lock does next ("free":   *)
(* _busy is False).  The gateway, players and mixes are collaborators: a   *)
(* handle proves cleanup only of what has ended, and may fail to.  No      *)
(* coordinator makes the conversation keep its lease until the output is   *)
(* clean (tts.py says so), so it may end under a playing call.             *)
(***************************************************************************)
EXTENDS Conversation

VARIABLES call,         \* _call is not None
          token,        \* call.snapshot.current_turn.generation
          cut,          \* call.epoch # _epoch: cancel came since the call began
          gatewayOwned, synthesisClean, unknown,    \* call.*
          player, mix,  \* call.player, call.mix are not None
          speaking,     \* _phase
          fault,        \* _fault
          terminal,     \* _terminal, "none" for None
          at, polling,  \* the holder of _lock; whether it is poll
          silenced,     \* _cleanup's verdict, in _retire
          outputs,      \* subset of {"synthesis", "mix", "player"}
          silencer      \* the thread in cancel waits for _lock

ttsVars == <<call, token, cut, gatewayOwned, synthesisClean, unknown, player, mix, speaking,
             fault, terminal, at, polling, silenced, outputs, silencer>>
all == <<vars, talkVars, ttsVars>>

TtsInit == /\ TalkInit
           /\ call = FALSE /\ token = 0 /\ cut = FALSE
           /\ gatewayOwned = FALSE /\ synthesisClean = TRUE /\ unknown = FALSE
           /\ player = FALSE /\ mix = FALSE
           /\ speaking = "idle" /\ fault = FALSE /\ terminal = "none"
           /\ at = "free" /\ polling = FALSE /\ silenced = TRUE
           /\ outputs = {} /\ silencer = FALSE

-----------------------------------------------------------------------------
\* _check passes; the sampled audio snapshot and configuration may differ anyway.
Fresh == ~cut /\ Accepts(token)

CallFields == <<token, gatewayOwned, synthesisClean, unknown, player, mix>>

Holds(label) == /\ at' = label /\ UNCHANGED silencer
                /\ polling' = (polling /\ label # "free")

\* A _Stop, or a collaborator's exception, while there is a call: _retire.
Retires == Holds("retire")

CheckRetires == /\ Retires
                /\ UNCHANGED <<call, cut, speaking, fault, terminal, silenced, outputs>>
                /\ UNCHANGED CallFields

\* start: refused with a fault, a call or an untaken result.  It may also be denied
\* (admit) or find the turn's lease gone, and then leaves only a notice.
SpeakStart == /\ at = "free" /\ scene.speech
              /\ ~fault /\ ~call /\ terminal = "none"
              /\ turn > 0 /\ Accepts(lease)
              /\ call' = TRUE /\ token' = lease /\ cut' = FALSE
              /\ gatewayOwned' = FALSE /\ synthesisClean' = TRUE /\ unknown' = FALSE
              /\ at' = "admitted" /\ polling' = FALSE
              /\ UNCHANGED <<player, mix, speaking, fault, terminal, silenced, outputs, silencer>>

\* _gateway.start: a rejected start owns nothing and leaves no completion.
GatewayStart ==
    /\ at = "admitted"
    /\ \/ CheckRetires
       \/ /\ Fresh
          /\ \/ /\ call' = FALSE /\ Holds("free") /\ UNCHANGED <<gatewayOwned, outputs, speaking>>
             \/ /\ gatewayOwned' = TRUE /\ outputs' = outputs \cup {"synthesis"}
                /\ speaking' = "synthesizing" /\ Holds("issued") /\ UNCHANGED call
          /\ UNCHANGED <<token, cut, synthesisClean, unknown, player, mix, fault,
                         terminal, silenced>>

\* The check after which the operation returns, unless its polls are used up.
LastCheck == /\ at \in {"issued", "waited"}
             /\ \/ CheckRetires
                \/ /\ Fresh /\ Holds("free")
                   /\ UNCHANGED <<call, cut, speaking, fault, terminal, silenced, outputs>>
                   /\ UNCHANGED CallFields

\* poll: with no call it only hands over what a cancel left.
SpeakPoll == /\ at = "free" /\ scene.speech
             /\ \/ ~call /\ terminal # "none" /\ terminal' = "none" /\ UNCHANGED <<at, polling>>
                \/ call /\ at' = "advance" /\ polling' = TRUE /\ UNCHANGED terminal
             /\ UNCHANGED <<call, cut, speaking, fault, silenced, outputs, silencer>>
             /\ UNCHANGED CallFields

\* _advance while synthesizing: the gateway still works, raises, or has a result.
\* A result is followed by the gateway's own word on its cleanup.
Synthesize ==
    /\ at = "advance" /\ speaking = "synthesizing"
    /\ \/ CheckRetires
       \/ /\ Fresh
          /\ \/ /\ Holds("waited")
                /\ UNCHANGED <<gatewayOwned, synthesisClean, outputs>>
             \/ /\ gatewayOwned' = FALSE
                /\ \E proven \in BOOLEAN :
                     /\ synthesisClean' = proven
                     /\ outputs' = IF proven THEN outputs \ {"synthesis"} ELSE outputs
                     /\ Retires \/ (proven /\ Holds("result"))
          /\ UNCHANGED <<call, token, cut, unknown, player, mix, speaking, fault, terminal,
                         silenced>>

\* _play: a factory that raises, or returns no handle, may have opened something.
OpenMix == /\ at = "result"
           /\ \/ CheckRetires
              \/ /\ Fresh
                 /\ outputs' = outputs \cup {"mix"}
                 /\ \/ mix' = TRUE /\ unknown' = FALSE /\ Holds("mixed")
                    \/ mix' = FALSE /\ unknown' = TRUE /\ Retires
                 /\ UNCHANGED <<call, token, cut, gatewayOwned, synthesisClean, player, 
                                speaking, fault, terminal, silenced>>

\* The checks around mix.apply, and the player's factory.
OpenPlayer == /\ at = "mixed"
              /\ \/ CheckRetires
                 \/ /\ Fresh
                    /\ outputs' = outputs \cup {"player"}
                    /\ \/ player' = TRUE /\ unknown' = FALSE /\ Holds("playing")
                       \/ player' = FALSE /\ unknown' = TRUE /\ Retires
                    /\ UNCHANGED <<call, token, cut, gatewayOwned, synthesisClean, mix, 
                                   speaking, fault, terminal, silenced>>

\* The checks around player.start.
Playing == /\ at = "playing"
           /\ \/ CheckRetires
              \/ /\ Fresh /\ Holds("free") /\ speaking' = "playing"
                 /\ UNCHANGED <<call, cut, fault, terminal, silenced, outputs>>
                 /\ UNCHANGED CallFields

\* _advance while playing: complete, failed and out of polls all retire the call.
PollPlayer == /\ at = "advance" /\ speaking = "playing"
              /\ \/ CheckRetires
                 \/ /\ Fresh /\ Holds("waited")
                    /\ UNCHANGED <<call, cut, speaking, fault, terminal, silenced, outputs>>
                    /\ UNCHANGED CallFields

-----------------------------------------------------------------------------
\* What _cleanup asks to stop, and what it will not know of.
Held == (IF gatewayOwned THEN {"synthesis"} ELSE {})
        \cup (IF player THEN {"player"} ELSE {}) \cup (IF mix THEN {"mix"} ELSE {})

\* Mutant: the first handle that fails ends the cleanup.
SilencesFirst(proven) == Held \subseteq proven

\* _cleanup's verdict: every handle proved it, and nothing was opened or left
\* running that no handle stands for.
Silences(proven) == ~unknown /\ synthesisClean /\ Held \subseteq proven

\* _cleanup: cancel and poll the gateway, cancel the player, restore the mix, each
\* tried whatever the others did.
Retire == /\ at = "retire"
          /\ speaking' = "stopping"
          /\ \E proven \in SUBSET Held :
               /\ silenced' = Silences(proven)
               /\ outputs' = outputs \ proven
          /\ gatewayOwned' = FALSE /\ player' = FALSE /\ mix' = FALSE
          /\ Holds("report")
          /\ UNCHANGED <<call, token, cut, synthesisClean, unknown, fault, terminal>>

\* "Fault only the borrowed owning generation": a successor's lease is not altered.
Report == /\ at = "report"
          /\ fault' = (fault \/ ~silenced)
          /\ IF ~silenced /\ state # "faulted" /\ owner = token
             THEN /\ Release(token, FALSE)
                  /\ holds' = [holds EXCEPT !["conversation"] = 0]
                  /\ UNCHANGED <<given, live>>
             ELSE UNCHANGED vars
          /\ UNCHANGED talkVars
          /\ Holds("settle")
          /\ UNCHANGED <<call, cut, speaking, terminal, silenced, outputs>>
          /\ UNCHANGED CallFields

\* The completion, under _gate; poll takes it in the same call.  The call is gone,
\* but for the generation that a fault is about.
Settle == /\ at = "settle"
          /\ call' = FALSE /\ token' = IF fault THEN token ELSE 0
          /\ cut' = FALSE /\ synthesisClean' = TRUE /\ unknown' = FALSE /\ silenced' = TRUE
          /\ terminal' = IF polling THEN "none"
                         ELSE IF silenced /\ cut THEN "canceled" ELSE "ended"
          /\ speaking' = IF fault THEN "faulted" ELSE "idle"
          /\ Holds("free")
          /\ UNCHANGED <<gatewayOwned, player, mix, fault, outputs>>

-----------------------------------------------------------------------------
\* cancel: the epoch moves at once, the rest waits for _lock.
Silence == /\ scene.speech /\ ~silencer
           /\ cut' = call /\ silencer' = TRUE
           /\ UNCHANGED <<call, speaking, fault, terminal, at, polling, silenced, outputs>>
           /\ UNCHANGED CallFields

SilenceRun == /\ silencer /\ at = "free"
              /\ silencer' = FALSE /\ polling' = FALSE
              /\ at' = IF call THEN "retire" ELSE "free"
              /\ UNCHANGED <<call, cut, speaking, fault, terminal, silenced, outputs>>
              /\ UNCHANGED CallFields

-----------------------------------------------------------------------------
OutputStep == \/ GatewayStart \/ LastCheck \/ Synthesize \/ OpenMix \/ OpenPlayer
              \/ Playing \/ PollPlayer \/ Retire \/ Settle

TtsNext == \/ TalkNext /\ UNCHANGED ttsVars
           \/ (SpeakStart \/ SpeakPoll \/ Silence \/ SilenceRun \/ OutputStep)
              /\ UNCHANGED <<vars, talkVars>>
           \/ Report

\* Collaborators are "trusted and bounded", and threads are scheduled.
TtsSpec ==
    /\ TtsInit /\ [][TtsNext]_all
    /\ WF_all(HolderStep /\ UNCHANGED ttsVars)
    /\ \A c \in Cancelers : WF_all((CancelInvalidate(c) \/ CancelRun(c)) /\ UNCHANGED ttsVars)
    /\ WF_all(Report \/ ((OutputStep \/ SilenceRun) /\ UNCHANGED <<vars, talkVars>>))

-----------------------------------------------------------------------------
\* Nothing spoken is ever lost sight of: what may still sound, synthesize or hold
\* the mix belongs to the call in progress, or the output is faulted for good; and a
\* fault reaches the owner unless the lease it borrowed is no longer the owner's.
OutputAccounted ==
    /\ outputs # {} => call \/ fault
    /\ fault /\ outputs # {} => state = "faulted" \/ owner # token

\* cancel ends the call it found, whatever callback it interrupted, and every cancel
\* of the conversation ends in _stop; only a faulted owner keeps an intent waiting.
CancelsEnd == /\ CancelEnds
              /\ (call /\ cut) ~> ~call
=============================================================================
