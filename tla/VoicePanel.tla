------------------------------ MODULE VoicePanel ------------------------------
(***************************************************************************)
(* The confirmation panel, ui/voice_panel.py: it shows one private preview *)
(* of a command at a time and sends one confirmation for it.               *)
(*                                                                         *)
(* The panel's lock is re-entrant.  Its callbacks (clock, voice state, and *)
(* the sender) may call back in: connect and disconnect always run, the    *)
(* others are refused by _busy.  The voice state it compares with is       *)
(* `context` and `muted`.  Only what a preview's expiry decides is kept of  *)
(* the clock: `expired` previews, and readings that raise or run backwards. *)
(***************************************************************************)
EXTENDS CallStack

CONSTANTS Tokens,      \* preview tokens the VM issues
          MaxTokens,   \* limit of _seen, 4096 in the code
          LastContext  \* the context epoch moves from 1 to here

ASSUME PanelAssumption == None \notin Tokens /\ Tokens # {}

VARIABLES
    context,    \* context epoch of the voice state
    muted,
    session,    \* is the panel connected?
    link,       \* _epoch: connects and disconnects so far
    preview,    \* _preview: [token, state], or NoPreview
    shown,      \* _seen
    pbusy,      \* _busy
    expired     \* tokens past their expiry

voiceState == <<context, muted>>
panelObject == <<session, link, preview, shown, pbusy>>
panelVars == <<voiceState, panelObject, expired>>

PanelFns == {"connect", "disconnect", "present", "view", "confirm"}
NoPreview == [token |-> None, state |-> <<>>]

\* A connected panel, at first or with a preview already on display.
PanelInit(previews) ==
    /\ context = 1 /\ muted = FALSE /\ session = TRUE /\ link = 1
    /\ preview \in {NoPreview} \cup [token : previews, state : {<<1, FALSE>>}]
    /\ shown = {preview.token} \ {None} /\ pbusy = FALSE /\ expired = {}

EntersPanel(t, fn) == At(t, fn, "lock") /\ Inside(PanelFns) \subseteq {t}
Shared == UNCHANGED <<voiceState, expired>>

\* connect and disconnect drop the preview and outdate calls in progress.
Connect(t) ==
    \E on \in BOOLEAN :
        /\ EntersPanel(t, IF on THEN "connect" ELSE "disconnect")
        /\ link' = link + 1 /\ session' = on /\ preview' = NoPreview
        /\ Return(t, "ok") /\ UNCHANGED <<shown, pbusy>> /\ Shared

\* _current after its callbacks: same connection, same unmuted voice state as
\* when the preview was issued, as it was sampled, and not expired.
Current(a) ==
    session /\ link = a.link /\ a.seen = a.p.state /\ ~a.seen[2] /\ a.p.token \notin expired

\* The operation ends, in whichever way.
Release(t, v) == Return(t, v) /\ pbusy' = FALSE

PresentEnters(t) ==
    /\ EntersPanel(t, "present")
    /\ IF pbusy \/ ~session
       THEN Return(t, "blocked") /\ UNCHANGED <<preview, pbusy>>
       ELSE /\ pbusy' = TRUE /\ preview' = NoPreview
            /\ Goto(t, "now", [p |-> Top(t).arg, link |-> link, seen |-> <<>>])
    /\ UNCHANGED <<session, link, shown>> /\ Shared

\* A token is shown once, and the memory of tokens is never emptied.
PresentNow(t, ok) ==
    /\ At(t, "present", "now")
    /\ IF ok /\ Top(t).arg.p.token \notin shown /\ Cardinality(shown) < MaxTokens
       THEN Goto(t, "state", Top(t).arg) /\ UNCHANGED pbusy
       ELSE Release(t, "blocked")
    /\ UNCHANGED <<session, link, preview, shown>> /\ Shared

\* _current samples the voice state and then reads the clock, which may call
\* back too; confirm does so twice.
Samples(t, ok) ==
    \E fn \in {"present", "view", "confirm"}, at \in {"state", "restate"} :
        /\ At(t, fn, at)
        /\ IF ok THEN /\ Goto(t, IF at = "state" THEN "clock" ELSE "reclock",
                              [Top(t).arg EXCEPT !.seen = voiceState])
                      /\ UNCHANGED <<preview, pbusy>>
                 ELSE /\ Release(t, "blocked")
                      /\ preview' = IF fn = "view" THEN NoPreview ELSE preview
        /\ UNCHANGED <<session, link, shown>> /\ Shared

Presented(t, ok) ==
    /\ At(t, "present", "clock")
    /\ IF ok /\ Current(Top(t).arg)
       THEN shown' = shown \cup {Top(t).arg.p.token} /\ preview' = Top(t).arg.p
       ELSE UNCHANGED <<shown, preview>>
    /\ Release(t, "ok")
    /\ UNCHANGED <<session, link>> /\ Shared

Reading(p) == [p |-> p, link |-> link, seen |-> <<>>]

ViewEnters(t) ==
    /\ EntersPanel(t, "view")
    /\ IF pbusy \/ preview = NoPreview
       THEN Return(t, "ok") /\ UNCHANGED pbusy
       ELSE pbusy' = TRUE /\ Goto(t, "state", Reading(preview))
    /\ UNCHANGED <<session, link, preview, shown>> /\ Shared

\* A preview that is no longer current, or was dropped meanwhile, disappears.
Viewed(t, ok) ==
    /\ At(t, "view", "clock")
    /\ preview' = IF ok /\ Current(Top(t).arg) /\ preview = Top(t).arg.p
                  THEN preview ELSE NoPreview
    /\ Release(t, "ok")
    /\ UNCHANGED <<session, link, shown>> /\ Shared

\* Mutant: the preview is not consumed by its confirmation.
ConsumedLate == preview
\* The preview is consumed before any callback.
Consumed == NoPreview

ConfirmEnters(t) ==
    /\ EntersPanel(t, "confirm")
    /\ IF pbusy \/ preview = NoPreview
       THEN Return(t, "blocked") /\ UNCHANGED <<preview, pbusy>>
       ELSE pbusy' = TRUE /\ preview' = Consumed /\ Goto(t, "state", Reading(preview))
    /\ UNCHANGED <<session, link, shown>> /\ Shared

\* The first of two readings; then the request is built.
ConfirmReads(t, ok) ==
    /\ At(t, "confirm", "clock")
    /\ IF ok /\ Current(Top(t).arg)
       THEN Goto(t, "restate", Top(t).arg) /\ UNCHANGED pbusy
       ELSE Release(t, "blocked")
    /\ UNCHANGED <<session, link, preview, shown>> /\ Shared

\* The second reading; the request goes out with nothing in between.
ConfirmSends(t, ok, request) ==
    /\ At(t, "confirm", "reclock")
    /\ IF ok /\ Current(Top(t).arg)
       THEN Await(t, Frame("handle", "lock", request), Top(t).arg) /\ UNCHANGED pbusy
       ELSE Release(t, "blocked")
    /\ UNCHANGED <<session, link, preview, shown>> /\ Shared

\* The response, or the sender's exception, ends the confirmation: no retry.
Confirmed(t) ==
    /\ At(t, "confirm", "result") /\ value[t] # None
    /\ Release(t, value[t])
    /\ UNCHANGED <<session, link, preview, shown>> /\ Shared

\* The trusted context moves on, which only operations and previews notice; a
\* preview expires.
ContextMoves ==
    /\ preview # NoPreview \/ \E t \in Threads : stack[t] # <<>>
    /\ context < LastContext /\ context' = context + 1
    /\ UNCHANGED <<stackVars, muted, panelObject, expired>>

PreviewExpires(k) ==
    /\ k \in shown \ expired /\ expired' = expired \cup {k}
    /\ UNCHANGED <<stackVars, voiceState, panelObject>>

PanelStep(t) ==
    \/ Connect(t) \/ PresentEnters(t) \/ ViewEnters(t) \/ ConfirmEnters(t) \/ Confirmed(t)
    \/ \E ok \in BOOLEAN : \/ PresentNow(t, ok) \/ Samples(t, ok) \/ Presented(t, ok)
                           \/ Viewed(t, ok) \/ ConfirmReads(t, ok)
=============================================================================
