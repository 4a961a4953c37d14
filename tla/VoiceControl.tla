----------------------------- MODULE VoiceControl -----------------------------
(***************************************************************************)
(* The voice controls, runtime/voice/control.py, with what they act on:    *)
(* the dispatcher receives requests from its socket and from the panel,    *)
(* and its handlers start, end and cancel dictation, mute, or do something *)
(* outside this model (activate, confirm).  The wiring of the handlers is  *)
(* the operator's; keys and callbacks reach dictation and panel directly.  *)
(*                                                                         *)
(* Three locks meet here: dictation's and the panel's, on which threads    *)
(* wait, and the dispatcher's, which never blocks.  A handler holds the    *)
(* dispatcher's and takes dictation's; a panel that confirms holds its own *)
(* and asks for the dispatcher's; an observer of dictation may ask for the *)
(* panel's or the dispatcher's.                                            *)
(***************************************************************************)
EXTENDS Dictation, VoicePanel, ControlEndpoint

CONSTANTS MaxIds,      \* request IDs of the clients of the socket
          MaxSeen,     \* limit of _seen, 4096 in the code
          MovingCalls, \* operations called in a world that moves
          Casts        \* sets of Roles, one of which acts in a behaviour

\* The server's thread, the Home and End keys, the panel's thread, servers that
\* start and stop, and a world that moves: focus, context, expiry, the
\* provider's health.  The first three are Threads.
Roles == {"wire", "keys", "ui", "servers", "world"}

ASSUME ControlAssumption == /\ Threads = {"wire", "keys", "ui"} /\ Casts \subseteq SUBSET Roles
                            /\ MaxIds \in Nat /\ MaxSeen \in Nat /\ MovingCalls \in Nat

VARIABLES cast,      \* who acts
          seen,      \* _seen: IDs consumed
          acted,     \* history: how often the handler ran for each ID
          confirmed  \* history: how often the confirm handler ran for each token

controlVars == <<cast, seen, acted, confirmed>>
vars == <<stackVars, dictationVars, panelVars, endpointVars, controlVars>>

\* A confirmation's ID is fresh: the number of the call that sent it.
Ids == 1 .. MaxIds + MaxCalls
FreshId == MaxIds + calls

\* What clients ask for.  An activation is to this model a mute that changes nothing.
Operations == IF "keys" \in cast THEN {"dictation-start", "dictation-stop", "cancel"}
                                 ELSE {"status", "mute"}

Init ==
    /\ stack = [t \in Threads |-> <<>>] /\ value = [t \in Threads |-> None] /\ calls = 0
    /\ cast \in Casts
    /\ DictationInit(IF {"keys", "world"} \subseteq cast THEN BOOLEAN ELSE {TRUE})
    /\ PanelInit(IF {"wire", "ui"} \subseteq cast THEN {CHOOSE k \in Tokens : TRUE} ELSE {})
    /\ IF "servers" \in cast THEN AllDown ELSE ListeningAlone(CHOOSE s \in Servers : TRUE)
    /\ seen = {} /\ acted = [i \in Ids |-> 0] /\ confirmed = [k \in Tokens |-> 0]

-----------------------------------------------------------------------------
(* ControlDispatcher.handle *)

Request(id, op, epoch, token) ==
    [id |-> id, op |-> op, epoch |-> epoch, token |-> token, sample |-> <<>>]

\* The injected state callback: epoch, phase and mute as they are now.
Sample == <<context, dstate, muted>>

Handling == UNCHANGED <<dictationVars, panelVars, endpointVars, cast>>
NothingRan == UNCHANGED <<acted, confirmed>>

\* Mutant: a second caller waits for the dispatcher.
LockWaits(t) == Inside({"handle"}) = {} /\ Goto(t, "state", Top(t).arg)
\* The lock is not re-entrant and does not block.
Lock(t) == IF Inside({"handle"}) = {} THEN Goto(t, "state", Top(t).arg) ELSE Return(t, "blocked")

HandleEnters(t) == At(t, "handle", "lock") /\ Lock(t) /\ UNCHANGED seen /\ NothingRan /\ Handling

\* An ID that may still be used; the memory of IDs is never emptied.
Unused(id) == id \notin seen /\ Cardinality(seen) < MaxSeen

\* Reading the state, or failing to (a payload that does not decode is refused
\* alike); the ID is consumed before anything happens.
HandleSamples(t, ok) ==
    LET r == Top(t).arg IN
    /\ At(t, "handle", "state")
    /\ IF ok /\ r.op # "status" /\ r.epoch = context /\ Unused(r.id)
       THEN seen' = seen \cup {r.id} /\ Goto(t, "recheck", [r EXCEPT !.sample = Sample])
       ELSE Return(t, IF ok /\ r.op = "status" THEN "ok" ELSE "blocked") /\ UNCHANGED seen
    /\ NothingRan /\ Handling

HandlerOf == [op \in {"dictation-start", "dictation-stop", "cancel"} |->
                 CASE op = "dictation-start" -> "home"
                   [] op = "dictation-stop" -> "end"
                   [] OTHER -> "cancel"]

\* The state is what it was: the handler runs.
HandleActs(t, ok) ==
    LET r == Top(t).arg IN
    /\ At(t, "handle", "recheck")
    /\ IF ok /\ Sample = r.sample
       THEN /\ acted' = [acted EXCEPT ![r.id] = @ + 1]
            /\ confirmed' = IF r.op = "confirm" THEN [confirmed EXCEPT ![r.token] = @ + 1]
                                                ELSE confirmed
            /\ IF r.op \in DOMAIN HandlerOf
               THEN Await(t, Frame(HandlerOf[r.op], "lock", NoArg), r)
               ELSE Goto(t, "handler", r)
       ELSE Return(t, IF ok THEN "blocked" ELSE "uncertain") /\ NothingRan
    /\ UNCHANGED seen /\ Handling

\* A handler outside this model accepts, denies or raises; mute takes effect.
HandlerReturns(t, reply) ==
    /\ At(t, "handle", "handler")
    /\ muted' \in IF Top(t).arg.op = "mute" /\ reply # "blocked" THEN {TRUE, FALSE} ELSE {muted}
    /\ Return(t, reply)
    /\ UNCHANGED <<dictationVars, context, panelObject, expired, endpointVars, controlVars>>

\* What dictation answered the handler.
HandlerAnswered(t) ==
    /\ At(t, "handle", "result") /\ value[t] # None
    /\ Return(t, CASE value[t] \in {"recording", "success", "canceled"} -> "ok"
                   [] value[t] \in {"blocked", "failed"} -> "blocked"
                   [] OTHER -> "uncertain")
    /\ UNCHANGED seen /\ NothingRan /\ Handling

HandleStep(t) ==
    \/ HandleEnters(t) \/ HandlerAnswered(t)
    \/ \E ok \in BOOLEAN : HandleSamples(t, ok) \/ HandleActs(t, ok)
    \/ \E reply \in {"ok", "blocked", "uncertain"} : HandlerReturns(t, reply)

-----------------------------------------------------------------------------
(* Who calls *)

\* A thread calls what its role calls, a callback what any role of the cast calls.
CalledFrom(t, role) == /\ {t, role} \subseteq cast /\ (stack[t] = <<>> => t = role)
                       /\ "world" \in cast => calls < MovingCalls

\* serve_once takes one request of a client that knows the present epoch; an ID
\* is the next new one or comes again.  Its reply may get lost, which changes nothing.
\* A callback may also send a request of its own.
Serve(t) ==
    \E id \in 1 .. MaxIds, op \in Operations :
        /\ CalledFrom(t, "wire")
        /\ stack[t] = <<>> => \E s \in Servers : srv[s] = "listening"
        /\ id <= Cardinality(seen) + 1 /\ (op = "status" => id = 1)
        /\ Call(t, "handle", Request(id, op, context, None))
        /\ UNCHANGED <<dictationVars, panelVars, endpointVars, controlVars>>

PressKey(t) ==
    \E fn \in DictationFns :
        /\ CalledFrom(t, "keys") /\ Call(t, fn, NoArg)
        /\ UNCHANGED <<dictationVars, panelVars, endpointVars, controlVars>>

UsePanel(t) ==
    \E fn \in PanelFns, k \in Tokens :
        /\ CalledFrom(t, "ui")
        /\ fn # "present" => k = CHOOSE x \in Tokens : TRUE
        /\ Call(t, fn, [token |-> k, state |-> voiceState])
        /\ UNCHANGED <<dictationVars, panelVars, endpointVars, controlVars>>

\* The dispatcher, dictation or the panel goes on with its operation in progress.
Advance(t) ==
    \/ HandleStep(t)
    \/ DictationStep(t) /\ UNCHANGED <<panelVars, endpointVars, controlVars>>
    \/ PanelStep(t) /\ UNCHANGED <<dictationVars, endpointVars, controlVars>>
    \/ /\ \E ok \in BOOLEAN :
             ConfirmSends(t, ok, Request(FreshId, "confirm", Top(t).arg.p.state[1], Top(t).arg.p.token))
       /\ UNCHANGED <<dictationVars, endpointVars, controlVars>>

World ==
    \/ /\ "world" \in cast /\ \E w \in Windows : FocusMoves(w)
       /\ UNCHANGED <<panelVars, endpointVars, controlVars>>
    \/ /\ "world" \in cast
       /\ ContextMoves \/ \E k \in Tokens : PreviewExpires(k)
       /\ UNCHANGED <<dictationVars, endpointVars, controlVars>>
    \/ /\ "servers" \in cast /\ EndpointStep
       /\ UNCHANGED <<stackVars, dictationVars, panelVars, controlVars>>

Next == World \/ \E t \in Threads : Advance(t) \/ Serve(t) \/ PressKey(t) \/ UsePanel(t)

\* Every callback returns in the end, and some thread that need not wait for a lock
\* is scheduled; calls are bounded, so that no fairness of the locks is needed.
Spec == Init /\ [][Next]_vars /\ WF_vars(\E t \in Threads : Advance(t))

-----------------------------------------------------------------------------
\* A request is acted on once at most, however often it is sent again after a
\* lost or uncertain reply, and a preview token is confirmed once at most,
\* whatever the panel's callbacks do ("the request ID stays consumed").
ActedOnce == /\ \A i \in Ids : acted[i] <= 1
             /\ \A k \in Tokens : confirmed[k] <= 1

\* Thread t holds the lock of one object and waits for that of the other.
HoldsAndWants(t, held, wanted) ==
    /\ t \in Inside(held)
    /\ \E fn \in wanted : At(t, fn, "lock")

\* A callback of dictation calls the panel while a callback of the panel calls
\* dictation: nothing in the code orders these two locks.
Crossed ==
    \E t, u \in Threads : /\ HoldsAndWants(t, DictationFns, PanelFns)
                          /\ HoldsAndWants(u, PanelFns, DictationFns)

\* Every call of every thread returns, unless callbacks of dictation and of the
\* panel have crossed.  Nothing else makes threads wait for each other: not the
\* dispatcher, which a handler, an observer of dictation or a confirming panel
\* may ask for in any order ("control.busy"), nor an object that is called back into.
CallsReturn == []<>(\A t \in Threads : stack[t] = <<>>) \/ <>[]Crossed
=============================================================================
