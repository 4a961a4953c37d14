---------------------------- MODULE GatewayClient ----------------------------
(***************************************************************************)
(* The provider gateway's client, runtime/gateway/client.py, with the      *)
(* replay history of runtime/gateway/admission.py.                         *)
(*                                                                         *)
(* The client's lock is held for a whole call, so calls of other threads   *)
(* are serial; the interleaving is inside a call, at its callbacks: the    *)
(* clock (read before and after everything else), the peer attestation,    *)
(* the permit, a provider's begin, and a job's poll and cancel.  `pc` names *)
(* the callback the call in progress waits for.  A callback may call back  *)
(* in, but finds _inside_callback set, which leaves it cancel and disable. *)
(* `running` holds the providers whose work may really be going on,        *)
(* whatever the client believes.                                           *)
(***************************************************************************)
EXTENDS Naturals, FiniteSets

CONSTANTS Requests,     \* request IDs
          MaxHistory    \* LIMITS['history'], 4096 in the code

None == "none"

ASSUME GatewayAssumption == MaxHistory \in Nat /\ None \notin Requests

VARIABLES
    history,        \* ReplayHistory._ids
    active,         \* request of the _active call, or None
    route,          \* the call's route: "host" or "local"
    job,            \* has the call a job?
    primary,        \* the call's primary failure, or "none"
    cancelRequested,
    clock,          \* the call's deadline: "unset", "running" or "expired"
    value,          \* what _finish is finishing with, or what a job answered
    terminal,       \* _terminal: "none", "success", "degraded" or "failed"
    fault,          \* _fault: "none", "clock" or "cleanup"
    unclean,        \* _unclean
    disabled,       \* _disabled
    claimed,        \* is there a configuration owner?
    hasLocal,       \* is a local route bound?
    pc,             \* callback the call in progress waits for, or "free"
    polling,        \* is the call in progress a poll?
    running,        \* providers with work that may be going on
    results,        \* history: how many results the caller was handed
    last            \* history: what the latest call came to

callVars == <<active, route, job, primary, cancelRequested, clock, value>>
bindVars == <<disabled, claimed, hasLocal>>
vars == <<history, callVars, terminal, fault, unclean, bindVars, pc, polling, running, results, last>>

Transient == {"unavailable", "provider_failed", "timeout"}
\* What a provider, a job or a parsed reply can report ("refused" stands for
\* the codes no rule tells apart: identity, authentication, invalid_*...).
Failures == Transient \cup {"refused", "cleanup"}
Values == Failures \cup {"canceled", "clock", "success", "waiting", None}

Init ==
    /\ history = {} /\ active = None /\ route = "host" /\ job = FALSE
    /\ primary = None /\ cancelRequested = FALSE /\ clock = "unset" /\ value = None
    /\ terminal = None /\ fault = None /\ unclean = FALSE
    /\ disabled = FALSE /\ claimed = FALSE /\ hasLocal \in BOOLEAN
    /\ pc = "free" /\ polling = FALSE /\ running = {} /\ results = 0 /\ last = None

-----------------------------------------------------------------------------
(* Parts of a call *)

\* Mutant: a deadline does not stop what comes after it.
InterruptionUntimed(good) ==
    IF ~good THEN "clock" ELSE IF cancelRequested THEN "canceled" ELSE None

\* Mutant: the deadline is looked at, a cancellation from a callback is not.
InterruptionUncanceled(good) ==
    IF ~good THEN "clock" ELSE IF clock = "expired" THEN "timeout" ELSE None

\* _interruption: the reading of the clock is good, or it raised, was no time
\* or ran backwards.
Interruption(good) ==
    IF ~good THEN "clock"
    ELSE IF cancelRequested THEN "canceled"
    ELSE IF clock = "expired" THEN "timeout"
    ELSE None

\* The rest of _interruption: a bad reading is a fault, the first good one sets
\* the deadline.
ReadClock(good) ==
    /\ fault' = IF good THEN fault ELSE "clock"
    /\ clock' = IF good /\ clock = "unset" THEN "running" ELSE clock

\* _finish(v) up to its first callback: _retire asks the job, if there is one.
Finish(v) ==
    /\ value' = v
    /\ pc' = IF job THEN "retire" ELSE "settle"

Go(next) == pc' = next /\ UNCHANGED value

UnlessInterrupted(good, next) ==
    IF Interruption(good) # None THEN Finish(Interruption(good)) ELSE Go(next)

-----------------------------------------------------------------------------
(* start and _begin *)

\* Mutant: IDs that are no longer active may be used again.
CanClaimAgain(r) == Cardinality(history) < MaxHistory
\* ReplayHistory.claim: no ID twice, and no eviction.
CanClaim(r) == r \notin history /\ Cardinality(history) < MaxHistory

Admits == active = None /\ terminal = None /\ ~disabled /\ fault = None

Start(r) ==
    /\ pc = "free" /\ Admits /\ CanClaim(r)
    /\ history' = history \cup {r}
    /\ active' = r /\ route' = "host" /\ job' = FALSE /\ primary' = None
    /\ cancelRequested' = FALSE /\ clock' = "unset" /\ value' = None
    /\ pc' = "entry" /\ polling' = FALSE
    /\ UNCHANGED <<terminal, fault, unclean, bindVars, running, results, last>>

\* The first clock reading of an attempt, then the checks of the provider; the
\* host's peer has to be attested.
EntryRead(good, fit) ==
    /\ pc = "entry"
    /\ ReadClock(good)
    /\ UNCHANGED job
    /\ IF Interruption(good) # None THEN Finish(Interruption(good))
       ELSE IF fit # None THEN Finish(fit)
       ELSE Go(IF route = "host" THEN "peer" ELSE "preflight")
    /\ UNCHANGED <<history, active, route, primary, cancelRequested, terminal, unclean,
                   bindVars, polling, running, results, last>>

PeerRead(attested) ==
    /\ pc = "peer"
    /\ UNCHANGED job
    /\ IF attested THEN Go("preflight") ELSE Finish("refused")
    /\ UNCHANGED <<history, active, route, primary, cancelRequested, clock, terminal, fault,
                   unclean, bindVars, polling, running, results, last>>

PreflightRead(good) ==
    /\ pc = "preflight"
    /\ ReadClock(good)
    /\ UNCHANGED job
    /\ UnlessInterrupted(good, "permit")
    /\ UNCHANGED <<history, active, route, primary, cancelRequested, terminal, unclean,
                   bindVars, polling, running, results, last>>

Permitted(permitted) == permitted /\ ~disabled /\ ~cancelRequested

Permit(permitted) ==
    /\ pc = "permit"
    /\ UNCHANGED job
    /\ IF Permitted(permitted) THEN Go("begin") ELSE Finish("canceled")
    /\ unclean' = (unclean \/ Permitted(permitted))
    /\ UNCHANGED <<history, active, route, primary, cancelRequested, clock, terminal, fault,
                   bindVars, polling, running, results, last>>

\* begin returned a job, failed without owning anything (unless it says that its
\* own cleanup failed), or raised with work left behind or not.
BeginReturns(answer, left) ==
    /\ pc = "begin"
    /\ \/ /\ answer = "job"
          /\ job' = TRUE /\ running' = running \cup {route}
          /\ Go("begun")
          /\ UNCHANGED unclean
       \/ /\ answer = "raised"
          /\ running' = IF left THEN running \cup {route} ELSE running
          /\ UNCHANGED <<job, unclean>>
          /\ Finish("provider_failed")
       \/ /\ answer \in Failures
          /\ unclean' = FALSE
          /\ running' = IF answer = "cleanup" THEN running \cup {route} ELSE running
          /\ UNCHANGED job
          /\ Finish(answer)
    /\ UNCHANGED <<history, active, route, primary, cancelRequested, clock, terminal, fault,
                   bindVars, polling, results, last>>

BegunRead(good) ==
    /\ pc = "begun"
    /\ ReadClock(good)
    /\ UNCHANGED job
    /\ UnlessInterrupted(good, "free")
    /\ polling' = (polling /\ pc' # "free")
    /\ UNCHANGED <<history, active, route, primary, cancelRequested, terminal, unclean,
                   bindVars, running, results, last>>

-----------------------------------------------------------------------------
(* _retire and _finish *)

\* job.cancel returned exactly True, or not.  It cleans up the transport, not
\* what a provider has reported it could not clean up itself.
Retire(proven) ==
    /\ pc = "retire"
    /\ job' = FALSE
    /\ unclean' = ~proven
    /\ running' = IF proven /\ value # "cleanup" THEN running \ {route} ELSE running
    /\ pc' = "settle"
    /\ UNCHANGED <<history, active, route, primary, cancelRequested, clock, value, terminal,
                   fault, bindVars, polling, results, last>>

\* A transient failure of the host, within its budget, goes to the local route.
FallsBack(v, interrupted) ==
    route = "host" /\ hasLocal /\ interrupted = None /\ v \in Transient

\* Mutant: the transport's cleanup overrules the provider's.
CleanTransport == ~unclean

\* A provider's explicit cleanup failure stands, whatever the transport proved.
Clean == ~unclean /\ value # "cleanup"

\* A call ends with outcome o and is forgotten; a poll hands the outcome out at once.
End(o) ==
    /\ active' = None /\ value' = None /\ pc' = "free" /\ polling' = FALSE
    /\ route' = "host" /\ primary' = None /\ cancelRequested' = FALSE /\ clock' = "unset"
    /\ terminal' = IF polling THEN None ELSE o
    /\ results' = IF polling THEN results + 1 ELSE results
    /\ last' = o

\* The last clock reading of _finish decides what the call comes to.
SettleRead(good) ==
    /\ pc = "settle"
    /\ LET interrupted == Interruption(good)
           v == IF interrupted # None THEN interrupted ELSE value
           clean == Clean
       IN /\ unclean' = ~clean
          /\ fault' = IF ~clean THEN "cleanup" ELSE IF ~good THEN "clock" ELSE fault
          /\ \/ /\ clean /\ FallsBack(v, interrupted)
                /\ primary' = v /\ route' = "local" /\ value' = None
                /\ pc' = "entry"
                /\ clock' = IF clock = "unset" THEN "running" ELSE clock
                /\ UNCHANGED <<active, cancelRequested, terminal, polling, results, last>>
             \/ /\ ~clean \/ (v # "success" /\ ~FallsBack(v, interrupted))
                /\ End("failed")
             \/ /\ clean /\ v = "success"
                /\ End(IF primary = None THEN "success" ELSE "degraded")
    /\ UNCHANGED <<history, job, bindVars, running>>

-----------------------------------------------------------------------------
(* poll and cancel *)

Poll ==
    /\ pc = "free"
    /\ \/ /\ active # None
          /\ pc' = "tick" /\ polling' = TRUE
          /\ UNCHANGED <<terminal, results>>
       \/ /\ active = None /\ terminal # None
          /\ terminal' = None /\ results' = results + 1
          /\ UNCHANGED <<pc, polling>>
    /\ UNCHANGED <<history, callVars, fault, unclean, bindVars, running, last>>

TickRead(good) ==
    /\ pc = "tick"
    /\ ReadClock(good)
    /\ UNCHANGED job
    /\ UnlessInterrupted(good, "jobpoll")
    /\ UNCHANGED <<history, active, route, primary, cancelRequested, terminal, unclean,
                   bindVars, polling, running, results, last>>

\* job.poll raised, has nothing yet, or has a reply that will be read as one of
\* the outcomes of _receive.
JobPolled(raised, answer) ==
    /\ pc = "jobpoll"
    /\ UNCHANGED job
    /\ \/ raised /\ answer \in Failures /\ Finish(answer)
       \/ ~raised /\ value' = answer /\ pc' = "reply"
    /\ UNCHANGED <<history, active, route, primary, cancelRequested, clock, terminal, fault,
                   unclean, bindVars, polling, running, results, last>>

ReplyRead(good) ==
    /\ pc = "reply"
    /\ ReadClock(good)
    /\ UNCHANGED job
    /\ IF Interruption(good) # None THEN Finish(Interruption(good)) /\ UNCHANGED polling
       ELSE IF value = "waiting" THEN /\ value' = None /\ pc' = "free"
                                      /\ polling' = FALSE
       ELSE Finish(value) /\ UNCHANGED polling
    /\ UNCHANGED <<history, active, route, primary, cancelRequested, terminal, unclean,
                   bindVars, running, results, last>>

Cancel ==
    /\ pc = "free" /\ active # None
    /\ cancelRequested' = TRUE
    /\ UNCHANGED job
    /\ Finish("canceled")
    /\ UNCHANGED <<history, active, route, primary, clock, terminal, fault, unclean, bindVars,
                   polling, running, results, last>>

\* A callback of the call in progress calls cancel.
ReentrantCancel ==
    /\ pc # "free" /\ active # None
    /\ cancelRequested' = TRUE
    /\ UNCHANGED <<history, active, route, job, primary, clock, value, terminal, fault, unclean,
                   bindVars, pc, polling, running, results, last>>

-----------------------------------------------------------------------------
(* Configuration *)

\* claim_configuration: the client starts closed.
ClaimConfiguration ==
    /\ pc = "free" /\ ~claimed /\ active = None /\ terminal = None /\ fault = None
    /\ claimed' = TRUE /\ disabled' = TRUE
    /\ UNCHANGED <<history, callVars, terminal, fault, unclean, hasLocal, pc, polling, running,
                   results, last>>

Reconfigure(local) ==
    /\ pc = "free" /\ active = None /\ terminal = None /\ fault = None
    /\ hasLocal' = local /\ disabled' = FALSE
    /\ UNCHANGED <<history, callVars, terminal, fault, unclean, claimed, pc, polling, running,
                   results, last>>

\* disable: closes admission and cancels, from a callback too.
Disable ==
    /\ disabled' = TRUE
    /\ \/ /\ active = None
          /\ UNCHANGED <<cancelRequested, value, pc>>
       \/ /\ active # None /\ pc = "free"
          /\ cancelRequested' = TRUE
          /\ Finish("canceled")
       \/ /\ active # None /\ pc # "free"
          /\ cancelRequested' = TRUE
          /\ UNCHANGED <<value, pc>>
    /\ UNCHANGED <<history, active, route, job, primary, clock, terminal, fault, unclean,
                   claimed, hasLocal, polling, running, results, last>>

\* Time passes the deadline of the call.
Expire ==
    /\ clock = "running" /\ active # None
    /\ clock' = "expired"
    /\ UNCHANGED <<history, active, route, job, primary, cancelRequested, value, terminal, fault,
                   unclean, bindVars, pc, polling, running, results, last>>

-----------------------------------------------------------------------------
CallbackStep ==
    \/ \E good \in BOOLEAN, fit \in {None, "unavailable", "refused"} : EntryRead(good, fit)
    \/ \E attested \in BOOLEAN : PeerRead(attested)
    \/ \E good \in BOOLEAN : PreflightRead(good)
    \/ \E answer \in {"job", "raised"} \cup Failures, left \in BOOLEAN : BeginReturns(answer, left)
    \/ \E good \in BOOLEAN : BegunRead(good)
    \/ \E proven \in BOOLEAN : Retire(proven)
    \/ \E good \in BOOLEAN : SettleRead(good)
    \/ \E good \in BOOLEAN : TickRead(good)
    \/ \E raised \in BOOLEAN, answer \in Failures \cup {"success", "waiting"} :
          JobPolled(raised, answer)
    \/ \E good \in BOOLEAN : ReplyRead(good)

CallStep == CallbackStep \/ \E permitted \in BOOLEAN : Permit(permitted)

Next ==
    \/ CallStep
    \/ Poll
    \/ \E r \in Requests : Start(r)
    \/ Cancel
    \/ ReentrantCancel
    \/ ClaimConfiguration
    \/ \E local \in BOOLEAN : Reconfigure(local)
    \/ Disable
    \/ Expire

Spec == Init /\ [][Next]_vars

\* Callbacks return, the caller polls, and time passes.
Fairness == WF_vars(CallStep) /\ WF_vars(Poll) /\ WF_vars(Expire)
FairSpec == Spec /\ Fairness

-----------------------------------------------------------------------------
(* Properties *)

\* Every route, clock, outcome and fault is one client.py knows.
TypeOK ==
    /\ history \subseteq Requests
    /\ active \in Requests \cup {None}
    /\ route \in {"host", "local"}
    /\ primary \in Transient \cup {None}
    /\ clock \in {"unset", "running", "expired"}
    /\ value \in Values
    /\ terminal \in {None, "success", "degraded", "failed"}
    /\ fault \in {None, "clock", "cleanup"}
    /\ pc \in {"free", "entry", "peer", "preflight", "permit", "begin", "begun", "retire",
               "settle", "tick", "jobpoll", "reply"}
    /\ running \subseteq {"host", "local"}
    /\ results \in Nat
    /\ last \in {None, "success", "degraded", "failed"}
    /\ job \in BOOLEAN /\ cancelRequested \in BOOLEAN /\ unclean \in BOOLEAN
    /\ disabled \in BOOLEAN /\ claimed \in BOOLEAN /\ hasLocal \in BOOLEAN
    /\ polling \in BOOLEAN

\* Between calls an active call owns the job that poll and cancel will use, on a
\* sound clock; an idle client owes no cleanup unless that is its latched fault.
AtRest ==
    pc = "free" => /\ active # None => job /\ unclean /\ fault = None
                   /\ active = None => ~job /\ (unclean <=> fault = "cleanup")

\* Work that may be going on belongs to the call in progress, or the client has
\* latched the cleanup failure: no fallback and no later request ever starts
\* beside it, and between calls nothing is owed that nobody will clean up
\* (client.py _retire, _finish).
WorkAccounted ==
    /\ running # {} => /\ fault = "cleanup" \/ (active # None /\ running = {route})
                       /\ pc \notin {"entry", "peer", "preflight", "permit", "begin"}
    /\ AtRest

\* Every admitted ID leads to exactly one result: it is in progress, waiting to
\* be polled, or was handed out, and no ID is ever admitted again.
OneResult ==
    Cardinality(history) = results + (IF active # None THEN 1 ELSE 0)
                                   + (IF terminal # None THEN 1 ELSE 0)

\* Once canceled, from outside or from any of its own callbacks, a call neither
\* begins work on a provider nor succeeds.
CanceledStaysCanceled ==
    [][cancelRequested /\ active # None =>
          /\ pc' = "begin" => pc = "begin"
          /\ active' = None => last' = "failed"]_vars

\* No provider is asked to begin by a client that is disabled or has latched a
\* fault, nor while work may still be left from the first attempt; and the local
\* one is asked only after a failure of the host that is transient.
BeginAdmitted ==
    [][pc' = "begin" /\ pc # "begin" =>
          /\ fault = None /\ ~disabled
          /\ route = "local" => primary \in Transient
          /\ ~unclean]_vars

\* A started request comes to an end, whatever its providers do.
RequestEnds == active # None ~> active = None
=============================================================================
