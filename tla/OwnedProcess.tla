---------------------------- MODULE OwnedProcess ----------------------------
(***************************************************************************)
(* One single-use child process group, runtime/voice/process.py: started   *)
(* by its owner, driven by a supervisor thread of its own, canceled by any *)
(* thread.  The lock is held for the whole of start, so start is one step; *)
(* cancel releases it while it waits for the supervisor.  Bytes, argv and  *)
(* the pipes are left out: what matters is why the supervisor stops and    *)
(* whether the group is known to be gone.                                  *)
(***************************************************************************)
EXTENDS Naturals

VARIABLES
    started,        \* _started
    canceling,      \* the _cancel event
    result,         \* _result's status, or "none"
    supervisor,     \* where the thread of _run is
    verdict,        \* the status _run is about to store
    child           \* the process group: "none", "running", "exited" (its leader
                    \* has exited, members may run on), "gone", "stray" (unproven)

processVars == <<started, canceling, result, supervisor, verdict, child>>

Proven == {"success", "failed", "canceled"}

\* Members of the group may be running.
Alive == child \in {"running", "exited", "stray"}

ProcessInit ==
    /\ started = FALSE /\ canceling = FALSE /\ result = "none"
    /\ supervisor = "none" /\ verdict = "none" /\ child = "none"

\* Mutant: only an earlier start makes a process used up.
CanStartUnstarted == ~started

\* start raises RuntimeError for a process that was started or canceled.
CanStart == ~started /\ result = "none"

\* The outcomes of _cleanup: proven, or not, and then the group runs or does not.
Cleaned(clean) == child' = IF clean THEN "gone" ELSE "stray"

\* start: Popen fails; or its thread cannot be started and start cleans up; or the
\* supervisor owns the child from here on.
StartProcess(outcome) ==
    /\ CanStart
    /\ started' = TRUE
    /\ \/ /\ outcome = "no child"
          /\ result' = "failed"
          /\ UNCHANGED <<supervisor, child>>
       \/ /\ outcome \in {"cleaned", "unproven"}
          /\ result' = IF outcome = "cleaned" THEN "failed" ELSE "uncertain"
          /\ Cleaned(outcome = "cleaned")
          /\ UNCHANGED supervisor
       \/ /\ outcome = "running"
          /\ supervisor' = "top" /\ child' = "running"
          /\ UNCHANGED result
    /\ UNCHANGED <<canceling, verdict>>

StartOutcomes == {"no child", "cleaned", "unproven", "running"}

Stop(status) == supervisor' = "cleanup" /\ verdict' = status

\* Mutant: the supervisor waits for its child, whatever the time.
LoopTopUntimed(late) ==
    /\ supervisor = "top"
    /\ IF canceling THEN Stop("canceled") ELSE supervisor' = "io" /\ UNCHANGED verdict
    /\ UNCHANGED <<started, canceling, result, child>>

\* The head of _run's loop: cancellation first, then the two deadlines.
LoopTop(late) ==
    /\ supervisor = "top"
    /\ \/ canceling /\ Stop("canceled")
       \/ ~canceling /\ late /\ Stop("failed")
       \/ ~canceling /\ ~late /\ supervisor' = "io" /\ UNCHANGED verdict
    /\ UNCHANGED <<started, canceling, result, child>>

\* The rest of an iteration: more to do, an output limit or a failing pipe, or a
\* leader that has exited with both pipes closed.
LoopBody(event) ==
    /\ supervisor = "io"
    /\ \/ event = "more" /\ supervisor' = "top" /\ UNCHANGED verdict
       \/ event = "broken" /\ Stop("failed")
       \/ event \in {"ok", "error"} /\ child = "exited"
             /\ Stop(IF event = "ok" THEN "success" ELSE "failed")
    /\ UNCHANGED <<started, canceling, result, child>>

ChildExits ==
    /\ child = "running"
    /\ child' = "exited"
    /\ UNCHANGED <<started, canceling, result, supervisor, verdict>>

\* _cleanup in the finally of _run.
Cleanup(clean) ==
    /\ supervisor = "cleanup"
    /\ supervisor' = "store"
    /\ Cleaned(clean)
    /\ verdict' = IF clean THEN verdict ELSE "uncertain"
    /\ UNCHANGED <<started, canceling, result>>

\* The end of _run: a result that cancel has given meanwhile stands.
Store ==
    /\ supervisor = "store"
    /\ supervisor' = "done"
    /\ result' = IF result = "none" THEN verdict ELSE result
    /\ UNCHANGED <<started, canceling, verdict, child>>

\* cancel up to the join.
AskCancel ==
    /\ result' = IF result = "none" /\ ~started THEN "canceled" ELSE result
    /\ canceling' = (canceling \/ (result = "none" /\ started))
    /\ UNCHANGED <<started, supervisor, verdict, child>>

\* The join returned, or its 0.9 s are over.
CancelJoined ==
    /\ result' = IF result = "none" THEN "uncertain" ELSE result
    /\ UNCHANGED <<started, canceling, supervisor, verdict, child>>

SupervisorStep ==
    \/ \E late \in BOOLEAN : LoopTop(late)
    \/ \E event \in {"more", "broken", "ok", "error"} : LoopBody(event)
    \/ \E clean \in BOOLEAN : Cleanup(clean)
    \/ Store
=============================================================================
