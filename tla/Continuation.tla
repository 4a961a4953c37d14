---------------------------- MODULE Continuation ----------------------------
(***************************************************************************)
(* The bounded continuation: runner.py takes the repository's lease, reads *)
(* the last handoff (handoff.py) and lets continue_work (continuation.py)  *)
(* take one ticket through claim, worker, verification, commit and close,  *)
(* with LocalAdapter (local.py) as its hands.  Each effect clears against  *)
(* the loop journal of AssignmentLoop.                                     *)
(*                                                                         *)
(* A run may die between any two steps; the kernel then frees its lease,   *)
(* while the worker it started, a process group of its own, lives on.      *)
(* What survives is the handoff file, replaced atomically.  `at` is the    *)
(* position in continue_work, whose calls Program lists in their order.    *)
(* The run's checkout is `tree`: changed files the receipt names ("in") or *)
(* does not ("out"); a second checkout may be dirty too.                   *)
(***************************************************************************)
EXTENDS AssignmentLoop, Sequences

CONSTANTS OtherTree, OtherFile      \* the other checkout, and a file in it

VARIABLES
    at,             \* 0, or the position of the run in Program
    run,            \* the admission the run's configuration names
    rec,            \* the run's record: [active, stop, workerStop, recovery]
    disk,           \* the handoff file
    claim,          \* the run's claims[active]: "none", or the assignee it read
    working,        \* does the run's own worker run?
    orphans,        \* workers whose supervisor died
    attempt,        \* failed verifications
    tree,           \* changed files of the run's checkout
    stray,          \* dirty files of the other checkout
    headMoved,      \* has somebody else committed to the branch since it was read?
    verified,       \* history: is the tree as it was when verification passed?
    commits,        \* history: commits made for each ticket
    unverified,     \* history: was a tree committed that had not been verified?
    overrides,      \* history: resolutions by an operator
    crashes, runs   \* how many there were

memory == <<at, run, rec, claim, working, attempt>>
git == <<tree, stray, headMoved, verified, commits, unverified>>
runVars == <<memory, disk, orphans, git, overrides, crashes, runs>>
vars == <<loopVars, runVars>>

Program == <<
    "select", "inspect", "intent", "start", "inspect", "revalidate",
    "worker", "inspect", "revalidate", "verify", "inspect", "revalidate",
    "comment", "latch", "commit", "record", "inspect", "revalidate",
    "done", "close", "notice", "next", "stop", "farewell" >>

Position(op) == CHOOSE i \in 1 .. Len(Program) : Program[i] = op
WorkerAt == Position("worker")
CommitAt == Position("commit")
StopAt == Position("stop")

Op == IF at = 0 THEN "none" ELSE Program[at]

NoRecord == [active |-> "none", stop |-> "none", workerStop |-> FALSE, recovery |-> FALSE]

Init ==
    /\ LoopInit
    /\ at = 0 /\ run = 0 /\ rec = NoRecord /\ disk = NoRecord /\ claim = "none"
    /\ working = FALSE /\ orphans = 0 /\ attempt = 0
    /\ tree = {} /\ stray = {} /\ headMoved = FALSE /\ verified = FALSE
    /\ commits = [t \in Tickets |-> 0] /\ unverified = FALSE
    /\ overrides = 0 /\ crashes = 0 /\ runs = 0

Advance == at' = at + 1

\* The process is gone, and with it what it remembered.
Ended == at' = 0 /\ run' = 0 /\ rec' = NoRecord /\ claim' = "none" /\ attempt' = 0

\* An exception of continue_work: the record, as it is, gets its reason to stop.
Halt(record) == at' = StopAt /\ rec' = [record EXCEPT !.stop = "stopped"]

-----------------------------------------------------------------------------
(* What the run looks at *)

Unfinished(S) == {t \in S : status[t] # "closed"}

\* select_ticket: from the selected ticket down to a leaf through unfinished
\* children, in the order of their rank, which is left open.
Leaves(t) ==
    {u \in Tickets : /\ Children[u] = {} /\ t \in Ancestry[u]
                     /\ (Ancestry[u] \ Ancestry[t]) \cup {t} \subseteq Unfinished(Tickets)}

\* is_complete: an epic is complete through its children.
IsComplete(t) ==
    \/ status[t] = "closed"
    \/ /\ Children[t] # {}
       /\ \A u \in Tickets : Children[u] = {} /\ t \in Ancestry[u] =>
            \E v \in Ancestry[u] : t \in Ancestry[v] /\ status[v] = "closed"

\* The leaf is open and nothing blocks it or its parents.
Selectable(u) == status[u] # "closed" /\ \A p \in Prerequisites[u] : IsComplete(p)

\* route: a stop label on the leaf or a parent stops.
Routed(u) == Ancestry[u] \cap stopped = {}

\* Files the run may have changed by now.
Allowed == IF WorkerAt < at /\ at <= CommitAt THEN {"in"} ELSE {}

\* LocalAdapter.inspect.
Inspected(expectedHead) ==
    /\ Current(run, "artifact-inspection", {})
    /\ expectedHead => ~ headMoved
    /\ Undeclared(OtherTree, stray) = {}
    /\ tree \subseteq Allowed

-----------------------------------------------------------------------------
(* Starting *)

\* Mutant: only the interrupted record holds the next run.
LatchedInterrupted(record) == FALSE
\* A record that an operator has to resolve.
Latched(record) == record.recovery \/ record.workerStop

\* main and the head of continue_work, under the lease: an interrupted record is
\* refused, a latched one is written back.
RunStart(id) ==
    /\ at = 0 /\ runs < around.runs /\ runs' = runs + 1
    /\ disk.stop # "interrupted"
    /\ run' = id
    /\ IF Latched(disk)
       THEN Halt(disk)
       ELSE at' = 1 /\ rec' = [NoRecord EXCEPT !.active = disk.active]
    /\ UNCHANGED <<loopVars, claim, working, attempt, disk, orphans, git, overrides, crashes>>

\* The granted ticket, until it is closed; a unit below it; its route.
Select(u) ==
    /\ Op = "select"
    /\ Granted(run) /\ status[admission.ticket] # "closed"
    /\ u \in Leaves(admission.ticket) /\ Selectable(u)
    /\ IF Routed(u) THEN Advance /\ rec' = [rec EXCEPT !.active = u]
                    ELSE Halt([rec EXCEPT !.active = u])
    /\ UNCHANGED <<loopVars, run, claim, working, attempt, disk, orphans, git, overrides,
                   crashes, runs>>

Inspect ==
    /\ Op = "inspect"
    /\ Inspected(at # 2)
    /\ headMoved' = FALSE
    /\ Advance
    /\ UNCHANGED <<loopVars, run, rec, claim, working, attempt, disk, orphans, tree, stray,
                   verified, commits, unverified, overrides, crashes, runs>>

-----------------------------------------------------------------------------
(* The durable record *)

\* What is set in the record before the write of this name.
Marked(op) ==
    CASE op = "intent" -> [rec EXCEPT !.stop = "interrupted"]
      [] op = "latch" -> [rec EXCEPT !.recovery = TRUE]
      [] op = "close" -> [rec EXCEPT !.stop = "none", !.recovery = FALSE]
      [] OTHER -> rec

WriteHandoff ==
    /\ Op \in {"intent", "latch", "record", "close"}
    /\ rec' = Marked(Op) /\ disk' = rec'
    /\ Advance
    /\ UNCHANGED <<loopVars, run, claim, working, attempt, orphans, git, overrides, crashes, runs>>

\* Any call raises: a refusal, a taken lease, a command that fails, a full disk, the
\* time limit, and, at the end, the exhausted selection.
Refused ==
    /\ at \in 1 .. (StopAt - 1) /\ phase = "free" /\ ~ working
    /\ Halt(Marked(Op))
    /\ UNCHANGED <<loopVars, run, claim, working, attempt, disk, orphans, git, overrides,
                   crashes, runs>>

\* The last write, and the run's farewell comment, which may fail.
StopWrite(written) ==
    /\ Op = "stop"
    /\ disk' = IF written THEN rec ELSE disk
    /\ IF written /\ rec.active # "none" THEN Advance /\ UNCHANGED <<run, rec, claim, attempt>>
                                         ELSE Ended
    /\ UNCHANGED <<loopVars, working, orphans, git, overrides, crashes, runs>>

NoFarewell ==
    /\ Op = "farewell" /\ phase = "free"
    /\ Ended
    /\ UNCHANGED <<loopVars, working, disk, orphans, git, overrides, crashes, runs>>

-----------------------------------------------------------------------------
(* The run's own LIT writes: claim, comment, done *)

Claims == {"start", "revalidate"}
LitOps == Claims \cup {"comment", "done", "notice", "farewell"}

\* revalidate rereads the ticket before it renews the claim.
Revalidated == status[rec.active] = "in_progress" /\ Selectable(rec.active) /\ Routed(rec.active)

\* claim: nobody but this adapter holds the ticket.
Claimable == holder[rec.active] = claim

\* transition, up to the write: the lease is taken and the grant is current.
LitBegin ==
    /\ Op \in LitOps /\ phase = "free"
    /\ Op = "revalidate" => Revalidated
    /\ Op \in Claims => Claimable
    /\ Current(run, "implementation", {rec.active})
    /\ phase' = "held" /\ beside' = FALSE
    /\ UNCHANGED <<lit, paused, journal, moved, touched, changes, around, runVars>>

\* What the command does to the ticket.
Written(op) ==
    /\ status' = CASE op \in Claims -> [status EXCEPT ![rec.active] = "in_progress"]
                   [] op = "done" -> [status EXCEPT ![rec.active] = "closed"]
                   [] OTHER -> status
    /\ holder' = IF op \in Claims THEN [holder EXCEPT ![rec.active] = "run"] ELSE holder
    /\ moved' = TRUE

\* A LIT write that is not to be followed up.
Abandon == IF Op = "farewell" THEN Ended ELSE Halt(rec) /\ UNCHANGED <<run, claim, attempt>>

LitWrite ==
    /\ phase = "held"
    /\ Op \in Claims => status[rec.active] # "closed"
    /\ Written(Op)
    /\ phase' = "written"
    /\ UNCHANGED <<stopped, paused, journal, beside, touched, changes, around, runVars>>

\* The command fails or times out, with or without its effect.
LitFails(happened) ==
    /\ phase = "held"
    /\ happened /\ Op \in Claims => status[rec.active] # "closed"
    /\ IF happened THEN Written(Op) ELSE UNCHANGED <<status, holder, moved>>
    /\ phase' = "free"
    /\ Abandon
    /\ beside' = FALSE
    /\ UNCHANGED <<stopped, paused, journal, touched, changes, around, working, disk, orphans,
                   git, overrides, crashes, runs>>

\* The second read: what changed beside the ticket's own progress raises, otherwise
\* the grant stands on the result; a claim keeps the assignee it then reads.
LitEnd ==
    /\ phase = "written"
    /\ phase' = "free"
    /\ moved' = (moved /\ beside) /\ beside' = FALSE
    /\ LET owner == holder[rec.active]
           refused == beside \/ (Op \in Claims /\ (owner = "none" \/ claim \notin {"none", owner}))
       IN IF refused \/ Op = "farewell"
          THEN Abandon
          ELSE /\ Advance
               /\ claim' = IF Op \in Claims THEN owner ELSE claim
               /\ UNCHANGED <<run, rec, attempt>>
    /\ UNCHANGED <<lit, paused, journal, touched, changes, around, working, disk, orphans, git,
                   overrides, crashes, runs>>

-----------------------------------------------------------------------------
(* Worker, verification, commit *)

Launch ==
    /\ Op = "worker" /\ ~ working
    /\ working' = TRUE
    /\ rec' = [rec EXCEPT !.recovery = TRUE]
    /\ UNCHANGED <<loopVars, at, run, claim, attempt, disk, orphans, git, overrides, crashes, runs>>

\* A worker, the run's own or one that outlived its run, changes a file.
WorkerEdits(where) ==
    /\ working \/ orphans > 0
    /\ tree' = tree \cup {where} /\ verified' = FALSE
    /\ UNCHANGED <<loopVars, memory, disk, orphans, stray, headMoved, commits, unverified,
                   overrides, crashes, runs>>

\* A receipt with files of the checkout, a receipt with a reason to stop, or neither.
Receipts == {"receipt", "stop", "failed"}

\* A worker that timed out and was killed, failed, or wrote something else, has no
\* receipt that can be used.
WorkerReturns(outcome) ==
    /\ working /\ working' = FALSE
    /\ \/ outcome = "receipt" /\ Advance /\ rec' = [rec EXCEPT !.recovery = FALSE]
       \/ outcome = "stop" /\ Halt([rec EXCEPT !.recovery = FALSE, !.workerStop = TRUE])
       \/ outcome = "failed" /\ Halt(rec)
    /\ UNCHANGED <<loopVars, run, claim, attempt, disk, orphans, git, overrides, crashes, runs>>

\* Mutant: verification is repeated until it passes.
VerifyUntilPassed(passed) ==
    /\ Op = "verify"
    /\ Current(run, "test-preparation", {})
    /\ verified' = (verified \/ passed)
    /\ IF passed THEN Advance ELSE attempt' = 1 - attempt /\ UNCHANGED at
    /\ passed => UNCHANGED attempt
    /\ UNCHANGED <<loopVars, run, rec, claim, working, disk, orphans, tree, stray, headMoved,
                   commits, unverified, overrides, crashes, runs>>

Verify(passed) ==
    /\ Op = "verify"
    /\ Current(run, "test-preparation", {})
    /\ verified' = (verified \/ passed)
    /\ \/ passed /\ Advance /\ UNCHANGED <<attempt, rec>>
       \/ ~ passed /\ attempt = 0 /\ attempt' = 1 /\ UNCHANGED <<at, rec>>
       \/ ~ passed /\ attempt = 1 /\ Halt(rec) /\ UNCHANGED attempt
    /\ UNCHANGED <<loopVars, run, claim, working, disk, orphans, tree, stray, headMoved, commits,
                   unverified, overrides, crashes, runs>>

\* commit, up to git: one more inspection and the clearance.
CommitClear ==
    /\ Op = "commit" /\ phase = "free"
    /\ Inspected(FALSE)
    /\ Current(run, "implementation", {rec.active})
    /\ phase' = "cleared"
    /\ UNCHANGED <<lit, paused, journal, moved, beside, touched, changes, around, runVars>>

Committed ==
    /\ commits' = [commits EXCEPT ![rec.active] = @ + 1]
    /\ unverified' = (unverified \/ ~ verified)
    /\ tree' = tree \ {"in"} /\ headMoved' = FALSE /\ verified' = FALSE

\* git commits; or fails, having committed or not.
Commit(outcome) ==
    /\ phase = "cleared" /\ phase' = "free"
    /\ outcome # "failed" => "in" \in tree
    /\ IF outcome = "failed" THEN UNCHANGED <<tree, headMoved, verified, commits, unverified>>
                             ELSE Committed
    /\ IF outcome = "committed" THEN Advance /\ UNCHANGED rec ELSE Halt(rec)
    /\ UNCHANGED <<lit, paused, journal, moved, beside, touched, changes, around, run, claim, working,
                   attempt, disk, orphans, stray, overrides, crashes, runs>>

-----------------------------------------------------------------------------
(* Crashes, operators and other writers *)

Crash ==
    /\ at # 0 /\ crashes < around.crashes /\ crashes' = crashes + 1
    /\ Ended /\ phase' = "free" /\ beside' = FALSE /\ working' = FALSE
    /\ orphans' = orphans + (IF working THEN 1 ELSE 0)
    /\ UNCHANGED <<lit, paused, journal, moved, touched, changes, around, disk, git, overrides, runs>>

OrphanExits ==
    /\ orphans > 0 /\ orphans' = orphans - 1
    /\ UNCHANGED <<loopVars, memory, disk, git, overrides, crashes, runs>>

\* resolve_stop: every latch of a stopped record is lifted, the rest is kept.
ResolveStop(record) == [record EXCEPT !.stop = "none", !.workerStop = FALSE, !.recovery = FALSE]

\* handoff resolve, which needs the lease and a stopped record.
Resolve ==
    /\ at = 0 /\ disk.stop # "none"
    /\ overrides < around.resolutions /\ overrides' = overrides + 1
    /\ disk' = ResolveStop(disk)
    /\ UNCHANGED <<loopVars, memory, orphans, git, crashes, runs>>

\* Somebody cleans the checkout of a stopped run.
CleanTree ==
    /\ at = 0 /\ tree # {} /\ tree' = {} /\ verified' = FALSE
    /\ UNCHANGED <<loopVars, memory, disk, orphans, stray, headMoved, commits,
                   unverified, overrides, crashes, runs>>

\* Others leave a file in their checkout, or commit to the run's branch.
OthersWrite(what) ==
    /\ changes < around.changes /\ changes' = changes + 1
    /\ \/ what = "file" /\ stray' = {OtherFile} /\ UNCHANGED headMoved
       \/ what = "commit" /\ at # 0 /\ headMoved' = TRUE /\ UNCHANGED stray
    /\ UNCHANGED <<lit, paused, journal, moved, beside, phase, touched, around, memory, disk,
                   orphans, tree, verified, commits, unverified, overrides, crashes, runs>>

-----------------------------------------------------------------------------
RunStep ==
    \/ \E u \in Tickets : Select(u)
    \/ Inspect
    \/ WriteHandoff
    \/ Refused
    \/ \E written \in BOOLEAN : StopWrite(written)
    \/ NoFarewell
    \/ LitBegin
    \/ LitWrite
    \/ \E happened \in BOOLEAN : LitFails(happened)
    \/ LitEnd
    \/ Launch
    \/ \E outcome \in Receipts : WorkerReturns(outcome)
    \/ \E passed \in BOOLEAN : Verify(passed)
    \/ CommitClear
    \/ \E outcome \in {"committed", "failed", "committed and failed"} : Commit(outcome)

Next ==
    \/ LoopNext /\ UNCHANGED runVars
    \/ \E id \in 1 .. around.grants : RunStart(id)
    \/ RunStep
    \/ \E where \in {"in", "out"} : WorkerEdits(where)
    \/ Crash
    \/ OrphanExits
    \/ Resolve
    \/ CleanTree
    \/ "writers" \in around.actors /\ \E what \in {"file", "commit"} : OthersWrite(what)

Spec == Init /\ [][Next]_vars

-----------------------------------------------------------------------------
(* Properties *)

\* Without an operator's resolution a ticket is committed at most once, no two
\* workers are ever alive together, and what is committed is the tree that passed
\* verification, wherever runs crash, writes fail and claims are released
\* (continuation.py: the record is written before the claim and before the commit).
RunsOnce ==
    /\ \A t \in Tickets : commits[t] <= 1 + overrides
    /\ orphans + (IF working THEN 1 ELSE 0) <= 1 + overrides
    /\ unverified => overrides > 0

\* When a run takes the lease for a LIT write, or is cleared to commit, nobody else
\* has changed the ticket's scope in LIT since its begin, but for progress of the
\* ticket itself during one of the run's own writes; production is not paused; and
\* the writer reserved for the ticket is the one that was admitted (loop.py
\* _current and transition, however often the run's own writes moved the grant).
EffectsAdmitted ==
    [][phase = "free" /\ phase' \in {"held", "cleared"} =>
         /\ ~ touched
         /\ paused => admission.maintenance
         /\ rec.active = admission.ticket
         /\ admission.reservation = RecordedWriter(rec.active)]_vars

\* Active reservations never share a checkout, a written file, a resource or a key,
\* and no active author reviews active work (ownership.py conflicts).
ReservationsDisjoint ==
    \A r, o \in reservations :
        /\ r # o => /\ r.key # o.key
                    /\ r.worktrees \cap o.worktrees = {}
                    /\ r.resources \cap o.resources = {}
                    /\ (UNION Writes(r)) \cap (UNION Writes(o)) = {}
        /\ {r, o} \subseteq Writers(reservations) => r.reviewer # o.owner

\* A run ends, and its lease is free again.
RunEnds == at # 0 ~> at = 0
=============================================================================
