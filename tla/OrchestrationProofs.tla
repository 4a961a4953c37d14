------------------------- MODULE OrchestrationProofs -------------------------
(***************************************************************************)
(* Proofs about runs on the loop journal and the team's messages, for      *)
(* every backlog, every set of reservations and every environment.  Each   *)
(* invariant is proved over TeamSpec, whose steps are those of the run and *)
(* the journal (Next) beside those of the messages (MailNext).             *)
(***************************************************************************)
EXTENDS Orchestration, TLAPS

-----------------------------------------------------------------------------
(* The inductive invariants *)

\* Every active reservation would be admitted beside the others.
OwnersInv == /\ reservations \subseteq Records
             /\ \A r \in reservations : MayReserve(reservations \ {r}, r)

\* A change by others in the grant's scope stays visible to the next clearance: in
\* `moved`, and during a transition, which clears `moved` at its end, in `beside` too.
GrantInv ==
    /\ {moved, beside, touched, paused} \subseteq BOOLEAN
    /\ phase \in {"free", "held", "written", "cleared"}
    /\ touched => moved /\ (phase \in {"held", "written"} => beside)
    /\ admission.paused => admission.maintenance

\* Where in Program a run's own effect is in progress.
EffectInv ==
    /\ phase \in {"free", "held", "written", "cleared"}
    /\ phase \in {"held", "written"} => at \in {4, 6, 9, 12, 13, 18, 19, 21, 24}
    /\ phase = "cleared" => at = 15
    /\ phase = "written" /\ at = 19 => status[rec.active] = "closed"

Handoff == [active : Tickets \cup {"none"}, stop : {"none", "stopped", "interrupted"},
            workerStop : BOOLEAN, recovery : BOOLEAN]

RunTypeOK ==
    /\ at \in 0 .. 24
    /\ rec \in Handoff /\ disk \in Handoff
    /\ working \in BOOLEAN /\ verified \in BOOLEAN /\ unverified \in BOOLEAN
    /\ orphans \in Nat /\ overrides \in Nat /\ attempt \in {0, 1}
    /\ commits \in [Tickets -> Nat]
    /\ DOMAIN status = Tickets

\* The handoff follows the run: interrupted from the intent (3) on, latched from
\* before the commit (15) until the close (20).
HandoffInv ==
    /\ at \in 2 .. 22 => rec.active \in Tickets
    /\ at \in 1 .. 14 => ~ disk.recovery /\ ~ disk.workerStop /\ ~ rec.workerStop
    /\ at \in 1 .. 14 /\ at # 7 => ~ rec.recovery
    /\ at \in 4 .. 20 => rec.stop = "interrupted" /\ disk.stop = "interrupted"
    /\ at \in 15 .. 20 => rec.recovery /\ disk.recovery
    /\ at \in 21 .. 22 => ~ rec.recovery /\ ~ disk.recovery
    /\ at = 20 => status[rec.active] = "closed"

\* A ticket's commits are used up when it is closed or its record is latched, in the
\* file and in the run that may write the file next.
CommitInv ==
    /\ at \in 2 .. 15 => commits[rec.active] <= overrides
    /\ at \in 1 .. 20 => \A t \in Tickets :
         commits[t] <= overrides \/ status[t] = "closed" \/ (at > 15 /\ t = rec.active)
    /\ \A t \in Tickets :
         \/ commits[t] <= overrides
         \/ /\ commits[t] = overrides + 1
            /\ status[t] = "closed" \/ (disk.recovery /\ (at # 0 => rec.recovery))

\* A worker that outlives its run leaves an interrupted record behind.
WorkerInv ==
    /\ working => at = 7
    /\ \/ orphans <= overrides
       \/ at = 0 /\ disk.stop = "interrupted" /\ orphans = overrides + 1

\* What is about to be committed passed verification, and nobody is left to edit it.
VerifiedInv ==
    /\ at \in 11 .. 15 /\ overrides = 0 => verified
    /\ unverified => overrides > 0

RunInv == RunTypeOK /\ EffectInv /\ HandoffInv /\ CommitInv /\ WorkerInv /\ VerifiedInv

Place == {"idle", "read", "read after failure", "writing", "check", "intend", "queue",
          "queued", "refused", "unanswered"}

CallType == [at : Place, body : Bodies \cup {"none"}, tried : Nat,
             pointer : (Bodies \X Sessions) \cup {<<>>}]

\* Each command whose process died may still add one comment, and no other may
\* add a second.
CommentInv ==
    /\ comments \in Seq(Bodies \cup {"none"}) /\ late \in Seq(Bodies \cup {"none"})
    /\ deaths \in Nat
    /\ call \in CallType
    /\ Len(late) <= deaths
    /\ Len(comments) + Len(late) <= 1 + deaths
    /\ At("writing") => Len(comments) + Len(late) <= deaths

\* Whatever a loss of power leaves of the record, it says that a pointer may have been
\* queued once one was; and the call that holds the lease agrees with it.
PointerInv ==
    /\ sent # <<>> => /\ sent = <<sent[1]>>
                      /\ comments # <<>> /\ comments[1] = sent[1][1]
                      /\ \A v \in ledger.maybe : ~ Sendable(v.stage)
    /\ ledger = [now |-> ledger.now, maybe |-> ledger.maybe]
    /\ ledger.now \in ledger.maybe
    /\ \A v \in ledger.maybe : v.stage = "enqueued" => sent = <<v.pointer>>
    /\ \A p \in receipts : sent = <<p>>
    /\ call.at \in {"intend", "queue"} =>
         sent = <<>> /\ comments # <<>> /\ comments[1] = call.pointer[1]
    /\ At("queue") => ledger.maybe = {Stage("intended", call.pointer)}
    /\ At("queued") => sent = <<call.pointer>>
    /\ At("refused") => sent = <<>>

MailInv == CommentInv /\ PointerInv
-----------------------------------------------------------------------------
(* Reservations *)

\* Two reservations that were admitted beside each other share no file, since two
\* paths that share one are nested.
LEMMA WritesApart ==
    ASSUME NEW r \in Records, NEW o \in Records, ~ Overlap(Writes(o), Writes(r))
    PROVE  (UNION Writes(r)) \cap (UNION Writes(o)) = {}
<1> SUFFICES ASSUME NEW p \in Writes(r), NEW q \in Writes(o), NEW f \in p \cap q
             PROVE FALSE
  OBVIOUS
<1>1. p \in r.paths /\ q \in o.paths BY DEF Writes
<1>2. p \subseteq q \/ q \subseteq p BY <1>1, PathsAreTrees
<1>3. QED BY <1>2 DEF Overlap

\* Fewer reservations are in nobody's way.
LEMMA MayReserveFewer ==
    ASSUME NEW S, NEW T, T \subseteq S, NEW c, MayReserve(S, c)
    PROVE  MayReserve(T, c)
BY DEF MayReserve, Writers

\* A conflict is one from either side.
LEMMA MayReserveMutual ==
    ASSUME NEW S, NEW c, MayReserve(S, c), NEW r \in S, MayReserve(S \ {r}, r)
    PROVE  MayReserve((S \cup {c}) \ {r}, r)
<1>1. \A o \in (S \cup {c}) \ {r} :
        /\ o.key # r.key
        /\ o.worktrees \cap r.worktrees = {}
        /\ ~ Overlap(Writes(o), Writes(r))
        /\ o.resources \cap r.resources = {}
  BY DEF MayReserve, Overlap
<1>2. ASSUME r.kind = "writer"
      PROVE /\ r.reviewer # r.owner
            /\ \A w \in Writers((S \cup {c}) \ {r}) : r.reviewer # w.owner /\ r.owner # w.reviewer
  BY <1>2 DEF MayReserve, Writers
<1>3. QED BY <1>1, <1>2 DEF MayReserve

\* Every step of the team keeps reservations apart.
LEMMA OwnersStep == OwnersInv /\ [TeamNext]_teamVars => OwnersInv'
<1> SUFFICES ASSUME OwnersInv, [TeamNext]_teamVars PROVE OwnersInv'
  OBVIOUS
<1>1. ASSUME UNCHANGED reservations PROVE OwnersInv'
  BY <1>1 DEF OwnersInv
<1>2. ASSUME reservations' \subseteq reservations PROVE OwnersInv'
  <2>1. \A r \in reservations' : MayReserve(reservations' \ {r}, r)
    BY <1>2, MayReserveFewer DEF OwnersInv
  <2>2. QED BY <1>2, <2>1 DEF OwnersInv
<1>3. ASSUME NEW c \in Records, Reserve(c) PROVE OwnersInv'
  <2>1. MayReserve(reservations, c) /\ reservations' = reservations \cup {c}
    BY <1>3 DEF Reserve
  <2>2. \A r \in reservations : MayReserve(reservations' \ {r}, r)
    BY <2>1, MayReserveMutual DEF OwnersInv
  <2>3. MayReserve(reservations' \ {c}, c)
    BY <2>1, MayReserveFewer
  <2>4. QED BY <2>1, <2>2, <2>3 DEF OwnersInv
<1>4. ASSUME NEW key, Release(key) PROVE OwnersInv'
  BY <1>2, <1>4 DEF Release
<1>5. ASSUME NEW t, NEW m, NEW c, Complete(t, m, c) PROVE OwnersInv'
  BY <1>2, <1>5 DEF Complete
<1>6. ASSUME LoopNext PROVE OwnersInv'
  <2>1. ASSUME NEW t, NEW u, NEW o, NEW m, NEW b, Begin(t, u, o, m, b) PROVE UNCHANGED reservations
    BY <2>1 DEF Begin
  <2>2. ASSUME NEW t, NEW change, Others(t, change) PROVE UNCHANGED reservations
    BY <2>2 DEF Others, journal
  <2>3. ASSUME NEW t, NEW u, NEW a, NEW n, NEW f, NEW w, Review(t, u, a, n, f, w)
        PROVE UNCHANGED reservations
    BY <2>3 DEF Review
  <2>4. PrepareClear \/ SetPause => UNCHANGED reservations
    BY DEF PrepareClear, SetPause, journal
  <2>5. QED BY <1>1, <1>3, <1>4, <1>5, <1>6, <2>1, <2>2, <2>3, <2>4 DEF LoopNext
<1>7. ASSUME Next, ~ LoopNext PROVE UNCHANGED reservations
  BY <1>7 DEF Next, RunStep, RunStart, Select, Inspect, WriteHandoff, Refused, StopWrite,
     NoFarewell,
       LitBegin, LitWrite, LitFails, LitEnd, Launch, WorkerReturns, Verify, CommitClear, Commit,
       WorkerEdits, Crash, OrphanExits, Resolve, CleanTree, OthersWrite, loopVars, journal
<1>8. ASSUME MailNext PROVE UNCHANGED reservations
  BY <1>8 DEF MailNext, Ensure, ReadComments, ExportFails, WriteComment, AddsComment, Deliver,
       Check, Saved, SaveFails, Queue, Dies, LateComment, PowerLoss, Reroute, Loop, loopVars, journal
<1>9. QED BY <1>1, <1>6, <1>7, <1>8 DEF TeamNext, teamVars, vars, loopVars, journal

\* Whoever reserves, releases and completes in whatever order: active reservations
\* never share a key, a checkout, a resource or a file, and no active author reviews
\* active work (ownership.py conflicts, loop.py reserve, release and complete).
THEOREM ReservationsAlwaysDisjoint == TeamSpec => []ReservationsDisjoint
<1>1. TeamInit => OwnersInv
  BY ReservedWereAdmitted, LoopAssumption DEF TeamInit, Init, LoopInit, OwnersInv
<1>2. ASSUME OwnersInv PROVE ReservationsDisjoint
  <2> SUFFICES ASSUME NEW r \in reservations, NEW o \in reservations
               PROVE /\ r # o => /\ r.key # o.key
                                 /\ r.worktrees \cap o.worktrees = {}
                                 /\ r.resources \cap o.resources = {}
                                 /\ (UNION Writes(r)) \cap (UNION Writes(o)) = {}
                     /\ {r, o} \subseteq Writers(reservations) => r.reviewer # o.owner
    BY DEF ReservationsDisjoint
  <2>1. MayReserve(reservations \ {r}, r) BY <1>2 DEF OwnersInv
  <2>2. ASSUME r # o PROVE /\ r.key # o.key
                           /\ r.worktrees \cap o.worktrees = {}
                           /\ r.resources \cap o.resources = {}
                           /\ ~ Overlap(Writes(o), Writes(r))
    BY <2>1, <2>2 DEF MayReserve
  <2>3. ASSUME r # o PROVE (UNION Writes(r)) \cap (UNION Writes(o)) = {}
    BY <1>2, <2>2, <2>3, WritesApart DEF OwnersInv
  <2>4. ASSUME {r, o} \subseteq Writers(reservations) PROVE r.reviewer # o.owner
    BY <2>1, <2>4 DEF MayReserve, Writers
  <2>5. QED BY <2>2, <2>3, <2>4
<1>3. QED BY <1>1, <1>2, OwnersStep, PTL DEF TeamSpec
-----------------------------------------------------------------------------
(* Clearances *)

\* A change by others keeps what GrantInv says of the grant.
LEMMA LitChangesGrant ==
    ASSUME GrantInv, NEW t, NEW change, LitChanges(t, change),
           UNCHANGED <<paused, admission, phase>>
    PROVE  GrantInv'
BY DEF GrantInv, LitChanges, Progress, Unleased, InScope

\* A grant that is taken back leaves nothing to stand on.
LEMMA RevokeGrant ==
    ASSUME GrantInv, Revoke, UNCHANGED <<paused, beside, phase>>
    PROVE  GrantInv'
BY DEF GrantInv, Revoke, NoGrant

\* Every operation of the loop journal keeps what a grant stands for.
LEMMA LoopGrant == ASSUME GrantInv, LoopNext PROVE GrantInv'
<1>1. ASSUME UNCHANGED <<moved, beside, touched, paused, phase, admission>> PROVE GrantInv'
  BY <1>1 DEF GrantInv
<1>2. ASSUME NEW c, Reserve(c) \/ Release(c.key) PROVE GrantInv'
  BY <1>1, <1>2 DEF Reserve, Release
<1>3. ASSUME NEW t, NEW u, NEW o, NEW m \in BOOLEAN, NEW b, Begin(t, u, o, m, b) PROVE GrantInv'
  BY <1>3 DEF Begin, MayBegin, GrantInv
<1>4. ASSUME NEW t, NEW m, NEW c, Complete(t, m, c) PROVE GrantInv'
  BY <1>1, <1>4, RevokeGrant DEF Complete
<1>5. ASSUME PrepareClear PROVE GrantInv'
  BY <1>5, RevokeGrant DEF PrepareClear
<1>6. ASSUME NEW t, NEW change, Others(t, change) PROVE GrantInv'
  BY <1>6, LitChangesGrant DEF Others, journal
<1>7. ASSUME SetPause PROVE GrantInv'
  BY <1>7 DEF SetPause, GrantInv, journal
<1>8. ASSUME NEW t, NEW u, NEW a, NEW n, NEW f, NEW w, Review(t, u, a, n, f, w) PROVE GrantInv'
  BY <1>1, <1>8, LitChangesGrant DEF Review
<1>9. QED BY <1>2, <1>3, <1>4, <1>5, <1>6, <1>7, <1>8 DEF LoopNext

\* Every step of the team does.
LEMMA GrantStep == GrantInv /\ [TeamNext]_teamVars => GrantInv'
<1> SUFFICES ASSUME GrantInv, [TeamNext]_teamVars PROVE GrantInv'
  OBVIOUS
<1>1. ASSUME UNCHANGED <<moved, beside, touched, paused, phase, admission>> PROVE GrantInv'
  BY <1>1 DEF GrantInv
<1>2. ASSUME LitBegin PROVE GrantInv'
  BY <1>2 DEF LitBegin, GrantInv, journal, Current
<1>3. ASSUME LitWrite PROVE GrantInv'
  BY <1>3 DEF LitWrite, Written, GrantInv, journal
<1>4. ASSUME NEW h \in BOOLEAN, LitFails(h) PROVE GrantInv'
  BY <1>4 DEF LitFails, Written, GrantInv, journal
<1>5. ASSUME LitEnd PROVE GrantInv'
  BY <1>5 DEF LitEnd, GrantInv, journal
<1>6. ASSUME CommitClear PROVE GrantInv'
  BY <1>6 DEF CommitClear, GrantInv, journal
<1>7. ASSUME NEW outcome, Commit(outcome) PROVE GrantInv'
  BY <1>7 DEF Commit, GrantInv, journal
<1>8. ASSUME Crash PROVE GrantInv'
  BY <1>8 DEF Crash, GrantInv, journal
<1>9. ASSUME NEW what, OthersWrite(what) PROVE GrantInv'
  BY <1>1, <1>9 DEF OthersWrite, journal
<1>10. ASSUME UNCHANGED loopVars PROVE GrantInv'
  BY <1>1, <1>10 DEF loopVars, journal
<1>11. ASSUME RunStep PROVE GrantInv'
  BY <1>2, <1>3, <1>4, <1>5, <1>6, <1>7, <1>10, <1>11
     DEF RunStep, Select, Inspect, WriteHandoff, Refused, StopWrite, NoFarewell, Launch,
         WorkerReturns, Verify
<1>12. ASSUME Next PROVE GrantInv'
  BY <1>8, <1>9, <1>10, <1>11, <1>12, LoopGrant
     DEF Next, RunStart, WorkerEdits, OrphanExits, Resolve, CleanTree
<1>13. ASSUME NEW body, AddsComment(body) PROVE GrantInv'
  BY <1>13, LitChangesGrant DEF AddsComment, journal
<1>14. ASSUME NEW session, Reroute(session) PROVE GrantInv'
  BY <1>1, <1>14 DEF Reroute, journal
<1>15. ASSUME MailNext PROVE GrantInv'
  BY <1>10, <1>13, <1>14, <1>15
     DEF MailNext, Ensure, ReadComments, ExportFails, WriteComment, Deliver, Check, Saved,
         SaveFails, Queue, Dies, LateComment, PowerLoss, Loop
<1>16. QED BY <1>10, <1>12, <1>15 DEF TeamNext, teamVars, vars

\* Only a run takes the lease for a write or is cleared, on a current grant.
LEMMA EffectBegins ==
    ASSUME TeamNext, phase = "free", phase' \in {"held", "cleared"}
    PROVE  LitBegin \/ CommitClear
<1>1. ASSUME LoopNext PROVE phase' = phase
  BY <1>1 DEF LoopNext, Reserve, Release, Begin, Complete, PrepareClear, Others, SetPause, Review
<1>2. ASSUME MailNext PROVE phase' = phase
  BY <1>2 DEF MailNext, Ensure, ReadComments, ExportFails, WriteComment, AddsComment, Deliver,
       Check, Saved, SaveFails, Queue, Dies, LateComment, PowerLoss, Reroute, Loop, loopVars
<1>3. ASSUME RunStep, ~ LitBegin, ~ CommitClear PROVE FALSE
  BY <1>3 DEF RunStep, Select, Inspect, WriteHandoff, Refused, StopWrite, NoFarewell,
       LitWrite, LitFails, LitEnd, Launch, WorkerReturns, Verify, Commit, loopVars
<1>4. QED BY <1>1, <1>2, <1>3
       DEF TeamNext, Next, RunStart, WorkerEdits, Crash, OrphanExits, Resolve, CleanTree,
           OthersWrite, loopVars

\* A run takes the lease for a LIT write, or is cleared to commit, only while the
\* grant's scope is as it was at begin, no pause stands against it and the ticket's
\* writer is the admitted one (loop.py _current and transition).
THEOREM EffectsAlwaysAdmitted == TeamSpec => EffectsAdmitted
<1> DEFINE A == phase = "free" /\ phase' \in {"held", "cleared"} =>
                  /\ ~ touched
                  /\ paused => admission.maintenance
                  /\ rec.active = admission.ticket
                  /\ admission.reservation = RecordedWriter(rec.active)
<1>1. ASSUME TeamInit PROVE GrantInv
  <2>1. /\ moved = FALSE /\ beside = FALSE /\ touched = FALSE /\ paused = FALSE
        /\ phase = "free" /\ admission = NoGrant(0)
    BY <1>1 DEF TeamInit, Init, LoopInit
  <2>2. ~ admission.paused BY <2>1 DEF NoGrant
  <2>3. QED BY <2>1, <2>2 DEF GrantInv
<1>2. ASSUME GrantInv, [TeamNext]_teamVars PROVE [A]_vars
  <2> SUFFICES ASSUME TeamNext, phase = "free", phase' \in {"held", "cleared"} PROVE A
    BY <1>2 DEF teamVars
  <2>1. Current(run, "implementation", {rec.active})
    BY EffectBegins DEF LitBegin, CommitClear
  <2>2. QED BY <1>2, <2>1 DEF Current, Clear, GrantInv
<1>3. QED BY <1>1, <1>2, GrantStep, PTL DEF TeamSpec, EffectsAdmitted
-----------------------------------------------------------------------------
(* A run's place in Program *)

\* Where the worker, the commit and the stop are in the program of a run.
LEMMA Positions == WorkerAt = 7 /\ CommitAt = 15 /\ StopAt = 23
<1>1. Len(Program) = 24 BY DEF Program
<1>2. \A i \in 1 .. 24 : /\ Program[i] = "worker" <=> i = 7
                         /\ Program[i] = "commit" <=> i = 15
                         /\ Program[i] = "stop" <=> i = 23
  BY DEF Program
<1>3. QED BY <1>1, <1>2 DEF WorkerAt, CommitAt, StopAt, Position

\* Which call a run makes at each of its positions.
LEMMA OpAt ==
    ASSUME at \in 0 .. 24
    PROVE  /\ Op = "select" <=> at = 1
           /\ Op = "inspect" <=> at \in {2, 5, 8, 11, 17}
           /\ Op = "intent" <=> at = 3
           /\ Op = "start" <=> at = 4
           /\ Op = "revalidate" <=> at \in {6, 9, 12, 18}
           /\ Op = "worker" <=> at = 7
           /\ Op = "verify" <=> at = 10
           /\ Op = "comment" <=> at = 13
           /\ Op = "latch" <=> at = 14
           /\ Op = "commit" <=> at = 15
           /\ Op = "record" <=> at = 16
           /\ Op = "done" <=> at = 19
           /\ Op = "close" <=> at = 20
           /\ Op = "notice" <=> at = 21
           /\ Op = "stop" <=> at = 23
           /\ Op = "farewell" <=> at = 24
BY DEF Op, Program

\* Nothing of the run moves, and in LIT tickets at most get closed.
LEMMA RunQuiet ==
    ASSUME RunInv, UNCHANGED <<at, rec, disk, working, orphans, attempt, verified, unverified,
                               overrides, commits, phase>>,
           DOMAIN status' = Tickets,
           \A t \in Tickets : status[t] = "closed" => status'[t] = "closed"
    PROVE  RunInv'
<1>1. RunTypeOK' BY DEF RunInv, RunTypeOK
<1>2. HandoffInv' BY DEF RunInv, HandoffInv, RunTypeOK
<1>3. EffectInv' BY DEF RunInv, EffectInv, RunTypeOK, HandoffInv
<1>4. CommitInv' BY DEF RunInv, CommitInv
<1>5. WorkerInv' /\ VerifiedInv' BY DEF RunInv, WorkerInv, VerifiedInv
<1>6. QED BY <1>1, <1>2, <1>3, <1>4, <1>5 DEF RunInv

\* The loop journal's own operations keep what a run has done.
LEMMA RunLoop == ASSUME RunInv, LoopNext, UNCHANGED runVars PROVE RunInv'
<1>1. UNCHANGED <<at, rec, disk, working, orphans, attempt, verified, unverified, overrides, commits>>
  BY DEF runVars, memory, git
<1>2. ASSUME UNCHANGED <<status, phase>> PROVE RunInv'
  BY <1>1, <1>2, RunQuiet DEF RunInv, RunTypeOK
<1>3. ASSUME NEW t \in Tickets, NEW change, Others(t, change) PROVE RunInv'
  <2>1. phase' = phase /\ status' \in {status, [status EXCEPT ![t] = "closed"]}
    BY <1>3 DEF Others
  <2>2. QED BY <1>1, <2>1, RunQuiet DEF RunInv, RunTypeOK
<1>4. ASSUME LoopNext, \A t \in Tickets, change \in {"comment", "close", "take", "drop", "stop"} :
                          ~ Others(t, change)
      PROVE UNCHANGED <<status, phase>>
  BY <1>4 DEF LoopNext, Reserve, Release, Begin, Complete, PrepareClear, SetPause, Review, lit
<1>5. QED BY <1>2, <1>3, <1>4

\* The records a run makes of a record.
LEMMA HandoffUpdates ==
    /\ NoRecord \in Handoff
    /\ \A r \in Handoff :
         /\ [r EXCEPT !.stop = "stopped"] \in Handoff
         /\ [r EXCEPT !.stop = "interrupted"] \in Handoff
         /\ [r EXCEPT !.recovery = TRUE] \in Handoff
         /\ [r EXCEPT !.recovery = FALSE] \in Handoff
         /\ \A t \in Tickets \cup {"none"} : [r EXCEPT !.active = t] \in Handoff
         /\ [r EXCEPT !.recovery = FALSE, !.workerStop = TRUE] \in Handoff
         /\ [r EXCEPT !.stop = "none", !.recovery = FALSE] \in Handoff
         /\ [r EXCEPT !.stop = "none", !.workerStop = FALSE, !.recovery = FALSE] \in Handoff
         /\ r.active \in Tickets \cup {"none"}
BY DEF Handoff, NoRecord

\* A run that stops keeps its latch from the commit (15) until the ticket is closed.
LEMMA RunHalts ==
    ASSUME RunInv, NEW record \in Handoff, Halt(record), at \in 0 .. 22,
           at = 0 => disk.stop # "interrupted" /\ record.recovery = disk.recovery,
           at \in 15 .. 19 => record.recovery,
           phase' = "free", ~ working', working' \in BOOLEAN, attempt' \in {0, 1},
           verified' \in BOOLEAN, UNCHANGED <<disk, orphans, unverified, overrides, commits>>,
           DOMAIN status' = Tickets,
           \A t \in Tickets : status[t] = "closed" => status'[t] = "closed"
    PROVE  RunInv'
<1>1. at' = 23 /\ rec' = [record EXCEPT !.stop = "stopped"] BY Positions DEF Halt
<1>2. rec' \in Handoff BY <1>1, HandoffUpdates
<1>3. rec'.recovery = record.recovery BY <1>1 DEF Handoff
<1>4. RunTypeOK' BY <1>1, <1>2 DEF RunInv, RunTypeOK
<1>5. EffectInv' /\ HandoffInv' /\ WorkerInv' /\ VerifiedInv'
  BY <1>1 DEF RunInv, RunTypeOK, EffectInv, HandoffInv, WorkerInv, VerifiedInv
<1>6. CommitInv'
  <2> SUFFICES ASSUME NEW t \in Tickets, ~ (commits[t] <= overrides)
               PROVE commits[t] = overrides + 1 /\
                     (status'[t] = "closed" \/ (disk.recovery /\ record.recovery))
    BY <1>1, <1>3 DEF CommitInv
  <2>1. commits[t] = overrides + 1 BY DEF RunInv, CommitInv
  <2>2. CASE at = 0 BY <2>1, <2>2 DEF RunInv, CommitInv
  <2>3. CASE at \in 1 .. 14 BY <2>1, <2>3 DEF RunInv, CommitInv
  <2>4. CASE at \in 15 .. 19 BY <2>1, <2>4 DEF RunInv, CommitInv, HandoffInv
  <2>5. CASE at = 20 BY <2>1, <2>5 DEF RunInv, CommitInv, HandoffInv
  <2>6. CASE at \in 21 .. 22 BY <2>1, <2>6 DEF RunInv, CommitInv, HandoffInv
  <2>7. QED BY <2>2, <2>3, <2>4, <2>5, <2>6
<1>7. QED BY <1>4, <1>5, <1>6 DEF RunInv

\* A process that is gone leaves what it wrote, and perhaps its worker.
LEMMA RunGone ==
    ASSUME RunInv, Ended, at # 0, phase' = "free", ~ working', working' \in BOOLEAN,
           disk' \in {disk, rec}, disk' # disk => at \in {23, 24},
           orphans' = orphans + (IF working THEN 1 ELSE 0),
           UNCHANGED <<verified, unverified, overrides, commits>>,
           DOMAIN status' = Tickets,
           \A t \in Tickets : status[t] = "closed" => status'[t] = "closed"
    PROVE  RunInv'
<1>1. at' = 0 /\ rec' = NoRecord /\ attempt' = 0 BY DEF Ended
<1>2. orphans' \in Nat /\ disk' \in Handoff BY DEF RunInv, RunTypeOK
<1>3. rec' \in Handoff BY <1>1, HandoffUpdates
<1>4. RunTypeOK' BY <1>1, <1>2, <1>3 DEF RunInv, RunTypeOK
<1>5. EffectInv' /\ HandoffInv' /\ VerifiedInv'
  BY <1>1 DEF RunInv, EffectInv, HandoffInv, VerifiedInv
<1>6. CommitInv' BY <1>1 DEF RunInv, RunTypeOK, CommitInv
<1>7. WorkerInv' BY <1>1 DEF RunInv, RunTypeOK, HandoffInv, WorkerInv
<1>8. QED BY <1>4, <1>5, <1>6, <1>7 DEF RunInv

\* The next call of Program, with the record as it is: none of the invariant's bounds
\* lies behind a call that leaves the record, its file and the commits alone, but for
\* a passed verification and a closed ticket.
LEMMA RunAdvances ==
    ASSUME RunInv, Advance, at \in {2, 4, 5, 6, 8, 9, 10, 11, 12, 13, 17, 18, 19, 21},
           phase' = "free", attempt' \in {0, 1}, verified' \in BOOLEAN,
           at = 10 => verified', at # 10 => verified' = verified,
           at = 19 => status[rec.active] = "closed",
           UNCHANGED <<rec, disk, working, orphans, unverified, overrides, commits, status>>
    PROVE  RunInv'
<1>1. at' = at + 1 BY DEF Advance
<1>2. RunTypeOK' BY <1>1 DEF RunInv, RunTypeOK
<1>3. EffectInv' BY <1>1 DEF EffectInv
<1>4. HandoffInv' BY <1>1 DEF RunInv, HandoffInv
<1>5. CommitInv' BY <1>1 DEF RunInv, CommitInv
<1>6. WorkerInv' BY <1>1 DEF RunInv, WorkerInv
<1>7. VerifiedInv' BY <1>1 DEF RunInv, VerifiedInv
<1>8. QED BY <1>2, <1>3, <1>4, <1>5, <1>6, <1>7 DEF RunInv

\* What a LIT write makes of the run's ticket: claimed unless closed, or closed.
WrittenStatus ==
    /\ at \in {4, 6, 9, 12, 18} => /\ status[rec.active] # "closed"
                                   /\ status' = [status EXCEPT ![rec.active] = "in_progress"]
    /\ at = 19 => status' = [status EXCEPT ![rec.active] = "closed"]
    /\ at \notin {4, 6, 9, 12, 18, 19} => status' = status

\* Every step of a run, of its workers and of its operators keeps the invariant.
LEMMA RunNext == ASSUME RunInv, Next PROVE RunInv'
<1>1. ASSUME NEW id, RunStart(id) PROVE RunInv'
  <2>1. /\ at = 0 /\ disk.stop # "interrupted" /\ phase = "free" /\ phase' = phase
        /\ status' = status /\ DOMAIN status = Tickets /\ ~ working /\ working \in BOOLEAN
        /\ disk \in Handoff /\ attempt \in {0, 1} /\ verified \in BOOLEAN
        /\ UNCHANGED <<disk, working, orphans, attempt, verified, unverified, overrides, commits>>
    BY <1>1 DEF RunStart, RunInv, RunTypeOK, EffectInv, WorkerInv, git, loopVars, lit
  <2>2. CASE Latched(disk)
    <3>1. Halt(disk) BY <1>1, <2>2 DEF RunStart
    <3>2. QED BY <2>1, <3>1, RunHalts
  <2>3. CASE ~ Latched(disk)
    <3>1. at' = 1 /\ rec' = [NoRecord EXCEPT !.active = disk.active]
      BY <1>1, <2>3 DEF RunStart
    <3>2. rec' \in Handoff /\ ~ rec'.recovery /\ ~ rec'.workerStop
      BY <2>1, <3>1, HandoffUpdates DEF NoRecord
    <3>3. ~ disk.recovery /\ ~ disk.workerStop BY <2>3 DEF Latched
    <3>4. RunTypeOK' /\ EffectInv' BY <2>1, <3>1, <3>2 DEF RunInv, RunTypeOK, EffectInv
    <3>5. HandoffInv' /\ WorkerInv' /\ VerifiedInv'
      BY <2>1, <3>1, <3>2, <3>3 DEF RunInv, HandoffInv, WorkerInv, VerifiedInv
    <3>6. CommitInv' BY <2>1, <3>1, <3>3 DEF RunInv, CommitInv
    <3>7. QED BY <3>4, <3>5, <3>6 DEF RunInv
  <2>4. QED BY <2>2, <2>3
<1>2. ASSUME NEW u \in Tickets, Select(u) PROVE RunInv'
  <2>1. /\ at = 1 /\ status[u] # "closed" /\ phase = "free" /\ phase' = phase
        /\ status' = status /\ DOMAIN status = Tickets /\ ~ working /\ working \in BOOLEAN
        /\ rec \in Handoff /\ attempt \in {0, 1} /\ verified \in BOOLEAN
        /\ UNCHANGED <<disk, working, orphans, attempt, verified, unverified, overrides, commits>>
    BY <1>2, OpAt DEF Select, Selectable, RunInv, RunTypeOK, EffectInv, WorkerInv, git, loopVars,
       lit
  <2>2. [rec EXCEPT !.active = u] \in Handoff BY <2>1, HandoffUpdates
  <2>3. CASE ~ Routed(u)
    <3>1. Halt([rec EXCEPT !.active = u]) BY <1>2, <2>3 DEF Select
    <3>2. QED BY <2>1, <2>2, <3>1, RunHalts
  <2>4. CASE Routed(u)
    <3>1. at' = 2 /\ rec' = [rec EXCEPT !.active = u]
      BY <1>2, <2>1, <2>4 DEF Select, Advance
    <3>2. /\ rec'.active = u
          /\ rec'.recovery <=> rec.recovery
          /\ rec'.workerStop <=> rec.workerStop
      BY <2>1, <3>1 DEF Handoff
    <3>3. RunTypeOK' /\ EffectInv' BY <2>1, <2>2, <3>1 DEF RunInv, RunTypeOK, EffectInv
    <3>4. HandoffInv' /\ WorkerInv' /\ VerifiedInv'
      BY <2>1, <3>1, <3>2 DEF RunInv, HandoffInv, WorkerInv, VerifiedInv
    <3>5. CommitInv' BY <2>1, <3>1, <3>2 DEF RunInv, CommitInv, HandoffInv
    <3>6. QED BY <3>3, <3>4, <3>5 DEF RunInv
  <2>5. QED BY <2>3, <2>4
<1>3. ASSUME Inspect PROVE RunInv'
  BY <1>3, OpAt, RunAdvances DEF Inspect, RunInv, RunTypeOK, EffectInv, loopVars, lit
<1>4. ASSUME WriteHandoff PROVE RunInv'
  <2>1. /\ at' = at + 1 /\ rec' = Marked(Op) /\ disk' = rec' /\ phase' = phase /\ status' = status
        /\ UNCHANGED <<working, orphans, attempt, verified, unverified, overrides, commits>>
        /\ at \in {3, 14, 16, 20} /\ phase = "free" /\ rec \in Handoff
    BY <1>4, OpAt DEF WriteHandoff, Advance, RunInv, RunTypeOK, EffectInv, git, loopVars, lit
  <2>2. CASE at = 3
    <3>1. rec' = [rec EXCEPT !.stop = "interrupted"] BY <2>1, <2>2, OpAt DEF Marked
    <3>2. rec' \in Handoff BY <2>1, <3>1, HandoffUpdates
    <3>3. /\ rec'.active = rec.active /\ rec'.stop = "interrupted"
          /\ rec'.recovery <=> rec.recovery
          /\ rec'.workerStop <=> rec.workerStop
      BY <2>1, <3>1 DEF Handoff
    <3>4. RunTypeOK' /\ EffectInv' /\ WorkerInv' /\ VerifiedInv'
      BY <2>1, <2>2, <3>2 DEF RunInv, RunTypeOK, EffectInv, WorkerInv, VerifiedInv
    <3>5. HandoffInv' BY <2>1, <2>2, <3>3 DEF RunInv, HandoffInv
    <3>6. CommitInv' BY <2>1, <2>2, <3>3 DEF RunInv, CommitInv
    <3>7. QED BY <3>4, <3>5, <3>6 DEF RunInv
  <2>3. CASE at \in {14, 16}
    <3>1. rec' = [rec EXCEPT !.recovery = TRUE] \/ (at = 16 /\ rec' = rec)
      BY <2>1, <2>3, OpAt DEF Marked
    <3>2. rec' \in Handoff BY <2>1, <3>1, HandoffUpdates
    <3>3. rec'.active = rec.active /\ rec'.stop = rec.stop /\ rec'.recovery
      BY <2>1, <2>3, <3>1 DEF Handoff, HandoffInv, RunInv
    <3>4. RunTypeOK' /\ EffectInv' /\ WorkerInv' /\ VerifiedInv'
      BY <2>1, <2>3, <3>2 DEF RunInv, RunTypeOK, EffectInv, WorkerInv, VerifiedInv
    <3>5. HandoffInv' BY <2>1, <2>3, <3>3 DEF RunInv, HandoffInv
    <3>6. CommitInv' BY <2>1, <2>3, <3>3 DEF RunInv, CommitInv
    <3>7. QED BY <3>4, <3>5, <3>6 DEF RunInv
  <2>4. CASE at = 20
    <3>1. rec' = [rec EXCEPT !.stop = "none", !.recovery = FALSE]
      BY <2>1, <2>4, OpAt DEF Marked
    <3>2. rec' \in Handoff BY <2>1, <3>1, HandoffUpdates
    <3>3. rec'.active = rec.active /\ ~ rec'.recovery BY <2>1, <3>1 DEF Handoff
    <3>4. RunTypeOK' /\ EffectInv' /\ WorkerInv' /\ VerifiedInv'
      BY <2>1, <2>4, <3>2 DEF RunInv, RunTypeOK, EffectInv, WorkerInv, VerifiedInv
    <3>5. HandoffInv' BY <2>1, <2>4, <3>3 DEF RunInv, HandoffInv
    <3>6. CommitInv' BY <2>1, <2>4, <3>3 DEF RunInv, CommitInv, HandoffInv
    <3>7. QED BY <3>4, <3>5, <3>6 DEF RunInv
  <2>5. QED BY <2>1, <2>2, <2>3, <2>4
<1>5. ASSUME Refused PROVE RunInv'
  <2>1. /\ at \in 1 .. 22 /\ Halt(Marked(Op)) /\ phase' = "free" /\ ~ working'
        /\ working' \in BOOLEAN /\ status' = status /\ DOMAIN status = Tickets
        /\ rec \in Handoff /\ attempt' \in {0, 1} /\ verified' \in BOOLEAN
        /\ at \in 15 .. 19 => rec.recovery
        /\ UNCHANGED <<disk, orphans, unverified, overrides, commits>>
    BY <1>5, Positions DEF Refused, RunInv, RunTypeOK, HandoffInv, git, loopVars, lit
  <2>2. Marked(Op) \in {rec, [rec EXCEPT !.stop = "interrupted"], [rec EXCEPT !.recovery = TRUE],
                        [rec EXCEPT !.stop = "none", !.recovery = FALSE]}
    BY DEF Marked
  <2>3. Marked(Op) \in Handoff BY <2>1, <2>2, HandoffUpdates
  <2>4. at \in 15 .. 19 => Marked(Op) = rec BY OpAt DEF Marked
  <2>5. QED BY <2>1, <2>3, <2>4, RunHalts
<1>6. ASSUME NEW w \in BOOLEAN, StopWrite(w) PROVE RunInv'
  <2>1. /\ at = 23 /\ phase = "free" /\ phase' = phase /\ status' = status /\ DOMAIN status = Tickets
        /\ disk' = IF w THEN rec ELSE disk
        /\ ~ working /\ working \in BOOLEAN /\ orphans \in Nat
        /\ UNCHANGED <<working, orphans, verified, unverified, overrides, commits>>
    BY <1>6, OpAt DEF StopWrite, RunInv, RunTypeOK, EffectInv, WorkerInv, git, loopVars, lit
  <2>2. CASE w /\ rec.active # "none"
    <3>1. at' = 24 /\ rec' = rec /\ attempt' = attempt /\ disk' = rec
      BY <1>6, <2>1, <2>2 DEF StopWrite, Advance
    <3>2. RunTypeOK' /\ EffectInv' /\ HandoffInv' /\ WorkerInv' /\ VerifiedInv'
      BY <2>1, <3>1 DEF RunInv, RunTypeOK, EffectInv, HandoffInv, WorkerInv, VerifiedInv
    <3>3. CommitInv' BY <2>1, <3>1 DEF RunInv, CommitInv
    <3>4. QED BY <3>2, <3>3 DEF RunInv
  <2>3. CASE ~ (w /\ rec.active # "none")
    <3>1. Ended BY <1>6, <2>3 DEF StopWrite
    <3>2. QED BY <2>1, <3>1, RunGone
  <2>4. QED BY <2>2, <2>3
<1>7. ASSUME NoFarewell PROVE RunInv'
  <2>1. /\ at = 24 /\ phase' = "free" /\ status' = status /\ DOMAIN status = Tickets /\ Ended
        /\ ~ working /\ working \in BOOLEAN /\ orphans \in Nat
        /\ UNCHANGED <<disk, working, orphans, verified, unverified, overrides, commits>>
    BY <1>7, OpAt DEF NoFarewell, RunInv, RunTypeOK, WorkerInv, git, loopVars, lit
  <2>2. QED BY <2>1, RunGone
<1>8. ASSUME LitBegin PROVE RunInv'
  <2>1. /\ at \in {4, 6, 9, 12, 13, 18, 19, 21, 24} /\ phase' = "held" /\ status' = status
        /\ UNCHANGED <<at, rec, disk, working, orphans, attempt, verified, unverified, overrides,
                       commits>>
    BY <1>8, OpAt DEF LitBegin, LitOps, Claims, RunInv, RunTypeOK, runVars, memory, git, lit
  <2>2. RunTypeOK' /\ EffectInv' /\ WorkerInv' /\ VerifiedInv'
    BY <2>1 DEF RunInv, RunTypeOK, EffectInv, WorkerInv, VerifiedInv
  <2>3. HandoffInv' BY <2>1 DEF RunInv, HandoffInv
  <2>4. CommitInv' BY <2>1 DEF RunInv, CommitInv
  <2>5. QED BY <2>2, <2>3, <2>4 DEF RunInv
<1>9. ASSUME LitWrite PROVE RunInv'
  <2>1. /\ at \in {4, 6, 9, 12, 13, 18, 19, 21, 24} /\ phase' = "written"
        /\ UNCHANGED <<at, rec, disk, working, orphans, attempt, verified, unverified, overrides,
                       commits>>
    BY <1>9 DEF LitWrite, RunInv, EffectInv, runVars, memory, git
  <2>2. WrittenStatus BY <1>9, <2>1, OpAt DEF LitWrite, Written, Claims, WrittenStatus
  <2>3. /\ DOMAIN status' = Tickets
        /\ \A t \in Tickets : status[t] = "closed" => status'[t] = "closed"
    BY <2>2 DEF RunInv, RunTypeOK, WrittenStatus
  <2>4. at = 19 => status'[rec.active] = "closed"
    BY <2>2 DEF RunInv, RunTypeOK, HandoffInv, WrittenStatus
  <2>5. RunTypeOK' /\ EffectInv' /\ WorkerInv' /\ VerifiedInv'
    BY <2>1, <2>3, <2>4 DEF RunInv, RunTypeOK, EffectInv, WorkerInv, VerifiedInv
  <2>6. HandoffInv' BY <2>1 DEF RunInv, HandoffInv
  <2>7. CommitInv' BY <2>1, <2>3 DEF RunInv, CommitInv
  <2>8. QED BY <2>5, <2>6, <2>7 DEF RunInv
<1>10. ASSUME NEW h \in BOOLEAN, LitFails(h) PROVE RunInv'
  <2>1. /\ at \in {4, 6, 9, 12, 13, 18, 19, 21, 24} /\ phase' = "free" /\ ~ working
        /\ working \in BOOLEAN /\ attempt \in {0, 1} /\ verified \in BOOLEAN /\ orphans \in Nat
        /\ rec \in Handoff /\ DOMAIN status = Tickets /\ (at \in 15 .. 19 => rec.recovery)
        /\ UNCHANGED <<disk, working, orphans, verified, unverified, overrides, commits>>
    BY <1>10 DEF LitFails, RunInv, RunTypeOK, EffectInv, HandoffInv, WorkerInv, git
  <2>2. WrittenStatus \/ status' = status
    BY <1>10, <2>1, OpAt DEF LitFails, Written, Claims, WrittenStatus
  <2>3. /\ DOMAIN status' = Tickets
        /\ \A t \in Tickets : status[t] = "closed" => status'[t] = "closed"
    BY <2>1, <2>2 DEF WrittenStatus
  <2>4. CASE at = 24
    <3>1. Ended BY <1>10, <2>4, OpAt DEF LitFails, Abandon
    <3>2. QED BY <2>1, <2>3, <2>4, <3>1, RunGone
  <2>5. CASE at # 24
    <3>1. Halt(rec) /\ attempt' = attempt BY <1>10, <2>1, <2>5, OpAt DEF LitFails, Abandon
    <3>2. QED BY <2>1, <2>3, <2>5, <3>1, RunHalts
  <2>6. QED BY <2>4, <2>5
<1>11. ASSUME LitEnd PROVE RunInv'
  <2>1. /\ at \in {4, 6, 9, 12, 13, 18, 19, 21, 24} /\ phase' = "free" /\ ~ working
        /\ working \in BOOLEAN /\ attempt \in {0, 1} /\ verified \in BOOLEAN /\ orphans \in Nat
        /\ rec \in Handoff /\ DOMAIN status = Tickets /\ (at \in 15 .. 19 => rec.recovery)
        /\ UNCHANGED <<disk, working, orphans, verified, unverified, overrides, commits, status>>
        /\ at = 19 => status[rec.active] = "closed"
    BY <1>11 DEF LitEnd, RunInv, RunTypeOK, EffectInv, HandoffInv, WorkerInv, git, lit
  <2>2. CASE at = 24
    <3>1. Ended BY <1>11, <2>2, OpAt DEF LitEnd, Abandon
    <3>2. QED BY <2>1, <2>2, <3>1, RunGone
  <2>3. CASE at # 24 /\ Abandon
    <3>1. Halt(rec) /\ attempt' = attempt BY <2>1, <2>3, OpAt DEF Abandon
    <3>2. QED BY <2>1, <2>3, <3>1, RunHalts
  <2>4. CASE at # 24 /\ Advance /\ UNCHANGED <<rec, attempt>>
    BY <2>1, <2>4, RunAdvances
  <2>5. QED BY <1>11, <2>2, <2>3, <2>4 DEF LitEnd
<1>12. ASSUME Launch PROVE RunInv'
  <2>1. /\ at = 7 /\ working' = TRUE /\ rec' = [rec EXCEPT !.recovery = TRUE] /\ rec \in Handoff
        /\ phase = "free" /\ phase' = phase /\ status' = status
        /\ UNCHANGED <<at, disk, attempt, orphans, verified, unverified, overrides, commits>>
    BY <1>12, OpAt DEF Launch, RunInv, RunTypeOK, EffectInv, git, loopVars, lit
  <2>2. working' \in BOOLEAN BY <2>1, Zenon
  <2>3. rec' \in Handoff BY <2>1, HandoffUpdates
  <2>4. rec'.active = rec.active /\ rec'.stop = rec.stop /\ (rec'.workerStop <=> rec.workerStop)
    BY <2>1 DEF Handoff
  <2>5. RunTypeOK' /\ EffectInv' BY <2>1, <2>2, <2>3 DEF RunInv, RunTypeOK, EffectInv
  <2>6. HandoffInv' BY <2>1, <2>4 DEF RunInv, HandoffInv
  <2>7. CommitInv' BY <2>1, <2>4 DEF RunInv, CommitInv, HandoffInv
  <2>8. WorkerInv' /\ VerifiedInv' BY <2>1 DEF RunInv, WorkerInv, VerifiedInv
  <2>9. QED BY <2>5, <2>6, <2>7, <2>8 DEF RunInv
<1>13. ASSUME NEW o \in Receipts, WorkerReturns(o) PROVE RunInv'
  <2>1. /\ at = 7 /\ working' = FALSE /\ rec \in Handoff /\ phase = "free" /\ phase' = phase
        /\ status' = status /\ DOMAIN status = Tickets /\ attempt \in {0, 1} /\ verified \in BOOLEAN
        /\ UNCHANGED <<disk, attempt, orphans, verified, unverified, overrides, commits>>
    BY <1>13 DEF WorkerReturns, RunInv, RunTypeOK, EffectInv, WorkerInv, git, loopVars, lit
  <2>2. working' \in BOOLEAN BY <2>1, Zenon
  <2>3. CASE o = "receipt"
    <3>1. at' = 8 /\ rec' = [rec EXCEPT !.recovery = FALSE]
      BY <1>13, <2>1, <2>3 DEF WorkerReturns, Advance
    <3>2. rec' \in Handoff BY <2>1, <3>1, HandoffUpdates
    <3>3. /\ rec'.active = rec.active /\ rec'.stop = rec.stop /\ ~ rec'.recovery
          /\ rec'.workerStop <=> rec.workerStop
      BY <2>1, <3>1 DEF Handoff
    <3>4. RunTypeOK' /\ EffectInv' BY <2>1, <2>2, <3>1, <3>2 DEF RunInv, RunTypeOK, EffectInv
    <3>5. HandoffInv' BY <2>1, <3>1, <3>3 DEF RunInv, HandoffInv
    <3>6. CommitInv' BY <2>1, <3>1, <3>3 DEF RunInv, CommitInv, HandoffInv
    <3>7. WorkerInv' /\ VerifiedInv' BY <2>1, <3>1 DEF RunInv, WorkerInv, VerifiedInv
    <3>8. QED BY <3>4, <3>5, <3>6, <3>7 DEF RunInv
  <2>4. CASE o # "receipt"
    <3>1. PICK record \in {rec, [rec EXCEPT !.recovery = FALSE, !.workerStop = TRUE]} : Halt(record)
      BY <1>13, <2>4 DEF WorkerReturns
    <3>2. record \in Handoff BY <2>1, <3>1, HandoffUpdates
    <3>3. QED BY <2>1, <2>2, <3>1, <3>2, RunHalts
  <2>5. QED BY <2>3, <2>4
<1>14. ASSUME NEW p \in BOOLEAN, Verify(p) PROVE RunInv'
  <2>1. /\ at = 10 /\ verified' = (verified \/ p) /\ phase = "free" /\ phase' = phase
        /\ status' = status /\ DOMAIN status = Tickets /\ ~ working /\ working \in BOOLEAN
        /\ rec \in Handoff /\ attempt \in {0, 1}
        /\ UNCHANGED <<disk, working, orphans, unverified, overrides, commits>>
    BY <1>14, OpAt DEF Verify, RunInv, RunTypeOK, EffectInv, WorkerInv, git, loopVars, lit
  <2>2. verified' \in BOOLEAN BY <2>1, Zenon
  <2>3. CASE p
    <3>1. Advance /\ UNCHANGED <<attempt, rec>> BY <1>14, <2>3 DEF Verify
    <3>2. verified' BY <2>1, <2>3
    <3>3. QED BY <2>1, <2>2, <3>1, <3>2, RunAdvances
  <2>4. CASE ~ p /\ attempt = 0
    <3>1. attempt' = 1 /\ UNCHANGED <<at, rec>> BY <1>14, <2>4 DEF Verify
    <3>2. RunTypeOK' /\ EffectInv' BY <2>1, <2>2, <3>1 DEF RunInv, RunTypeOK, EffectInv
    <3>3. HandoffInv' /\ CommitInv' BY <2>1, <3>1 DEF RunInv, HandoffInv, CommitInv
    <3>4. WorkerInv' /\ VerifiedInv' BY <2>1, <3>1 DEF RunInv, WorkerInv, VerifiedInv
    <3>5. QED BY <3>2, <3>3, <3>4 DEF RunInv
  <2>5. CASE ~ p /\ attempt = 1
    <3>1. Halt(rec) /\ attempt' = attempt BY <1>14, <2>5 DEF Verify
    <3>2. QED BY <2>1, <2>2, <3>1, RunHalts
  <2>6. QED BY <2>1, <2>3, <2>4, <2>5
<1>15. ASSUME CommitClear PROVE RunInv'
  <2>1. /\ at = 15 /\ phase' = "cleared" /\ status' = status
        /\ UNCHANGED <<at, rec, disk, working, orphans, attempt, verified, unverified, overrides,
                       commits>>
    BY <1>15, OpAt DEF CommitClear, RunInv, RunTypeOK, runVars, memory, git, lit
  <2>2. RunTypeOK' /\ EffectInv' BY <2>1 DEF RunInv, RunTypeOK, EffectInv
  <2>3. HandoffInv' /\ CommitInv' BY <2>1 DEF RunInv, HandoffInv, CommitInv
  <2>4. WorkerInv' /\ VerifiedInv' BY <2>1 DEF RunInv, WorkerInv, VerifiedInv
  <2>5. QED BY <2>2, <2>3, <2>4 DEF RunInv
<1>16. ASSUME NEW o, Commit(o) PROVE RunInv'
  <2>1. /\ at = 15 /\ phase' = "free" /\ status' = status /\ DOMAIN status = Tickets
        /\ rec \in Handoff /\ rec.active \in Tickets /\ rec.recovery /\ disk.recovery
        /\ attempt \in {0, 1} /\ ~ working /\ working \in BOOLEAN
        /\ UNCHANGED <<disk, working, orphans, attempt, overrides>>
    BY <1>16 DEF Commit, RunInv, RunTypeOK, EffectInv, HandoffInv, WorkerInv, lit
  <2>2. CASE o = "failed"
    <3>1. Halt(rec) /\ UNCHANGED <<verified, commits, unverified>> BY <1>16, <2>2 DEF Commit
    <3>2. QED BY <2>1, <3>1, RunHalts DEF RunInv, RunTypeOK
  <2>3. CASE o # "failed"
    <3>1. /\ commits' = [commits EXCEPT ![rec.active] = @ + 1]
          /\ unverified' = (unverified \/ ~ verified)
          /\ verified' = FALSE
      BY <1>16, <2>3 DEF Commit, Committed
    <3>2. verified' \in BOOLEAN /\ unverified' \in BOOLEAN BY <3>1, Zenon
    <3>3. commits' \in [Tickets -> Nat] BY <2>1, <3>1 DEF RunInv, RunTypeOK
    <3>4. \/ at' = 16 /\ rec' = rec
          \/ at' = 23 /\ rec' = [rec EXCEPT !.stop = "stopped"]
      BY <1>16, <2>1, Positions DEF Commit, Advance, Halt
    <3>5. rec' \in Handoff BY <2>1, <3>4, HandoffUpdates
    <3>6. rec'.recovery /\ rec'.active = rec.active /\ (at' = 16 => rec' = rec)
      BY <2>1, <3>4 DEF Handoff
    <3>7. RunTypeOK' /\ EffectInv'
      BY <2>1, <3>2, <3>3, <3>4, <3>5 DEF RunInv, RunTypeOK, EffectInv
    <3>8. HandoffInv' BY <2>1, <3>4, <3>6 DEF RunInv, HandoffInv
    <3>9. CommitInv'
      <4>1. commits[rec.active] <= overrides BY <2>1 DEF RunInv, CommitInv
      <4>2. commits'[rec.active] <= overrides + 1 BY <2>1, <3>1, <4>1 DEF RunInv, RunTypeOK
      <4>3. \A t \in Tickets : t # rec.active => commits'[t] = commits[t]
        BY <3>1 DEF RunInv, RunTypeOK
      <4>4. \A t \in Tickets : t # rec.active => commits[t] <= overrides \/ status[t] = "closed"
        BY <2>1 DEF RunInv, CommitInv
      <4>5. \A t \in Tickets : commits'[t] <= overrides + 1
        BY <4>2, <4>3 DEF RunInv, RunTypeOK, CommitInv
      <4>6. \A t \in Tickets : commits'[t] <= overrides \/ commits'[t] = overrides + 1
        BY <3>3, <4>5 DEF RunInv, RunTypeOK
      <4>7. QED BY <2>1, <3>4, <3>6, <4>3, <4>4, <4>6 DEF CommitInv
    <3>10. WorkerInv' /\ VerifiedInv'
      BY <2>1, <3>1, <3>4 DEF RunInv, RunTypeOK, WorkerInv, VerifiedInv
    <3>11. QED BY <3>7, <3>8, <3>9, <3>10 DEF RunInv
  <2>4. QED BY <2>2, <2>3
<1>17. ASSUME NEW w, WorkerEdits(w) PROVE RunInv'
  <2>1. /\ working \/ orphans > 0
        /\ verified' = FALSE /\ phase' = phase /\ status' = status
        /\ UNCHANGED <<at, rec, disk, working, orphans, attempt, unverified, overrides, commits>>
    BY <1>17 DEF WorkerEdits, loopVars, memory, lit
  <2>2. verified' \in BOOLEAN BY <2>1, Zenon
  <2>3. RunTypeOK' /\ EffectInv' BY <2>1, <2>2 DEF RunInv, RunTypeOK, EffectInv
  <2>4. HandoffInv' /\ CommitInv' BY <2>1 DEF RunInv, HandoffInv, CommitInv
  <2>5. WorkerInv' BY <2>1 DEF RunInv, WorkerInv
  <2>6. VerifiedInv' BY <2>1 DEF RunInv, RunTypeOK, WorkerInv, VerifiedInv
  <2>7. QED BY <2>3, <2>4, <2>5, <2>6 DEF RunInv
<1>18. ASSUME Crash PROVE RunInv'
  <2>1. /\ at # 0 /\ Ended /\ phase' = "free" /\ working' = FALSE
        /\ orphans' = orphans + (IF working THEN 1 ELSE 0)
        /\ status' = status /\ DOMAIN status = Tickets
        /\ UNCHANGED <<disk, verified, unverified, overrides, commits>>
    BY <1>18 DEF Crash, RunInv, RunTypeOK, git, lit
  <2>2. working' \in BOOLEAN BY <2>1, Zenon
  <2>3. QED BY <2>1, <2>2, RunGone
<1>19. ASSUME OrphanExits PROVE RunInv'
  <2>1. /\ orphans > 0 /\ orphans' = orphans - 1 /\ phase' = phase /\ status' = status
        /\ UNCHANGED <<at, rec, disk, working, attempt, verified, unverified, overrides, commits>>
    BY <1>19 DEF OrphanExits, loopVars, memory, lit, git
  <2>2. RunTypeOK' /\ EffectInv' BY <2>1 DEF RunInv, RunTypeOK, EffectInv
  <2>3. HandoffInv' /\ CommitInv' BY <2>1 DEF RunInv, HandoffInv, CommitInv
  <2>4. WorkerInv' /\ VerifiedInv' BY <2>1 DEF RunInv, RunTypeOK, WorkerInv, VerifiedInv
  <2>5. QED BY <2>2, <2>3, <2>4 DEF RunInv
<1>20. ASSUME Resolve PROVE RunInv'
  <2>1. /\ at = 0 /\ overrides' = overrides + 1 /\ disk' = ResolveStop(disk) /\ phase' = phase
        /\ status' = status /\ disk \in Handoff
        /\ UNCHANGED <<at, rec, working, attempt, orphans, verified, unverified, commits>>
    BY <1>20 DEF Resolve, RunInv, RunTypeOK, loopVars, memory, lit, git
  <2>2. disk' \in Handoff BY <2>1, HandoffUpdates DEF ResolveStop
  <2>3. RunTypeOK' /\ EffectInv' BY <2>1, <2>2 DEF RunInv, RunTypeOK, EffectInv
  <2>4. HandoffInv' BY <2>1 DEF RunInv, HandoffInv
  <2>5. CommitInv' BY <2>1 DEF RunInv, RunTypeOK, CommitInv
  <2>6. WorkerInv' /\ VerifiedInv' BY <2>1 DEF RunInv, RunTypeOK, WorkerInv, VerifiedInv
  <2>7. QED BY <2>3, <2>4, <2>5, <2>6 DEF RunInv
<1>21. ASSUME CleanTree PROVE RunInv'
  <2>1. /\ at = 0 /\ verified' = FALSE /\ phase' = phase /\ status' = status
        /\ UNCHANGED <<at, rec, disk, working, orphans, attempt, unverified, overrides, commits>>
    BY <1>21 DEF CleanTree, loopVars, memory, lit
  <2>2. verified' \in BOOLEAN BY <2>1, Zenon
  <2>3. RunTypeOK' /\ EffectInv' BY <2>1, <2>2 DEF RunInv, RunTypeOK, EffectInv
  <2>4. HandoffInv' /\ CommitInv' BY <2>1 DEF RunInv, HandoffInv, CommitInv
  <2>5. WorkerInv' /\ VerifiedInv' BY <2>1 DEF RunInv, WorkerInv, VerifiedInv
  <2>6. QED BY <2>3, <2>4, <2>5 DEF RunInv
<1>22. ASSUME NEW w, OthersWrite(w) PROVE RunInv'
  BY <1>22, RunQuiet DEF OthersWrite, RunInv, RunTypeOK, memory, lit
<1>23. QED
  BY <1>1, <1>2, <1>3, <1>4, <1>5, <1>6, <1>7, <1>8, <1>9, <1>10, <1>11, <1>12, <1>13, <1>14,
     <1>15, <1>16, <1>17, <1>18, <1>19, <1>20, <1>21, <1>22, RunLoop DEF Next, RunStep

\* The invariant of the run holds in every reachable state.
LEMMA RunInvariant == TeamSpec => []RunInv
<1>1. ASSUME TeamInit PROVE RunInv
  <2>1. /\ at = 0 /\ rec = NoRecord /\ disk = NoRecord /\ working = FALSE /\ orphans = 0
        /\ attempt = 0 /\ verified = FALSE /\ commits = [t \in Tickets |-> 0]
        /\ unverified = FALSE /\ overrides = 0 /\ phase = "free"
    BY <1>1 DEF TeamInit, Init, LoopInit
  <2>2. DOMAIN status = Tickets BY <1>1 DEF TeamInit, Init, LoopInit
  <2>3. working \in BOOLEAN /\ verified \in BOOLEAN /\ unverified \in BOOLEAN BY <2>1, Zenon
  <2>4. rec \in Handoff /\ disk \in Handoff BY <2>1, HandoffUpdates
  <2>5. RunTypeOK /\ EffectInv BY <2>1, <2>2, <2>3, <2>4 DEF RunTypeOK, EffectInv
  <2>6. HandoffInv /\ CommitInv BY <2>1 DEF HandoffInv, CommitInv
  <2>7. WorkerInv /\ VerifiedInv BY <2>1 DEF WorkerInv, VerifiedInv
  <2>8. QED BY <2>5, <2>6, <2>7 DEF RunInv
<1>2. ASSUME RunInv, [TeamNext]_teamVars PROVE RunInv'
  <2>1. ASSUME MailNext, UNCHANGED runVars PROVE RunInv'
    <3>1. UNCHANGED <<status, phase>>
      BY <2>1 DEF MailNext, Ensure, ReadComments, ExportFails, WriteComment, AddsComment, Deliver,
           Check, Saved, SaveFails, Queue, Dies, LateComment, PowerLoss, Reroute, Loop, loopVars, lit
    <3>2. QED BY <1>2, <2>1, <3>1, RunQuiet DEF RunInv, RunTypeOK, runVars, memory, git
  <2>2. ASSUME UNCHANGED teamVars PROVE RunInv'
    BY <1>2, <2>2, RunQuiet DEF RunInv, RunTypeOK, teamVars, vars, runVars, memory, git, loopVars,
       lit
  <2>3. QED BY <1>2, <2>1, <2>2, RunNext DEF TeamNext
<1>3. QED BY <1>1, <1>2, PTL DEF TeamSpec

\* Without an operator's resolution a ticket is committed at most once, no two workers
\* are alive together and what is committed was verified, wherever runs crash and
\* their writes fail (continuation.py, handoff.py); each resolution allows one more.
THEOREM AlwaysRunsOnce == TeamSpec => []RunsOnce
<1>1. ASSUME RunInv PROVE RunsOnce
  <2>1. \A t \in Tickets : commits[t] <= 1 + overrides
    BY <1>1 DEF RunInv, RunTypeOK, CommitInv
  <2>2. orphans + (IF working THEN 1 ELSE 0) <= 1 + overrides
    BY <1>1 DEF RunInv, RunTypeOK, WorkerInv
  <2>3. QED BY <1>1, <2>1, <2>2 DEF RunInv, VerifiedInv, RunsOnce
<1>2. QED BY <1>1, RunInvariant, PTL

-----------------------------------------------------------------------------
(* Messages *)

\* No call at all is one of the calls.
LEMMA IdleType == Idle \in CallType
BY DEF Idle, CallType, Place

\* A step that leaves comments, late commands and deaths alone, with a call that is
\* not about to write.
LEMMA CommentsQuiet ==
    ASSUME CommentInv, UNCHANGED <<comments, late, deaths>>, call' \in CallType,
           call'.at # "writing"
    PROVE  CommentInv'
BY DEF CommentInv, CallType, At

\* Every step keeps the account of comments.
LEMMA CommentStep == CommentInv /\ [TeamNext]_teamVars => CommentInv'
<1> SUFFICES ASSUME CommentInv, [TeamNext]_teamVars PROVE CommentInv'
  OBVIOUS
<1> DEFINE Text == Bodies \cup {"none"}
<1>14. /\ comments \in Seq(Text) /\ late \in Seq(Text) /\ deaths \in Nat /\ call \in CallType
      /\ Len(comments) \in Nat /\ Len(late) \in Nat
  BY DEF CommentInv, CallType
<1>1. ASSUME UNCHANGED mailVars PROVE CommentInv'
  BY <1>1 DEF CommentInv, mailVars, At
<1>2. ASSUME NEW body \in Bodies, Ensure(body) PROVE CommentInv'
  <2>1. call' \in CallType /\ call'.at = "read" BY <1>2 DEF Ensure, Idle, CallType, Place
  <2>2. QED BY <1>2, <2>1, CommentsQuiet DEF Ensure
<1>3. ASSUME ReadComments PROVE CommentInv'
  <2>1. CASE call' = Idle
    BY <1>3, <2>1, IdleType, CommentsQuiet DEF ReadComments, Idle
  <2>2. CASE call' # Idle
    <3>1. Len(comments) = 0 /\ call' = [call EXCEPT !.at = "writing", !.tried = @ + 1]
      BY <1>3, <2>2 DEF ReadComments, MayWrite, Returns
    <3>2. call.tried + 1 \in Nat /\ call.body \in Text BY <1>14 DEF CallType
    <3>3. call' = [at |-> "writing", body |-> call.body, tried |-> call.tried + 1,
                   pointer |-> call.pointer]
      BY <1>14, <3>1 DEF CallType
    <3>4. call' \in CallType BY <1>14, <3>2, <3>3 DEF CallType, Place
    <3>5. UNCHANGED <<comments, late, deaths>> BY <1>3 DEF ReadComments
    <3>6. Len(comments) + Len(late) <= deaths BY <1>14, <3>1 DEF CommentInv
    <3>7. QED BY <1>14, <3>4, <3>5, <3>6 DEF CommentInv, CallType
  <2>3. QED BY <2>1, <2>2
<1>4. ASSUME ExportFails PROVE CommentInv'
  BY <1>4, IdleType, CommentsQuiet DEF ExportFails, Returns, Idle
<1>5. ASSUME NEW added \in BOOLEAN, NEW failed \in BOOLEAN, WriteComment(added, failed)
      PROVE CommentInv'
  <2>1. /\ call.at = "writing" /\ call' \in CallType /\ call'.at # "writing"
        /\ call.body \in Text
    BY <1>14, <1>5 DEF WriteComment, Goes, At, CallType, Place
  <2>2. CASE added
    <3>1. comments' = Append(comments, call.body) /\ UNCHANGED <<late, deaths>>
      BY <1>5, <2>2 DEF WriteComment, AddsComment
    <3>2. comments' \in Seq(Text) /\ Len(comments') = Len(comments) + 1
      BY <1>14, <2>1, <3>1
    <3>3. QED BY <1>14, <2>1, <3>1, <3>2 DEF CommentInv, CallType, At
  <2>3. CASE ~ added
    BY <1>5, <2>1, <2>3, CommentsQuiet DEF WriteComment
  <2>4. QED BY <2>2, <2>3
<1>6. ASSUME NEW comment \in Bodies, NEW session \in Sessions, Deliver(comment, session)
      PROVE CommentInv'
  <2>1. call' \in CallType /\ call'.at = "check" BY <1>6 DEF Deliver, Idle, CallType, Place
  <2>2. QED BY <1>6, <2>1, CommentsQuiet DEF Deliver
<1>7. ASSUME Check \/ Saved \/ SaveFails PROVE CommentInv'
  <2>1. call' \in {Idle, [call EXCEPT !.at = "intend"], [call EXCEPT !.at = "queue"]}
    BY <1>7 DEF Check, Saved, SaveFails, Goes, Returns
  <2>2. call' \in CallType /\ call'.at # "writing"
    BY <1>14, <2>1, IdleType DEF CallType, Place, Idle
  <2>3. QED BY <1>7, <2>2, CommentsQuiet DEF Check, Saved, SaveFails
<1>8. ASSUME NEW queued \in BOOLEAN, NEW answer \in {"queued", "refused", "unanswered"},
             Queue(queued, answer)
      PROVE CommentInv'
  <2>1. call' \in CallType /\ call'.at # "writing"
    BY <1>14, <1>8 DEF Queue, Goes, CallType, Place
  <2>2. QED BY <1>8, <2>1, CommentsQuiet DEF Queue
<1>9. ASSUME Dies PROVE CommentInv'
  <2>1. /\ deaths' = deaths + 1 /\ call' = Idle /\ comments' = comments
        /\ late' = IF At("writing") THEN Append(late, call.body) ELSE late
    BY <1>9 DEF Dies, Returns
  <2>2. call.body \in Text /\ call' \in CallType /\ call'.at = "idle"
    BY <1>14, <2>1, IdleType DEF CallType, Idle
  <2>3. CASE At("writing")
    <3>1. late' \in Seq(Text) /\ Len(late') = Len(late) + 1 BY <1>14, <2>1, <2>2, <2>3
    <3>2. QED BY <1>14, <2>1, <2>2, <2>3, <3>1 DEF CommentInv, CallType, At
  <2>4. CASE ~ At("writing")
    BY <1>14, <2>1, <2>2, <2>4 DEF CommentInv, CallType, At
  <2>5. QED BY <2>3, <2>4
<1>10. ASSUME LateComment PROVE CommentInv'
  <2>1. /\ late # <<>> /\ late' = Tail(late) /\ comments' = Append(comments, Head(late))
        /\ UNCHANGED <<call, deaths>>
    BY <1>10 DEF LateComment, AddsComment
  <2>2. /\ late' \in Seq(Text) /\ Len(late') = Len(late) - 1 /\ Head(late) \in Text
    BY <1>14, <2>1
  <2>3. comments' \in Seq(Text) /\ Len(comments') = Len(comments) + 1
    BY <1>14, <2>1, <2>2
  <2>4. QED BY <1>14, <2>1, <2>2, <2>3 DEF CommentInv, CallType, At
<1>11. ASSUME PowerLoss PROVE CommentInv'
  <2>1. deaths' = deaths + 1 /\ late' = <<>> /\ UNCHANGED <<comments, call>> /\ ~ At("writing")
    BY <1>11 DEF PowerLoss, At
  <2>2. late' \in Seq(Text) /\ Len(late') = 0 BY <2>1
  <2>3. QED BY <1>14, <2>1, <2>2 DEF CommentInv, CallType, At
<1>12. ASSUME NEW session, Reroute(session) PROVE CommentInv'
  BY <1>12 DEF Reroute, CommentInv, At
<1>13. QED
  BY <1>1, <1>2, <1>3, <1>4, <1>5, <1>6, <1>7, <1>8, <1>9, <1>10, <1>11, <1>12
     DEF TeamNext, MailNext, teamVars

\* The steps of a call that leave the record, the comments and the queue alone: a
\* call may be anywhere it has nothing to save or to queue.
LEMMA PointerQuiet ==
    ASSUME PointerInv, UNCHANGED <<comments, ledger, sent, receipts>>,
           call'.at \notin {"intend", "queue", "queued", "refused"}
    PROVE  PointerInv'
BY DEF PointerInv, At

\* The first of the comments stays the first.
LEMMA AppendBehind ==
    ASSUME NEW S, NEW list \in Seq(S), NEW e \in S
    PROVE  /\ Append(list, e) # <<>>
           /\ list # <<>> => Append(list, e)[1] = list[1]
<1>1. Len(list) \in Nat /\ Len(Append(list, e)) = Len(list) + 1 OBVIOUS
<1>2. Append(list, e) # <<>> BY <1>1
<1>3. ASSUME list # <<>> PROVE Append(list, e)[1] = list[1]
  <2>1. 1 \in 1 .. Len(list) BY <1>3
  <2>2. QED BY <2>1
<1>4. QED BY <1>2, <1>3

\* A comment added behind the others.
LEMMA PointerComment ==
    ASSUME PointerInv, comments' # <<>>, comments # <<>> => comments'[1] = comments[1],
           UNCHANGED <<ledger, sent, receipts>>,
           UNCHANGED call \/ call'.at \in {"read", "read after failure"}
    PROVE  PointerInv'
BY DEF PointerInv, At

\* Whatever a save leaves of the record: the stages it may have now, or after a loss
\* of power, are the ones before, the saved one and the residue.
LEMMA SaveLeaves ==
    ASSUME PointerInv, NEW value, NEW record \in Interrupted(ledger, value)
    PROVE  /\ record = [now |-> record.now, maybe |-> record.maybe]
           /\ record.now \in record.maybe
           /\ record.maybe \subseteq ledger.maybe \cup {value, Stage("residue", <<>>)}
BY DEF PointerInv, Interrupted, Failed, Renamed, Published, Fresh

\* Every step keeps the account of pointers.
LEMMA PointerStep == CommentInv /\ PointerInv /\ [TeamNext]_teamVars => PointerInv'
<1> SUFFICES ASSUME CommentInv, PointerInv, [TeamNext]_teamVars PROVE PointerInv'
  OBVIOUS
<1>1. ASSUME UNCHANGED mailVars PROVE PointerInv'
  BY <1>1 DEF PointerInv, mailVars, At
<1>2. ASSUME NEW body \in Bodies, Ensure(body) PROVE PointerInv'
  BY <1>2, PointerQuiet DEF Ensure, Idle
<1>3. ASSUME ReadComments \/ ExportFails PROVE PointerInv'
  <2>1. call' \in {Idle, [call EXCEPT !.at = "writing", !.tried = @ + 1]}
    BY <1>3 DEF ReadComments, ExportFails, Returns
  <2>2. call'.at \in {"writing", "idle"}
    <3>1. call \in CallType BY DEF CommentInv
    <3>2. [call EXCEPT !.at = "writing", !.tried = @ + 1].at = "writing" BY <3>1 DEF CallType
    <3>3. Idle.at = "idle" BY DEF Idle
    <3>4. QED BY <2>1, <3>2, <3>3, Zenon
  <2>3. QED BY <1>3, <2>2, PointerQuiet DEF ReadComments, ExportFails
<1>4. ASSUME NEW added \in BOOLEAN, NEW failed \in BOOLEAN, WriteComment(added, failed)
      PROVE PointerInv'
  <2>1. call'.at \in {"read", "read after failure"} /\ call.body \in Bodies \cup {"none"}
    BY <1>4 DEF WriteComment, Goes, CommentInv, CallType
  <2>2. CASE added
    <3>1. comments' = Append(comments, call.body) /\ UNCHANGED <<ledger, sent, receipts>>
      BY <1>4, <2>2 DEF WriteComment, AddsComment
    <3>2. comments' # <<>> /\ (comments # <<>> => comments'[1] = comments[1])
      BY <2>1, <3>1, AppendBehind DEF CommentInv
    <3>3. QED BY <2>1, <3>1, <3>2, PointerComment
  <2>3. CASE ~ added
    BY <1>4, <2>1, <2>3, PointerQuiet DEF WriteComment
  <2>4. QED BY <2>2, <2>3
<1>5. ASSUME NEW comment \in Bodies, NEW session \in Sessions, Deliver(comment, session)
      PROVE PointerInv'
  BY <1>5, PointerQuiet DEF Deliver, Idle
<1>6. ASSUME Check PROVE PointerInv'
  <2>1. UNCHANGED <<comments, ledger, sent>> BY <1>6 DEF Check
  <2> DEFINE ok == Admitted(call.pointer) /\ Matches
  <2>2. CASE ok /\ Sendable(ledger.now.stage)
    <3>1. call' = [call EXCEPT !.at = "intend"] /\ UNCHANGED receipts
      BY <1>6, <2>2 DEF Check, Goes
    <3>2. call'.at = "intend" /\ call'.pointer = call.pointer
      BY <3>1 DEF CommentInv, CallType
    <3>3. sent = <<>> BY <2>2 DEF PointerInv
    <3>4. comments # <<>> /\ comments[1] = call.pointer[1] BY <2>2 DEF Admitted
    <3>5. QED BY <2>1, <3>1, <3>2, <3>3, <3>4 DEF PointerInv, At
  <2>3. CASE ok /\ ledger.now.stage = "enqueued"
    <3>1. call' = Idle /\ receipts' = receipts \cup {call.pointer}
      BY <1>6, <2>3 DEF Check, Returns, Sendable
    <3>2. ledger.now.pointer = call.pointer BY <2>3 DEF Matches
    <3>3. sent = <<call.pointer>> BY <2>3, <3>2 DEF PointerInv
    <3>4. \A p \in receipts' : sent = <<p>> BY <3>1, <3>3 DEF PointerInv
    <3>5. QED BY <2>1, <3>1, <3>4 DEF PointerInv, At, Idle
  <2>4. CASE ~ (ok /\ Sendable(ledger.now.stage)) /\ ~ (ok /\ ledger.now.stage = "enqueued")
    <3>1. call' = Idle /\ receipts' = receipts BY <1>6, <2>4 DEF Check, Returns
    <3>2. QED BY <2>1, <3>1, PointerQuiet DEF Idle
  <2>5. QED BY <2>2, <2>3, <2>4
<1>7. ASSUME Saved PROVE PointerInv'
  <2>1. /\ ledger' = [now |-> Saves, maybe |-> {Saves}] /\ UNCHANGED <<comments, sent>>
        /\ call.at \in Saving
    BY <1>7 DEF Saved, Published, Fresh
  <2>2. CASE At("intend")
    <3>1. /\ call' = [call EXCEPT !.at = "queue"] /\ receipts' = receipts
          /\ Saves = Stage("intended", call.pointer)
      BY <1>7, <2>2 DEF Saved, Goes, At, Saves
    <3>2. call'.at = "queue" /\ call'.pointer = call.pointer BY <3>1 DEF CommentInv, CallType
    <3>3. sent = <<>> /\ comments # <<>> /\ comments[1] = call.pointer[1]
      BY <2>2 DEF PointerInv, At
    <3>4. ledger'.now = Stage("intended", call.pointer) /\ ledger'.maybe = {ledger'.now}
      BY <2>1, <3>1
    <3>5. ledger'.now.stage = "intended" BY <3>4 DEF Stage
    <3>6. QED BY <2>1, <3>1, <3>2, <3>3, <3>4, <3>5 DEF PointerInv, At
  <2>3. CASE At("queued")
    <3>1. call' = Idle /\ receipts' = receipts \cup {call.pointer} /\ sent = <<call.pointer>>
      BY <1>7, <2>3 DEF Saved, Returns, PointerInv, At
    <3>2. Saves = Stage("enqueued", call.pointer) BY <2>3 DEF Saves, At
    <3>3. Saves.stage = "enqueued" /\ Saves.pointer = call.pointer BY <3>2 DEF Stage
    <3>4. \A p \in receipts' : sent = <<p>> BY <3>1 DEF PointerInv
    <3>5. QED BY <2>1, <3>1, <3>3, <3>4 DEF PointerInv, At, Idle, Sendable
  <2>4. CASE At("refused") \/ At("unanswered")
    <3>1. call' = Idle /\ receipts' = receipts /\ (At("refused") => sent = <<>>)
      BY <1>7, <2>4 DEF Saved, Returns, PointerInv, At
    <3>2. Saves.stage = IF At("refused") THEN "verified" ELSE "uncertain delivery"
      BY <2>4 DEF Saves, At, Stage
    <3>3. QED BY <2>1, <2>4, <3>1, <3>2 DEF PointerInv, At, Idle, Sendable
  <2>5. QED BY <2>1, <2>2, <2>3, <2>4 DEF Saving, At
<1>8. ASSUME call.at \in Saving, ledger' \in Interrupted(ledger, Saves), call' = Idle,
             UNCHANGED <<comments, sent, receipts>>
      PROVE PointerInv'
  <2>1. /\ ledger' = [now |-> ledger'.now, maybe |-> ledger'.maybe]
        /\ ledger'.now \in ledger'.maybe
        /\ ledger'.maybe \subseteq ledger.maybe \cup {Saves, Stage("residue", <<>>)}
    BY <1>8, SaveLeaves
  <2>2. sent # <<>> => ~ Sendable(Saves.stage)
    BY <1>8 DEF PointerInv, Saving, Saves, At, Stage, Sendable
  <2>3. Saves.stage = "enqueued" => sent = <<Saves.pointer>>
    BY <1>8 DEF PointerInv, Saving, Saves, At, Stage
  <2>4. Stage("residue", <<>>).stage = "residue" BY DEF Stage
  <2>5. \A v \in ledger'.maybe : /\ sent # <<>> => ~ Sendable(v.stage)
                                 /\ v.stage = "enqueued" => sent = <<v.pointer>>
    BY <2>1, <2>2, <2>3, <2>4 DEF PointerInv, Sendable
  <2>6. QED BY <1>8, <2>1, <2>5 DEF PointerInv, At, Idle
<1>9. ASSUME SaveFails PROVE PointerInv'
  BY <1>8, <1>9 DEF SaveFails, Interrupted, Returns
<1>10. ASSUME NEW queued \in BOOLEAN, NEW answer \in {"queued", "refused", "unanswered"},
              Queue(queued, answer)
       PROVE PointerInv'
  <2>1. /\ At("queue") /\ sent = <<>> /\ comments # <<>> /\ comments[1] = call.pointer[1]
        /\ ledger.maybe = {Stage("intended", call.pointer)} /\ receipts = {}
        /\ UNCHANGED <<comments, ledger, receipts>>
        /\ sent' = IF queued THEN Append(sent, call.pointer) ELSE sent
    BY <1>10 DEF Queue, PointerInv, At
  <2>2. call'.at = answer /\ call'.pointer = call.pointer
    BY <1>10 DEF Queue, Goes, CommentInv, CallType
  <2>3. \A v \in ledger.maybe : v.stage = "intended" BY <2>1 DEF Stage
  <2>4. CASE queued
    <3>1. sent' = <<call.pointer>> BY <2>1, <2>4
    <3>2. answer # "refused" BY <1>10, <2>4 DEF Queue
    <3>3. QED BY <2>1, <2>2, <2>3, <3>1, <3>2 DEF PointerInv, At, Sendable
  <2>5. CASE ~ queued
    <3>1. sent' = <<>> /\ answer # "queued" BY <1>10, <2>1, <2>5 DEF Queue
    <3>2. QED BY <2>1, <2>2, <2>3, <3>1 DEF PointerInv, At
  <2>6. QED BY <2>4, <2>5
<1>11. ASSUME Dies PROVE PointerInv'
  <2>1. call' = Idle /\ UNCHANGED <<comments, receipts>> BY <1>11 DEF Dies, Returns
  <2>2. CASE call.at \in Saving
    BY <1>8, <1>11, <2>1, <2>2 DEF Dies, At, Saving
  <2>3. CASE call.at \notin Saving /\ sent' = sent
    BY <1>11, <2>1, <2>3, PointerQuiet DEF Dies, Idle
  <2>4. CASE At("queue") /\ sent' = Append(sent, call.pointer)
    <3>1. /\ sent = <<>> /\ comments # <<>> /\ comments[1] = call.pointer[1] /\ receipts = {}
          /\ ledger.maybe = {Stage("intended", call.pointer)} /\ ledger' = ledger
      BY <1>11, <2>4 DEF Dies, PointerInv, At, Saving
    <3>2. sent' = <<call.pointer>> BY <2>4, <3>1
    <3>3. \A v \in ledger.maybe : v.stage = "intended" BY <3>1 DEF Stage
    <3>4. QED BY <2>1, <3>1, <3>2, <3>3 DEF PointerInv, At, Idle, Sendable
  <2>5. QED BY <1>11, <2>2, <2>3, <2>4 DEF Dies
<1>12. ASSUME LateComment PROVE PointerInv'
  <2>1. Head(late) \in Bodies \cup {"none"} BY <1>12 DEF LateComment, CommentInv
  <2>2. comments' = Append(comments, Head(late)) /\ UNCHANGED <<ledger, call, sent, receipts>>
    BY <1>12 DEF LateComment, AddsComment
  <2>3. comments' # <<>> /\ (comments # <<>> => comments'[1] = comments[1])
    BY <2>1, <2>2, AppendBehind DEF CommentInv
  <2>4. QED BY <2>2, <2>3, PointerComment
<1>13. ASSUME PowerLoss PROVE PointerInv'
  <2>1. PICK v \in ledger.maybe : ledger' = [now |-> v, maybe |-> {v}]
    BY <1>13 DEF PowerLoss, AfterPowerLoss, Fresh
  <2>2. call'.at = "idle" /\ UNCHANGED <<comments, sent, receipts>> BY <1>13 DEF PowerLoss, At
  <2>3. QED BY <2>1, <2>2 DEF PointerInv, At
<1>14. ASSUME NEW session, Reroute(session) PROVE PointerInv'
  BY <1>14 DEF Reroute, PointerInv, At
<1>15. QED
  BY <1>1, <1>2, <1>3, <1>4, <1>5, <1>6, <1>7, <1>9, <1>10, <1>11, <1>12, <1>13, <1>14
     DEF TeamNext, MailNext, teamVars

\* However publication and delivery are tried again after lost answers, failed saves,
\* deaths and losses of power: one pointer at most is queued, a receipt names it, its
\* comment is the first in LIT, and further comments come only from commands whose
\* process died (communication.py ensure_comment and deliver_pointer).
THEOREM AlwaysDeliveredOnce == TeamSpec => []DeliveredOnce
<1>1. ASSUME TeamInit PROVE MailInv
  <2>1. /\ comments = <<>> /\ late = <<>> /\ ledger = [now |-> Absent, maybe |-> {Absent}]
        /\ call = Idle /\ sent = <<>> /\ receipts = {} /\ deaths = 0
    BY <1>1 DEF TeamInit, MailInit, Fresh
  <2>2. comments \in Seq(Bodies \cup {"none"}) /\ Len(comments) = 0 /\ Len(late) = 0
    BY <2>1
  <2>3. CommentInv BY <2>1, <2>2, IdleType DEF CommentInv, At, Idle
  <2>4. Absent.stage = "absent" BY DEF Absent, Stage
  <2>5. PointerInv BY <2>1, <2>4 DEF PointerInv, At, Idle
  <2>6. QED BY <2>3, <2>5 DEF MailInv
<1>2. MailInv /\ [TeamNext]_teamVars => MailInv' BY CommentStep, PointerStep DEF MailInv
<1>3. ASSUME MailInv PROVE DeliveredOnce
  <2>1. Len(comments) <= 1 + deaths BY <1>3 DEF MailInv, CommentInv
  <2>2. CASE sent = <<>> BY <1>3, <2>1, <2>2 DEF MailInv, PointerInv, DeliveredOnce
  <2>3. CASE sent # <<>>
    <3>1. sent = <<sent[1]>> /\ comments # <<>> /\ comments[1] = sent[1][1]
      BY <1>3, <2>3 DEF MailInv, PointerInv
    <3>2. Len(sent) = 1 /\ DOMAIN sent = {1} BY <3>1
    <3>3. QED BY <1>3, <2>1, <3>1, <3>2 DEF MailInv, PointerInv, DeliveredOnce
  <2>4. QED BY <2>2, <2>3
<1>4. QED BY <1>1, <1>2, <1>3, PTL DEF TeamSpec
=============================================================================
