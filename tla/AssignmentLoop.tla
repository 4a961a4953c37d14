--------------------------- MODULE AssignmentLoop ---------------------------
(***************************************************************************)
(* Who may work on what: the loop journal of ops/orchestration/loop.py     *)
(* with its reservations (ownership.py), its admissions and its review     *)
(* ceiling (review_budget.py), over the LIT backlog.                       *)
(*                                                                         *)
(* Every operation of the journal runs under its non-blocking lease, so it *)
(* is one step; the exception is a run's own LIT write (transition), whose *)
(* `phase` module Continuation moves and which keeps the lease meanwhile.  *)
(* People and other sessions change LIT and the pause at any time.         *)
(*                                                                         *)
(* A LIT fingerprint is a hash over a scope that every comment and every   *)
(* update changes for good, so it is kept as the one fact it is compared   *)
(* for: `moved`, the scope differs from what the current grant stands on.  *)
(* What NativeReset models of begin (resets, startup, epochs) is left out: *)
(* it only refuses.                                                        *)
(***************************************************************************)
EXTENDS Naturals, FiniteSets

CONSTANTS Tickets, Goal,    \* the issues of LIT, and the loop's goal ticket
          Relations,        \* <<kind, src, dst>>, kind "child" or "blocks"
          MayBeClosed,      \* the tickets that may be closed when the loop starts
          Gates,            \* the tickets labelled as human review gates
          Records,          \* the reservations anybody asks for
          Arcs, Units,      \* review arcs, and the units of a ticket; "all" is one
          Ceiling,          \* review passes per unit, 5 in the code
          MaxPasses,        \* passes ever completed in one arc
          Environments      \* what happens around the runs: `actors` who act beside
                            \* Buford, what is reserved to begin with, and how many
                            \* grants, changes by others, runs, crashes and
                            \* resolutions there are

\* People and sessions that change LIT, the pause, reviews, owners who reserve and
\* release, clears of the lane, writers of other checkouts, and messages of the team.
AllActors == {"people", "pause", "reviews", "owners", "clears", "writers", "mail"}

ASSUME LoopAssumption ==
    /\ Goal \in Tickets /\ Gates \subseteq Tickets /\ "all" \in Units
    /\ Relations \subseteq {"child", "blocks"} \X Tickets \X Tickets
    /\ MayBeClosed \subseteq Tickets /\ {Ceiling, MaxPasses} \subseteq Nat
    /\ Environments \subseteq [actors : SUBSET AllActors, reserved : SUBSET Records, grants : Nat,
                               changes : Nat, runs : Nat, crashes : Nat, resolutions : Nat]

VARIABLES
    status,         \* LIT: status of each ticket
    holder,         \* LIT: assignee of each ticket: "none", "run" or "other"
    stopped,        \* LIT: tickets labelled with a routing stop
    paused,         \* session-control: repair_paused
    reservations, admission, admissions, completed, quarantine,     \* journal
    unitOf, seen,   \* journal: the unit of each arc, and its passes observed
    moved,          \* does the grant's scope in LIT differ from its fingerprint?
    beside,         \* since a transition's first read: did more than the ticket's
                    \* own progress change?
    phase,          \* a run's effect: "free", "held" (LIT write to come, lease held),
                    \* "written" (lease held), "cleared" (Git commit to come)
    touched,        \* history: others changed the grant's scope since begin, except
                    \* for the ticket's own progress during a transition
    changes,        \* changes by others so far
    around          \* the environment of this behaviour

lit == <<status, holder, stopped>>
journal == <<reservations, admission, admissions, completed, quarantine, unitOf, seen>>
loopVars == <<lit, paused, journal, moved, beside, phase, touched, changes, around>>

-----------------------------------------------------------------------------
(* The backlog graph *)

Closed(S, kinds) == \A r \in Relations : r[1] \in kinds /\ r[2] \in S => r[3] \in S

\* The least set around S that is closed under the relations of these kinds.
Closure(S, kinds) ==
    {t \in Tickets : \A C \in SUBSET Tickets : S \subseteq C /\ Closed(C, kinds) => t \in C}

\* fingerprint covers the ticket, the goal, their parents and prerequisites.
Scope == [t \in Tickets |-> Closure({t, Goal}, {"child", "blocks"})]

Ancestry == [t \in Tickets |-> Closure({t}, {"child"})]
Dependencies == [t \in Tickets |-> Closure({t}, {"child", "blocks"})]

\* A child inherits its parents' blockers.
Prerequisites ==
    [t \in Tickets |-> {r[3] : r \in {q \in Relations : q[1] = "blocks" /\ q[2] \in Ancestry[t]}}]

Children == [t \in Tickets |-> {c \in Tickets : <<"child", c, t>> \in Relations}]

OpenDependencies(t) == {p \in Prerequisites[t] : status[p] # "closed"}

\* excluded_scope: quarantined tickets and everything below or behind them.
Excluded == {t \in Tickets : \E q \in Dependencies[t] : <<q, "all">> \in quarantine}

-----------------------------------------------------------------------------
(* Reservations: records with kind, key, owner, reviewer, worktrees, paths *)
(* and resources; a path is the set of files it names.                     *)

Writes(r) == IF r.kind = "writer" THEN r.paths ELSE {}

\* Mutant: only the same spelling of a path overlaps.
OverlapEqual(left, right) == left \cap right # {}
\* A file lies in a directory of the other side, or a directory in a directory.
Overlap(left, right) == \E p \in left, q \in right : p \subseteq q \/ q \subseteq p

Writers(active) == {r \in active : r.kind = "writer"}

\* conflicts: no reason why c may not join the active reservations.
MayReserve(active, c) ==
    /\ \A o \in active :
         /\ o.key # c.key
         /\ o.worktrees \cap c.worktrees = {}
         /\ ~ Overlap(Writes(o), Writes(c))
         /\ o.resources \cap c.resources = {}
    /\ c.kind = "writer" =>
         /\ c.reviewer # c.owner
         /\ \A w \in Writers(active) : c.reviewer # w.owner /\ c.owner # w.reviewer

\* A path is a file or a directory tree in its one spelling (_paths), so two paths
\* are nested or apart.
ASSUME PathsAreTrees ==
    \A r, o \in Records : \A p \in r.paths, q \in o.paths :
        p \subseteq q \/ q \subseteq p \/ p \cap q = {}

\* What is reserved to begin with was admitted by reserve, like any other record.
ASSUME ReservedWereAdmitted ==
    \A e \in Environments : \A r \in e.reserved : MayReserve(e.reserved \ {r}, r)

\* undeclared: dirty files of a checkout that no reservation of it names.
Undeclared(worktree, dirty) ==
    {f \in dirty : \A r \in reservations : worktree \in r.worktrees => \A p \in r.paths : f \notin p}

Unleased == phase \in {"free", "cleared"}

Reserve(c) ==
    /\ Unleased
    /\ MayReserve(reservations, c)
    /\ reservations' = reservations \cup {c}
    /\ UNCHANGED <<lit, paused, admission, admissions, completed, quarantine, unitOf, seen,
                   moved, beside, phase, touched, changes, around>>

Release(key) ==
    /\ Unleased
    /\ \E r \in reservations : r.key = key
    /\ reservations' = {r \in reservations : r.key # key}
    /\ UNCHANGED <<lit, paused, admission, admissions, completed, quarantine, unitOf, seen,
                   moved, beside, phase, touched, changes, around>>

RecordedWriter(t) == {r \in Writers(reservations) : r.key = t}

-----------------------------------------------------------------------------
(* Admission *)

Preparation == {"artifact-inspection", "test-preparation", "review-context-preparation",
                "environment-work"}
Implementation == Preparation \cup {"implementation"}

\* No grant, and the number of the last one.
NoGrant(id) == [id |-> id, on |-> FALSE, ticket |-> Goal, operations |-> {},
                maintenance |-> FALSE, paused |-> FALSE, reservation |-> {}]

\* The clearances: implementation needs every prerequisite closed; preparation is
\* issued by the native session itself, under the record on which a human gate of
\* the ticket closed, and while none of its gates is open.
Admits(t, operations, byBuford) ==
    IF operations = Implementation
    THEN OpenDependencies(t) = {}
    ELSE LET gates == Prerequisites[t] \cap Gates
         IN byBuford /\ gates # {} /\ gates \cap OpenDependencies(t) = {}

MayBegin(t, unit, operations, maintenance, byBuford) ==
    /\ {a \in admissions : status[a] = "closed"} \subseteq completed
    /\ paused => maintenance
    /\ t \notin Excluded
    /\ <<t, unit>> \notin quarantine
    /\ unit = "all" => \A u \in Units : <<t, u>> \notin quarantine
    /\ Admits(t, operations, byBuford)
    /\ RecordedWriter(t) # {}
    /\ status[t] # "closed"

Begin(t, unit, operations, maintenance, byBuford) ==
    /\ Unleased
    /\ admission.id < around.grants
    /\ MayBegin(t, unit, operations, maintenance, byBuford)
    /\ admission' = [id |-> admission.id + 1, on |-> TRUE, ticket |-> t,
                     operations |-> operations, maintenance |-> maintenance,
                     paused |-> paused, reservation |-> RecordedWriter(t)]
    /\ admissions' = IF operations = Implementation THEN admissions \cup {t} ELSE admissions
    /\ moved' = FALSE /\ touched' = FALSE
    /\ UNCHANGED <<lit, paused, reservations, completed, quarantine, unitOf, seen, beside,
                   phase, changes, around>>

Granted(id) == admission.on /\ admission.id = id

\* clear: the grant names the operation and the tickets, and its writer stands.
Clear(id, operation, tickets) ==
    /\ Granted(id)
    /\ tickets \subseteq {admission.ticket}
    /\ operation \in admission.operations
    /\ RecordedWriter(admission.ticket) = admission.reservation
    /\ admission.reservation # {}

\* _current: and neither LIT nor session-control differs from what it stands on.
Current(id, operation, tickets) ==
    /\ Clear(id, operation, tickets)
    /\ ~ moved
    /\ paused = admission.paused

\* The grant is gone when its ticket completes, a clear is prepared or a new
\* context takes over.
Revoke ==
    /\ admission.on
    /\ admission' = NoGrant(admission.id)
    /\ moved' = FALSE /\ touched' = FALSE

\* What a completed ticket must show: nothing for legacy work, a closeout without
\* an open required obligation for trial work; any other membership holds.
Countable(membership, closeout) ==
    \/ membership = "legacy" /\ closeout = "none"
    \/ membership = "trial" /\ closeout = "discharged"

Complete(t, membership, closeout) ==
    /\ Unleased
    /\ status[t] = "closed" /\ Children[t] = {}
    /\ t \notin completed /\ t \in admissions /\ t \notin Excluded
    /\ Countable(membership, closeout)
    /\ completed' = completed \cup {t}
    /\ IF admission.on /\ admission.ticket = t THEN Revoke
                                               ELSE UNCHANGED <<admission, moved, touched>>
    /\ reservations' = {r \in reservations : r.key # t}
    /\ UNCHANGED <<lit, paused, admissions, quarantine, unitOf, seen, beside, phase, changes, around>>

PrepareClear ==
    /\ Unleased
    /\ Revoke
    /\ UNCHANGED <<lit, paused, reservations, admissions, completed, quarantine, unitOf, seen,
                   beside, phase, changes, around>>

-----------------------------------------------------------------------------
(* Changes of LIT and of session-control by others *)

InScope(t) == admission.on /\ t \in Scope[admission.ticket]

\* Mutant: a label counts as the ticket's own progress.
ProgressOrLabel == {"comment", "close", "take", "drop", "stop"}
\* What a transition takes for the ticket's own progress: comments, status, assignee.
Progress == {"comment", "close", "take", "drop"}

\* Ticket t is changed in LIT by others; a transition may be in progress.
LitChanges(t, change) ==
    LET own == t = admission.ticket /\ change \in Progress
    IN /\ moved' = (moved \/ InScope(t))
       /\ beside' = (beside \/ (~ Unleased /\ InScope(t) /\ ~ own))
       /\ touched' = (touched \/ (InScope(t) /\ ~ (/\ t = admission.ticket
                                                   /\ change \in {"comment", "close", "take", "drop"}
                                                   /\ phase \in {"held", "written"})))

Others(t, change) ==
    /\ changes < around.changes /\ changes' = changes + 1
    /\ LitChanges(t, change)
    /\ change = "close" => status[t] # "closed"
    /\ status' = IF change = "close" THEN [status EXCEPT ![t] = "closed"] ELSE status
    /\ holder' = IF change = "take" THEN [holder EXCEPT ![t] = "other"]
                 ELSE IF change = "drop" THEN [holder EXCEPT ![t] = "none"] ELSE holder
    /\ stopped' = IF change = "stop" THEN stopped \cup {t} ELSE stopped
    /\ UNCHANGED <<paused, journal, phase, around>>

SetPause ==
    /\ changes < around.changes /\ changes' = changes + 1
    /\ paused' = ~ paused
    /\ UNCHANGED <<lit, journal, moved, beside, phase, touched, around>>

-----------------------------------------------------------------------------
(* The review ceiling *)

NoUnit == <<>>

\* Completed passes of a unit over all its arcs.
Passes(key, of, counts) ==
    Cardinality({p \in Arcs \X (1 .. MaxPasses) : of[p[1]] = key /\ p[2] <= counts[p[1]]})

\* evaluate: what the product's reducer says of the findings, against the ceiling.
Quarantines(findings, count) ==
    \/ findings = "stop" \/ count > Ceiling
    \/ findings = "open" /\ count >= Ceiling

\* The earlier stop of the reducer; undisposed or blocking findings, or a pass still
\* to come; nothing left.
Findings == {"stop", "open", "verified"}

\* An arc keeps its unit; by now the product's log holds n complete passes of it.
\* The journal is saved first; then the label and a comment go to LIT, or their
\* command fails.
Review(t, unit, arc, n, findings, written) ==
    /\ Unleased /\ seen[arc] <= n
    /\ unitOf[arc] \in {NoUnit, <<t, unit>>}
    /\ unitOf' = [unitOf EXCEPT ![arc] = <<t, unit>>]
    /\ seen' = [seen EXCEPT ![arc] = n]
    /\ quarantine' = IF Quarantines(findings, Passes(<<t, unit>>, unitOf', seen'))
                     THEN quarantine \cup {<<t, unit>>} ELSE quarantine
    /\ IF written THEN LitChanges(t, "label") /\ UNCHANGED changes
       ELSE /\ changes < around.changes /\ changes' = changes + 1
            /\ UNCHANGED <<moved, beside, touched>>
    /\ UNCHANGED <<lit, paused, reservations, admission, admissions, completed, phase,
                   around>>

-----------------------------------------------------------------------------
LoopInit ==
    /\ \E done \in SUBSET MayBeClosed :
         status = [t \in Tickets |-> IF t \in done THEN "closed" ELSE "open"]
    /\ holder = [t \in Tickets |-> "none"] /\ stopped = {}
    /\ paused = FALSE
    /\ around \in Environments /\ reservations = around.reserved
    /\ admission = NoGrant(0) /\ admissions = {} /\ completed = {}
    /\ quarantine = {} /\ unitOf = [a \in Arcs |-> NoUnit] /\ seen = [a \in Arcs |-> 0]
    /\ moved = FALSE /\ beside = FALSE /\ phase = "free" /\ touched = FALSE /\ changes = 0

\* What Buford, the operators, reviewers and other sessions do.
LoopNext ==
    \/ "owners" \in around.actors /\ \E c \in Records : Reserve(c) \/ Release(c.key)
    \/ \E t \in Tickets, unit \in Units, operations \in {Preparation, Implementation},
          maintenance \in BOOLEAN, byBuford \in BOOLEAN :
            Begin(t, unit, operations, maintenance, byBuford)
    \/ \E t \in Tickets, membership \in {"legacy", "trial", "held"},
          closeout \in {"none", "discharged", "open"} : Complete(t, membership, closeout)
    \/ "clears" \in around.actors /\ PrepareClear
    \/ /\ "people" \in around.actors
       /\ \E t \in Tickets, change \in {"comment", "close", "take", "drop", "stop"} : Others(t, change)
    \/ "pause" \in around.actors /\ SetPause
    \/ /\ "reviews" \in around.actors
       /\ \E t \in Tickets, unit \in Units, arc \in Arcs, findings \in Findings,
             n \in 0 .. MaxPasses, written \in BOOLEAN : Review(t, unit, arc, n, findings, written)
=============================================================================
