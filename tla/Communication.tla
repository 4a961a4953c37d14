---------------------------- MODULE Communication ----------------------------
(***************************************************************************)
(* ops/orchestration/communication.py: processes of the team publish one   *)
(* comment on a LIT issue (ensure_comment) and queue one pointer to it for *)
(* a native session (deliver_pointer), again and again under one operation *)
(* ID.  Both run under the ledger's lease, which refuses a second caller   *)
(* and is freed by the kernel when its holder dies.                        *)
(*                                                                         *)
(* LIT and the queue are commands: they take effect or not, and fail or    *)
(* not.  A command that times out is killed before its caller goes on; one *)
(* whose caller dies lives on.  The routing file names the recipient's     *)
(* session and shares its pause with AssignmentLoop.  Texts are the two    *)
(* things compared: a comment's body, a pointer's comment and session.     *)
(***************************************************************************)
EXTENDS AssignmentLoop, Sequences

CONSTANTS Issue,     \* the LIT issue the comment is on
          Bodies,    \* what callers want to publish under the operation ID
          Sessions   \* native sessions of the recipient

ASSUME MailAssumption == Issue \in Tickets

VARIABLES
    comments,   \* the issue's comments with the operation's marker: their bodies
    late,       \* bodies that commands of dead processes may still add
    route,      \* routing: the recipient's session
    ledger,     \* the pointer's record: [now, maybe] of a stage
    call,       \* the call that holds the lease: [at, body, tried, pointer]
    sent,       \* history: pointers queued
    receipts,   \* history: pointers reported as queued
    deaths      \* processes that died, losses of power

mailVars == <<comments, late, route, ledger, call, sent, receipts, deaths>>

Stage(stage, pointer) == [stage |-> stage, pointer |-> pointer]
Absent == Stage("absent", <<>>)
INSTANCE RecordStore WITH Residue <- Stage("residue", <<>>)

Idle == [at |-> "idle", body |-> "none", tried |-> 0, pointer |-> <<>>]

MailInit ==
    /\ comments = <<>> /\ late = <<>> /\ route = (CHOOSE n \in Sessions : TRUE)
    /\ ledger = Fresh(Absent) /\ call = Idle
    /\ sent = <<>> /\ receipts = {} /\ deaths = 0

At(place) == call.at = place
Goes(place) == call' = [call EXCEPT !.at = place]
Returns == call' = Idle

Loop == UNCHANGED loopVars

-----------------------------------------------------------------------------
(* ensure_comment *)

Ensure(body) ==
    /\ "mail" \in around.actors /\ At("idle")
    /\ call' = [Idle EXCEPT !.at = "read", !.body = body]
    /\ Loop /\ UNCHANGED <<comments, late, route, ledger, sent, receipts, deaths>>

\* A first write when there is no comment; a second when the first failed and, its
\* command having exited, there still is none.
MayWrite(found, tried, failed) == found = 0 /\ (tried = 0 \/ (tried = 1 /\ failed))

\* _carrying, after `tried` writes of which the last one failed or not.  With nothing
\* to write ensure_comment ends: with the one comment of this body, or a hold.
ReadComments ==
    /\ At("read") \/ At("read after failure")
    /\ IF MayWrite(Len(comments), call.tried, At("read after failure"))
       THEN call' = [call EXCEPT !.at = "writing", !.tried = @ + 1]
       ELSE Returns
    /\ Loop /\ UNCHANGED <<comments, late, route, ledger, sent, receipts, deaths>>

\* The export fails, and with it the call.
ExportFails ==
    /\ At("read") \/ At("read after failure")
    /\ Returns
    /\ Loop /\ UNCHANGED <<comments, late, route, ledger, sent, receipts, deaths>>

AddsComment(body) ==
    /\ comments' = Append(comments, body)
    /\ LitChanges(Issue, "comment")
    /\ UNCHANGED <<lit, paused, journal, phase, changes, around>>

\* _write: the comment is added or not, and the command fails or not.
WriteComment(added, failed) ==
    /\ At("writing")
    /\ IF added THEN AddsComment(call.body) ELSE Loop /\ UNCHANGED comments
    /\ Goes(IF failed THEN "read after failure" ELSE "read")
    /\ UNCHANGED <<late, route, ledger, sent, receipts, deaths>>

\* A command whose caller died adds its comment after all.
LateComment ==
    /\ late # <<>> /\ late' = Tail(late)
    /\ AddsComment(Head(late))
    /\ UNCHANGED <<route, ledger, call, sent, receipts, deaths>>

-----------------------------------------------------------------------------
(* deliver_pointer *)

Deliver(comment, session) ==
    /\ "mail" \in around.actors /\ At("idle")
    /\ call' = [Idle EXCEPT !.at = "check", !.pointer = <<comment, session>>]
    /\ Loop /\ UNCHANGED <<comments, late, route, ledger, sent, receipts, deaths>>

\* stored and _admit: the comment, which any caller may claim, is the one in LIT; the
\* recipient's session is routed and not paused.
Admitted(pointer) ==
    /\ comments = <<pointer[1]>>
    /\ ~ paused /\ route = pointer[2]

\* Mutant: an intent that was interrupted is taken up again.
SendableIntended(stage) == stage \in {"absent", "verified", "intended"}

\* Only a pointer that was certainly not queued is queued.
Sendable(stage) == stage \in {"absent", "verified"}

\* The record, if there is one, is of this very pointer.
Matches == /\ ~ Refuses(ledger)
           /\ ledger.now.stage # "absent" => ledger.now.pointer = call.pointer

\* The checks up to the first write; a pointer already queued gets its receipt.
Check ==
    /\ At("check")
    /\ LET ok == Admitted(call.pointer) /\ Matches
       IN IF ok /\ Sendable(ledger.now.stage)
          THEN Goes("intend") /\ UNCHANGED receipts
          ELSE /\ Returns
               /\ receipts' = IF ok /\ ledger.now.stage = "enqueued"
                              THEN receipts \cup {call.pointer} ELSE receipts
    /\ Loop /\ UNCHANGED <<comments, late, route, ledger, sent, deaths>>

\* What atomic_json is asked to save next, at each place that saves.
Saves == Stage(CASE At("intend") -> "intended"
                 [] At("queued") -> "enqueued"
                 [] At("refused") -> "verified"
                 [] OTHER -> "uncertain delivery", call.pointer)

Saving == {"intend", "queued", "refused", "unanswered"}

Saved ==
    /\ call.at \in Saving
    /\ ledger' = Published(ledger, Saves)
    /\ IF At("intend") THEN Goes("queue") ELSE Returns
    /\ receipts' = IF At("queued") THEN receipts \cup {call.pointer} ELSE receipts
    /\ Loop /\ UNCHANGED <<comments, late, route, sent, deaths>>

SaveFails ==
    /\ call.at \in Saving
    /\ ledger' \in Failed(ledger, Saves)
    /\ Returns
    /\ Loop /\ UNCHANGED <<comments, late, route, sent, receipts, deaths>>

\* queue(thread, text): its message ID, QueueFailed, or anything else, queued or not.
Queue(queued, answer) ==
    /\ At("queue")
    /\ answer = "queued" => queued
    /\ answer = "refused" => ~ queued
    /\ sent' = IF queued THEN Append(sent, call.pointer) ELSE sent
    /\ Goes(answer)
    /\ Loop /\ UNCHANGED <<comments, late, route, ledger, receipts, deaths>>

-----------------------------------------------------------------------------
(* Deaths, and routing *)

\* A process dies: a LIT command lives on, a record is left somewhere in its
\* replacement, a pointer was queued or not.
Dies ==
    /\ ~ At("idle") /\ deaths < around.crashes /\ deaths' = deaths + 1
    /\ Returns
    /\ late' = IF At("writing") THEN Append(late, call.body) ELSE late
    /\ IF call.at \in Saving THEN ledger' \in Interrupted(ledger, Saves)
                             ELSE UNCHANGED ledger
    /\ \/ At("queue") /\ sent' = Append(sent, call.pointer)
       \/ UNCHANGED sent
    /\ Loop /\ UNCHANGED <<comments, route, receipts>>

\* When every process is gone, what was not synced may be too.
PowerLoss ==
    /\ deaths < around.crashes /\ deaths' = deaths + 1
    /\ "mail" \in around.actors /\ At("idle")
    /\ ledger' \in AfterPowerLoss(ledger)
    /\ late' = <<>>
    /\ Loop /\ UNCHANGED <<comments, route, call, sent, receipts>>

\* The recipient is reset and routed to another session.
Reroute(session) ==
    /\ "mail" \in around.actors
    /\ changes < around.changes /\ changes' = changes + 1
    /\ route' = session
    /\ UNCHANGED <<lit, paused, journal, moved, beside, phase, touched, around,
                   comments, late, ledger, call, sent, receipts, deaths>>

MailNext ==
    \/ \E body \in Bodies : Ensure(body)
    \/ ReadComments \/ ExportFails
    \/ \E added, failed \in BOOLEAN : WriteComment(added, failed)
    \/ \E comment \in Bodies, session \in Sessions : Deliver(comment, session)
    \/ Check \/ Saved \/ SaveFails
    \/ \E queued \in BOOLEAN, answer \in {"queued", "refused", "unanswered"} :
         Queue(queued, answer)
    \/ Dies
    \/ LateComment
    \/ PowerLoss
    \/ \E session \in Sessions : Reroute(session)

-----------------------------------------------------------------------------
\* However often publication and delivery are tried again after lost answers,
\* failed saves, deaths and losses of power: one pointer at most is queued under an
\* operation ID, a receipt names the pointer that was, its comment is the first one
\* in LIT, and further comments come only from commands whose process died.
DeliveredOnce ==
    /\ Len(sent) <= 1
    /\ \A p \in receipts : sent = <<p>>
    /\ \A i \in DOMAIN sent : comments # <<>> /\ comments[1] = sent[i][1]
    /\ Len(comments) <= 1 + deaths
=============================================================================
