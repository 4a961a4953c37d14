------------------------- MODULE NativeResetProofs -------------------------
(***************************************************************************)
(* Proofs about the context reset, for any number of packages, contexts,   *)
(* messages, turns and tickets and whoever acts.                           *)
(***************************************************************************)
EXTENDS NativeReset, FiniteSetTheorems, TLAPS

JournalFields ==
    {"session", "epoch", "completed", "start", "admitted", "admission", "reset", "requested",
     "pending", "awaiting", "maintenance", "boot", "booted", "receipt", "startup", "measured",
     "intent", "recovered", "failed"}
SupervisorFields == {"phase", "pkg", "old", "inputs", "fresh", "control", "decisions", "close"}
MemoryFields == {"lane", "inputs", "band", "turn", "pkg", "epoch"}
OperationFields == {"kind", "by", "session", "paused"}
SentFields == {"clear", "prompt", "instruction"}

\* A record with these fields.
Has(r, fields) == r = [f \in fields |-> r[f]]

Watched == {"monitoring", "verified", "waiting_release"}
Resetting == {"waiting_idle", "clear_intent", "waiting_title", "prompt_intent", "prompt_refused",
              "waiting_fresh"}
Prompting == {"waiting_title", "prompt_intent", "prompt_refused", "waiting_fresh"}

\* Records are records, numbers are numbers; the lane in the window is the newest.
JournalTypes ==
    /\ Has(jr, JournalFields)
    /\ jr.epoch \in Nat /\ jr.reset \in Nat /\ jr.boot \in Nat /\ jr.failed \in Nat
SupervisorTypes ==
    /\ Has(sup, SupervisorFields) /\ Has(sup.decisions, Turns) /\ sup.pkg \in Nat /\ sup.fresh \in Nat
    /\ sup.phase \in Watched \cup Resetting \cup {"maintenance_recovered"}
    /\ Has(mem, MemoryFields) /\ Has(op, OperationFields) /\ Has(control, {"routed", "paused"})
PackageTypes ==
    /\ \E S : packages \in Seq(S)
    /\ Len(packages) <= MaxPackages
    /\ \A p \in 1 .. Len(packages) : packages[p].born \in 0 .. contexts
LaneTypes ==
    /\ live = contexts /\ contexts \in Contexts /\ turn \in 0 .. MaxTurns
    /\ input \in [Contexts -> Seq(Int)] /\ queued \subseteq Nat \X Nat
    /\ \A c \in Contexts : c > contexts => input[c] = <<>>
    /\ turn # 0 => "ceiling" \in cast
SentTypes ==
    /\ Has(sent, SentFields)
    /\ sent.clear \in [Packages -> Nat] /\ sent.prompt \in [Packages -> Nat]
    /\ sent.instruction \in [Turns -> Nat]
ResetTypes == JournalTypes /\ SupervisorTypes /\ PackageTypes /\ LaneTypes /\ SentTypes

\* Packages p and lanes c that are new since p was sealed and were opened with its prompt.
Genuine ==
    {x \in (1 .. Len(packages)) \X (1 .. contexts) :
        /\ x[2] > packages[x[1]].born /\ x[2] # packages[x[1]].previous
        /\ input[x[2]] # <<>> /\ Head(input[x[2]]) = x[1]}

\* Where the supervisor's step is agrees with the phase on file, and the package on
\* file, or about to be, is an automatic one.
PlaceInv ==
    /\ pc \in {"folded", "instruct", "instructed", "request", "seal", "sealed"} => sup.phase \in Watched
    /\ pc \in {"clear", "cleared"} => sup.phase = "clear_intent"
    /\ pc \in {"queue", "queued"} => sup.phase = "prompt_intent"
    /\ pc \in {"bootstrap", "booting", "acknowledge", "acknowledged"} => sup.phase = "waiting_fresh"
    /\ pc \in {"recover", "recovered"} => sup.phase \in {"waiting_title", "waiting_fresh"}
    /\ sup.phase \notin {"monitoring", "waiting_release"} =>
          sup.pkg \in 1 .. Len(packages) /\ packages[sup.pkg].auto
    /\ pc = "sealed" => mem.pkg \in 1 .. Len(packages) /\ packages[mem.pkg].auto
    /\ pc \in {"recover", "recovered"} => contexts > packages[sup.pkg].born
    /\ pc = "recovered" => ~ jr.intent

Frozen == \A f \in JournalFields \ {"intent"} : jr[f] = grant.jr[f]

\* An operation under the journal's lease works on what it found.
BootInv ==
    /\ op.kind \in {"route", "publish"} =>
          /\ op.by = "operator" \/ (op.by = "supervisor" /\ pc = "booting")
          /\ jr.reset # 0 /\ jr.pending = op.session /\ jr.receipt = 0 /\ <<jr.reset, op.session>> \in Genuine
    /\ op.kind = "publish" => control.routed = op.session
AckInv ==
    op.kind = "acknowledge" =>
        op.by = "supervisor" /\ pc = "acknowledge" /\ jr.reset = sup.pkg /\ jr.boot = sup.pkg
RecoverInv ==
    /\ op.kind \in {"reroute", "recover"} =>
          /\ op.by = "recovery" /\ pc = "recover" /\ grant.on /\ sup = grant.sup /\ Frozen /\ jr.intent
          /\ jr.reset # 0 /\ jr.pending \in {0, grant.session}
    /\ op.kind = "recover" => control.routed = grant.session
OpInv ==
    /\ op = NoOp \/ op.kind \in {"route", "publish", "acknowledge", "reroute", "recover"}
    /\ BootInv /\ AckInv /\ RecoverInv

GrantInv ==
    grant.on => /\ Has(grant.jr, JournalFields) /\ Has(grant.control, {"routed", "paused"})
                /\ ~ grant.jr.intent
                /\ grant.session # 0 /\ grant.sup.phase \in {"waiting_title", "waiting_fresh"}

\* The package of the journal's reset is not yet accepted and later than the failed
\* one; the transfer it waits for, or has made, is the routed one and genuine.
TransferInv ==
    /\ jr.reset = 0 => jr.pending = 0 /\ ~ jr.awaiting
    /\ jr.reset # 0 => /\ jr.reset \in 1 .. Len(packages) /\ jr.reset \notin credited
                       /\ jr.reset > jr.failed
    /\ jr.boot # 0 => <<jr.boot, jr.booted>> \in Genuine
    /\ jr.reset # 0 /\ jr.boot = jr.reset => jr.pending = jr.booted /\ control.routed = jr.pending
    /\ jr.receipt # 0 => jr.receipt = jr.boot /\ jr.receipt \in credited

AdmissionInv ==
    /\ jr.admission # "none" => /\ jr.reset = 0 /\ control.routed = jr.session
                                /\ jr.maintenance => jr.admission = "maintenance"
    /\ jr.admission \in {"none", "production", "maintenance"}

HeldInv ==
    /\ jr.failed <= Len(packages)
    /\ jr.failed # 0 /\ (\A p \in credited : packages[p].auto => p <= jr.failed) => jr.maintenance

\* Every epoch was earned by one package.
CreditInv ==
    /\ IsFiniteSet(credited) /\ jr.epoch = Cardinality(credited)
    /\ credited \subseteq 1 .. Len(packages)
    /\ sup.phase = "verified" \/ pc = "acknowledged" => sup.pkg \in credited

EarnedInv ==
    \A p \in credited : /\ \E c \in 1 .. contexts : <<p, c>> \in Genuine
                        /\ packages[p].auto => sent.clear[p] = 1 /\ sent.prompt[p] = 1

\* What has been typed and queued for the package in hand.
SentInv ==
    /\ \A p \in Packages : /\ sent.clear[p] <= 1 /\ sent.prompt[p] <= 1
                           /\ p > Len(packages) => sent.clear[p] = 0 /\ sent.prompt[p] = 0
    /\ pc = "sealed" => sent.clear[mem.pkg] = 0 /\ sent.prompt[mem.pkg] = 0
    /\ sup.phase = "waiting_idle" \/ pc = "clear" => sent.clear[sup.pkg] = 0
    /\ sup.phase \in Resetting \ {"prompt_intent", "waiting_fresh"} \/ pc = "queue" =>
          sent.prompt[sup.pkg] = 0
    /\ sup.phase \in Prompting \/ pc = "cleared" => sent.clear[sup.pkg] = 1
    /\ sup.phase = "waiting_fresh" \/ pc = "queued" => sent.prompt[sup.pkg] = 1

\* An instruction was given for the last turn, and the lane that ended it is idle.
Spent == turn # 0 /\ sent.instruction[turn] # 0 /\ Idle(live)

\* Decisions are forgotten with a reset, but only a new lane is decided on again, and
\* that has not ended a turn yet.
TurnInv ==
    /\ \A t \in Turns : sent.instruction[t] <= 1 /\ (t > turn => sent.instruction[t] = 0)
    /\ pc = "instruct" => /\ mem.turn \in 1 .. turn /\ sent.instruction[mem.turn] = 0
                          /\ sup.decisions[mem.turn] = "intent"
    /\ pc = "instructed" => mem.turn \in 1 .. turn
    /\ sup.phase \in Resetting \cup {"maintenance_recovered"} =>
          \A t \in Turns : sup.decisions[t] = "none"
    /\ Spent /\ pc = "sealed" => contexts = packages[mem.pkg].born
    /\ Spent => \/ sup.decisions[turn] # "none"
                \/ sup.phase \in Resetting /\ contexts = packages[sup.pkg].born

ResetInv == /\ ResetTypes /\ PlaceInv /\ OpInv /\ GrantInv /\ TransferInv /\ AdmissionInv /\ HeldInv
            /\ RoutingExplained /\ CreditInv /\ EarnedInv /\ SentInv /\ TurnInv

-----------------------------------------------------------------------------
(* Steps of the supervisor that leave the journal alone *)

journal == <<jr, control, packages, grant, op, credited>>
lane == <<live, contexts, input, busy, turn, cast>>

\* The parts of the invariant that such a step can disturb.
SupervisorKept == /\ SupervisorTypes' /\ SentTypes' /\ PlaceInv' /\ OpInv' /\ CreditInv' /\ EarnedInv'
                  /\ SentInv' /\ TurnInv'

\* A supervisor step leaves a journal operation of its own, or of somebody else, where it was.
LEMMA OperationsKept ==
    ASSUME ResetInv, UNCHANGED journal, UNCHANGED lane,
           pc \in {"booting", "acknowledge", "recover"} => pc' = pc /\ sup' = sup
    PROVE  OpInv'
<1>1. Genuine' = Genuine
  BY DEF journal, lane, Genuine
<1>2. QED BY <1>1 DEF ResetInv, journal, OpInv, BootInv, AckInv, RecoverInv, Frozen

\* A step that sends nothing and credits nothing keeps what epochs were earned by.
LEMMA CreditKept ==
    ASSUME ResetInv, UNCHANGED journal, UNCHANGED lane, sent' = sent,
           sup'.phase = "verified" \/ pc' = "acknowledged" => sup'.pkg \in credited
    PROVE  CreditInv' /\ EarnedInv'
<1>1. Genuine' = Genuine
  BY DEF journal, lane, Genuine
<1>2. QED BY <1>1 DEF ResetInv, journal, lane, CreditInv, EarnedInv

\* So does one that sends for a package that is not yet credited.
LEMMA SendKept ==
    ASSUME ResetInv, UNCHANGED journal, UNCHANGED lane, sup'.pkg = sup.pkg,
           sup'.phase = "verified" \/ pc' = "acknowledged" => sup.phase = "verified",
           \A p \in credited : packages[p].auto =>
               sent'.clear[p] = sent.clear[p] /\ sent'.prompt[p] = sent.prompt[p]
    PROVE  CreditInv' /\ EarnedInv'
<1>1. Genuine' = Genuine
  BY DEF journal, lane, Genuine
<1>2. QED BY <1>1 DEF ResetInv, journal, lane, CreditInv, EarnedInv

\* Packages in hand are packages.
LEMMA InHand ==
    ASSUME ResetInv
    PROVE  /\ \A p \in 1 .. Len(packages) : p \in Packages
           /\ \A t \in 1 .. turn : t \in Turns
BY ResetAssumption DEF ResetInv, ResetTypes, PackageTypes, LaneTypes, Packages, Turns

\* Steps that only move on: nothing is filed or sent.
LEMMA PassingKeeps ==
    ASSUME ResetInv, UNCHANGED cast,
           FoldSkip \/ PrepareChecks \/ StepReturns \/ StepBootstrap \/ PublishReceipt
    PROVE  SupervisorKept /\ UNCHANGED journal /\ UNCHANGED lane /\ UNCHANGED queued
<1> USE DEF Has, SupervisorFields, MemoryFields, Watched, Resetting, Prompting
<1>1. SupervisorTypes /\ SentTypes /\ PlaceInv /\ CreditInv /\ SentInv /\ TurnInv
  BY DEF ResetInv, ResetTypes
<1>2. UNCHANGED journal /\ UNCHANGED lane /\ UNCHANGED <<sup, sent, queued>>
  BY DEF FoldSkip, PrepareChecks, StepReturns, StepBootstrap, PublishReceipt, journal, lane, native
<1>3. /\ \/ pc = "idle" /\ sup.phase \in Watched /\ pc' = "folded"
         \/ pc = "folded" /\ pc' \in {"seal", "idle"}
         \/ pc = "idle" /\ sup.phase = "waiting_fresh" /\ pc' \in {"bootstrap", "acknowledge"}
      /\ Has(mem', MemoryFields)
  BY <1>1 DEF FoldSkip, PrepareChecks, StepReturns, StepBootstrap, PublishReceipt, Watching,
     Published, NoMem,
     SupervisorTypes
<1>4. SupervisorTypes' /\ SentTypes' /\ PlaceInv'
  BY <1>1, <1>2, <1>3 DEF SupervisorTypes, SentTypes, PlaceInv, journal, lane
<1>5. OpInv'
  BY <1>2, <1>3, OperationsKept
<1>6. CreditInv' /\ EarnedInv'
  BY <1>1, <1>2, <1>3, CreditKept DEF CreditInv
<1>7. SentInv' /\ TurnInv'
  BY <1>1, <1>2, <1>3 DEF SentInv, TurnInv, Spent, Idle, journal, lane
<1>8. QED BY <1>2, <1>4, <1>5, <1>6, <1>7 DEF SupervisorKept

\* The ceiling's decision and its instruction.
LEMMA DecisionKeeps ==
    ASSUME ResetInv, UNCHANGED cast,
           \/ \E band \in {"under", "finish", "close"} : FoldDecide(band)
           \/ \E effect, ack \in BOOLEAN : Instruct(effect, ack)
           \/ Instructed
    PROVE  SupervisorKept /\ UNCHANGED journal /\ UNCHANGED lane /\ UNCHANGED queued
<1> USE DEF Has, SupervisorFields, MemoryFields, SentFields, Watched, Resetting, Prompting
<1>1. SupervisorTypes /\ SentTypes /\ LaneTypes /\ PlaceInv /\ CreditInv /\ SentInv /\ TurnInv
  BY DEF ResetInv, ResetTypes
<1>2. UNCHANGED journal /\ UNCHANGED lane /\ UNCHANGED queued
  BY DEF FoldDecide, Instruct, Instructed, journal, lane, native
<1>3. /\ pc' \in {"folded", "instruct", "request", "instructed", "idle"}
      /\ sup'.phase = sup.phase /\ sup'.pkg = sup.pkg /\ sup.phase \in Watched
      /\ sent'.clear = sent.clear /\ sent'.prompt = sent.prompt
      /\ pc \notin {"booting", "acknowledge", "recover"}
  BY <1>1 DEF FoldDecide, Instruct, Instructed, Watching, AfterInstruction, SupervisorTypes,
     SentTypes, PlaceInv
<1>4. SupervisorTypes' /\ SentTypes'
  <2>1. ASSUME NEW band \in {"under", "finish", "close"}, FoldDecide(band)
        PROVE  SupervisorTypes' /\ SentTypes'
    <3>1. Has(sup', SupervisorFields) /\ sup'.fresh = sup.fresh
      BY <1>1, <2>1 DEF FoldDecide, SupervisorTypes
    <3>2. Has(sup'.decisions, Turns)
      BY <1>1, <2>1 DEF FoldDecide, SupervisorTypes
    <3>3. Has(mem', MemoryFields) /\ sent' = sent
      BY <2>1 DEF FoldDecide, NoMem
    <3>4. QED BY <1>1, <1>2, <1>3, <3>1, <3>2, <3>3 DEF SupervisorTypes, SentTypes, journal
  <2>2. ASSUME NEW effect, NEW ack, Instruct(effect, ack) PROVE SupervisorTypes' /\ SentTypes'
    <3>1. Has(sup', SupervisorFields) /\ sup'.fresh = sup.fresh /\ mem' = mem
      BY <1>1, <2>2 DEF Instruct, SupervisorTypes
    <3>2. Has(sup'.decisions, Turns)
      BY <1>1, <2>2 DEF Instruct, SupervisorTypes
    <3>3. Has(sent', SentFields)
      BY <1>1, <2>2 DEF Instruct, SentTypes
    <3>4. sent'.instruction \in [Turns -> Nat]
      BY <1>1, <2>2 DEF Instruct, SentTypes
    <3>5. QED BY <1>1, <1>2, <1>3, <3>1, <3>2, <3>3, <3>4 DEF SupervisorTypes, SentTypes, journal
  <2>3. CASE Instructed
    <3>1. Has(sup', SupervisorFields) /\ sup'.fresh = sup.fresh /\ mem' = mem /\ sent' = sent
      BY <1>1, <2>3 DEF Instructed, SupervisorTypes
    <3>2. Has(sup'.decisions, Turns)
      BY <1>1, <2>3 DEF Instructed, SupervisorTypes
    <3>3. QED BY <1>1, <1>2, <1>3, <3>1, <3>2 DEF SupervisorTypes, SentTypes, journal
  <2>4. QED BY <2>1, <2>2, <2>3
<1>5. PlaceInv' /\ SentInv'
  BY <1>1, <1>2, <1>3 DEF PlaceInv, SentInv, journal, lane
<1>6. OpInv'
  BY <1>2, <1>3, OperationsKept
<1>7. CreditInv' /\ EarnedInv'
  BY <1>2, <1>3, SendKept
<1>8. TurnInv'
  <2>1. ASSUME NEW band \in {"under", "finish", "close"}, FoldDecide(band) PROVE TurnInv'
    <3>1. turn \in 1 .. turn /\ turn \in Turns
      BY <1>1, <2>1, InHand DEF FoldDecide, LaneTypes
    <3>2. sent.instruction[turn] = 0 /\ sent' = sent
      <4>1. ~ Spent
        BY <1>1, <1>3, <2>1 DEF FoldDecide, Undecided, TurnInv
      <4>2. QED BY <1>1, <2>1, <3>1, <4>1 DEF FoldDecide, Spent, SentTypes
    <3>3. mem'.turn = turn /\ mem'.pkg = 0
      BY <2>1 DEF FoldDecide, NoMem
    <3>4. /\ sup'.decisions[turn] \in {"decided", "intent"} /\ (pc' = "instruct" => sup'.decisions[turn] = "intent")
          /\ pc' \in {"folded", "instruct"}
      BY <1>1, <2>1, <3>1 DEF FoldDecide, SupervisorTypes
    <3>5. QED BY <1>1, <1>2, <1>3, <3>1, <3>2, <3>3, <3>4 DEF TurnInv, Spent, Idle, journal, lane
  <2>2. ASSUME NEW effect, NEW ack, Instruct(effect, ack) PROVE TurnInv'
    <3>1. /\ mem.turn \in 1 .. turn /\ mem.turn \in Turns /\ mem' = mem
          /\ sup.decisions[mem.turn] = "intent" /\ sent.instruction[mem.turn] = 0
          /\ pc' \in {"instructed", "idle", "request", "folded"}
      BY <1>1, <2>2, InHand DEF Instruct, TurnInv, AfterInstruction
    <3>2. CASE sup' = sup /\ sent'.instruction \in {sent.instruction, [sent.instruction EXCEPT ![mem.turn] = @ + 1]}
      <4>1. \A t \in Turns : sent'.instruction[t] = sent.instruction[t] \/ (t = mem.turn /\ sent'.instruction[t] = 1)
        BY <1>1, <3>1, <3>2 DEF SentTypes
      <4>2. \A t \in Turns : sent'.instruction[t] <= 1 /\ (t > turn => sent'.instruction[t] = 0)
        BY <1>1, <3>1, <4>1 DEF TurnInv, LaneTypes
      <4>3. Spent' => turn # 0 /\ Idle(live)
        BY <1>2 DEF Spent, Idle, lane
      <4>4. Spent' => sup.decisions[turn] # "none"
        <5>1. CASE turn = mem.turn
          BY <3>1, <5>1
        <5>2. CASE turn # mem.turn /\ Spent'
          <6>1. turn \in Turns
            BY <1>1, <4>3, <5>2, InHand DEF LaneTypes
          <6>2. sent.instruction[turn] # 0
            BY <1>2, <4>1, <5>2, <6>1 DEF Spent, lane
          <6>3. QED BY <1>1, <1>3, <4>3, <5>2, <6>2 DEF TurnInv, Spent
        <5>3. QED BY <5>1, <5>2
      <4>5. QED BY <1>1, <1>2, <1>3, <3>1, <3>2, <4>2, <4>4 DEF TurnInv, journal, lane
    <3>3. CASE sup'.decisions = [sup.decisions EXCEPT ![mem.turn] = "refused"] /\ sent' = sent
      BY <1>1, <1>2, <1>3, <3>1, <3>3 DEF TurnInv, Spent, Idle, LaneTypes, SupervisorTypes,
         journal, lane
    <3>4. QED BY <1>1, <2>2, <3>2, <3>3 DEF Instruct, SupervisorTypes, SentTypes
  <2>3. CASE Instructed
    <3>1. /\ mem.turn \in 1 .. turn /\ mem.turn \in Turns /\ mem' = mem /\ sent' = sent
          /\ sup'.decisions = [sup.decisions EXCEPT ![mem.turn] = "instructed"]
          /\ pc' \in {"request", "folded"}
      BY <1>1, <2>3, InHand DEF Instructed, TurnInv, AfterInstruction, SupervisorTypes
    <3>2. QED BY <1>1, <1>2, <1>3, <3>1 DEF TurnInv, Spent, Idle, LaneTypes, SupervisorTypes,
                 journal, lane
  <2>4. QED BY <2>1, <2>2, <2>3
<1>9. QED BY <1>2, <1>4, <1>5, <1>6, <1>7, <1>8 DEF SupervisorKept

\* A reset is put off until the lane is released.
LEMMA PrepareWaitsKeeps ==
    ASSUME ResetInv, UNCHANGED cast, PrepareWaits
    PROVE  SupervisorKept /\ UNCHANGED journal /\ UNCHANGED lane /\ UNCHANGED queued
<1> USE DEF Has, SupervisorFields, MemoryFields, Watched, Resetting, Prompting
<1>1. SupervisorTypes /\ SentTypes /\ LaneTypes /\ PlaceInv /\ SentInv /\ TurnInv
  BY DEF ResetInv, ResetTypes
<1>2. UNCHANGED journal /\ UNCHANGED lane /\ UNCHANGED <<sent, queued>>
  BY DEF PrepareWaits, journal, lane, native
<1>3. /\ pc = "folded" /\ pc' = "idle" /\ sup.phase \in Watched
      /\ sup'.phase = "waiting_release" /\ sup'.pkg = 0 /\ sup'.fresh = 0
      /\ sup'.decisions = sup.decisions /\ Has(sup', SupervisorFields) /\ Has(mem', MemoryFields)
  BY <1>1 DEF PrepareWaits, Monitoring, NoMem, PlaceInv
<1>4. SupervisorTypes' /\ SentTypes'
  BY <1>1, <1>2, <1>3 DEF SupervisorTypes, SentTypes, journal
<1>5. PlaceInv' /\ SentInv'
  BY <1>1, <1>2, <1>3 DEF PlaceInv, SentInv, journal, lane
<1>6. OpInv'
  BY <1>2, <1>3, OperationsKept
<1>7. CreditInv' /\ EarnedInv'
  BY <1>2, <1>3, CreditKept
<1>8. TurnInv'
  BY <1>1, <1>2, <1>3 DEF TurnInv, Spent, Idle, journal, lane
<1>9. QED BY <1>2, <1>4, <1>5, <1>6, <1>7, <1>8 DEF SupervisorKept

\* The supervisor files the package it has sealed.
LEMMA SavePreparedKeeps ==
    ASSUME ResetInv, UNCHANGED cast, SavePrepared
    PROVE  SupervisorKept /\ UNCHANGED journal /\ UNCHANGED lane /\ UNCHANGED queued
<1> USE DEF Has, SupervisorFields, MemoryFields, Watched, Resetting, Prompting
<1>1. SupervisorTypes /\ SentTypes /\ LaneTypes /\ PlaceInv /\ SentInv /\ TurnInv
  BY DEF ResetInv, ResetTypes
<1>2. UNCHANGED journal /\ UNCHANGED lane /\ UNCHANGED <<sent, queued>>
  BY DEF SavePrepared, journal, lane, native
<1>3. /\ pc = "sealed" /\ pc' = "idle" /\ sup.phase \in Watched
      /\ mem.pkg \in 1 .. Len(packages) /\ packages[mem.pkg].auto
  BY <1>1 DEF SavePrepared, PlaceInv
<1>4. /\ sup'.phase = "waiting_idle" /\ sup'.pkg = mem.pkg /\ sup'.fresh = 0
      /\ sup'.decisions = [t \in Turns |-> "none"]
      /\ Has(sup', SupervisorFields) /\ Has(mem', MemoryFields)
  BY DEF SavePrepared, Monitoring, NoMem
<1>5. mem.pkg \in Nat
  BY <1>3
<1>6. SupervisorTypes' /\ SentTypes'
  BY <1>1, <1>2, <1>4, <1>5 DEF SupervisorTypes, SentTypes, journal
<1>7. PlaceInv'
  BY <1>1, <1>2, <1>3, <1>4 DEF PlaceInv, journal, lane
<1>8. SentInv'
  BY <1>1, <1>2, <1>3, <1>4 DEF SentInv, journal, lane
<1>9. OpInv'
  BY <1>2, <1>3, OperationsKept
<1>10. CreditInv' /\ EarnedInv'
  BY <1>2, <1>3, <1>4, CreditKept
<1>11. TurnInv'
  <2>1. Spent' = Spent
    BY <1>2 DEF Spent, Idle, lane
  <2>2. QED BY <1>1, <1>2, <1>3, <1>4, <2>1 DEF TurnInv, journal, lane
<1>12. QED BY <1>2, <1>6, <1>7, <1>8, <1>9, <1>10, <1>11 DEF SupervisorKept

\* The outgoing lane signs its release, which ends a recovery.
LEMMA ReleaseKeeps ==
    ASSUME ResetInv, UNCHANGED cast, Release
    PROVE  SupervisorKept /\ UNCHANGED journal /\ UNCHANGED lane /\ UNCHANGED queued
<1> USE DEF Has, SupervisorFields, Watched, Resetting, Prompting
<1>1. SupervisorTypes /\ SentTypes /\ LaneTypes /\ PlaceInv /\ SentInv /\ TurnInv /\ CreditInv
  BY DEF ResetInv, ResetTypes
<1>2. UNCHANGED journal /\ UNCHANGED lane /\ UNCHANGED <<sent, queued, pc, mem>>
  BY DEF Release, journal, lane, native
<1>3. CASE sup' = sup
  <2>1. OpInv' /\ CreditInv' /\ EarnedInv'
    BY <1>1, <1>2, <1>3, OperationsKept, CreditKept DEF CreditInv
  <2>2. SupervisorTypes' /\ SentTypes' /\ PlaceInv' /\ SentInv'
    BY <1>1, <1>2, <1>3 DEF SupervisorTypes, SentTypes, PlaceInv, SentInv, journal, lane
  <2>3. TurnInv'
    BY <1>1, <1>2, <1>3 DEF TurnInv, Spent, Idle, journal, lane
  <2>4. QED BY <1>2, <2>1, <2>2, <2>3 DEF SupervisorKept
<1>4. CASE sup.phase = "maintenance_recovered" /\ sup' = Monitoring
  <2>1. /\ sup'.phase = "monitoring" /\ sup'.pkg = 0 /\ sup'.fresh = 0
        /\ sup'.decisions = [t \in Turns |-> "none"] /\ Has(sup', SupervisorFields)
    BY <1>4 DEF Monitoring
  <2>2. pc \notin {"folded", "instruct", "instructed", "request", "seal", "sealed", "clear", "cleared", "queue",
                   "queued", "bootstrap", "booting", "acknowledge", "acknowledged", "recover", "recovered"}
    BY <1>1, <1>4 DEF PlaceInv
  <2>3. OpInv'
    BY <1>2, <2>2, OperationsKept
  <2>4. CreditInv' /\ EarnedInv'
    BY <1>2, <2>1, <2>2, CreditKept
  <2>5. SupervisorTypes' /\ SentTypes' /\ PlaceInv' /\ SentInv'
    BY <1>1, <1>2, <2>1, <2>2 DEF SupervisorTypes, SentTypes, PlaceInv, SentInv, journal, lane
  <2>6. ~ Spent
    BY <1>1, <1>4, InHand DEF TurnInv, Spent, LaneTypes
  <2>7. ~ Spent'
    BY <1>2, <2>6 DEF Spent, Idle, lane
  <2>8. TurnInv'
    BY <1>1, <1>2, <2>1, <2>2, <2>7 DEF TurnInv, journal, lane
  <2>9. QED BY <1>2, <2>3, <2>4, <2>5, <2>8 DEF SupervisorKept
<1>5. QED BY <1>3, <1>4 DEF Release

\* The filed package moves on from phase to phase without native input.
LEMMA PhaseKeeps ==
    ASSUME ResetInv, UNCHANGED cast, ClearIntent \/ Cleared \/ PromptIntent \/ Queued
    PROVE  SupervisorKept /\ UNCHANGED journal /\ UNCHANGED lane /\ UNCHANGED queued
<1> USE DEF Has, SupervisorFields, Watched, Resetting, Prompting
<1>1. SupervisorTypes /\ SentTypes /\ LaneTypes /\ PlaceInv /\ SentInv /\ TurnInv
  BY DEF ResetInv, ResetTypes
<1>2. UNCHANGED journal /\ UNCHANGED lane /\ UNCHANGED <<sent, queued, mem>>
  BY DEF ClearIntent, Cleared, PromptIntent, Queued, journal, lane, native
<1>3. /\ \/ pc = "idle" /\ sup.phase = "waiting_idle" /\ pc' = "clear" /\ sup'.phase = "clear_intent"
         \/ pc = "cleared" /\ sup.phase = "clear_intent" /\ pc' = "idle" /\ sup'.phase = "waiting_title"
         \/ /\ pc = "idle" /\ sup.phase \in {"waiting_title", "prompt_refused"} /\ pc' = "queue"
            /\ sup'.phase = "prompt_intent"
         \/ pc = "queued" /\ sup.phase = "prompt_intent" /\ pc' = "idle" /\ sup'.phase = "waiting_fresh"
      /\ sup'.pkg = sup.pkg /\ sup'.decisions = sup.decisions /\ Has(sup', SupervisorFields)
  <2>1. CASE ClearIntent
    BY <1>1, <2>1 DEF ClearIntent, MayClear, SupervisorTypes
  <2>2. CASE Cleared
    BY <1>1, <2>2 DEF Cleared, PlaceInv, SupervisorTypes
  <2>3. CASE PromptIntent
    BY <1>1, <2>3 DEF PromptIntent, MayPrompt, SupervisorTypes
  <2>4. CASE Queued
    BY <1>1, <2>4 DEF Queued, PlaceInv, SupervisorTypes
  <2>5. QED BY <2>1, <2>2, <2>3, <2>4
<1>4. sup'.fresh \in Nat
  <2>1. Context(sup.pkg) \in Nat
    BY <1>1 DEF Context, LaneTypes, Contexts
  <2>2. QED BY <1>1, <2>1 DEF ClearIntent, Cleared, PromptIntent, Queued, SupervisorTypes
<1>5. SupervisorTypes' /\ SentTypes'
  BY <1>1, <1>2, <1>3, <1>4 DEF SupervisorTypes, SentTypes, journal
<1>6. PlaceInv'
  BY <1>1, <1>2, <1>3 DEF PlaceInv, journal, lane
<1>7. SentInv'
  BY <1>1, <1>2, <1>3 DEF SentInv, journal, lane
<1>8. OpInv'
  BY <1>2, <1>3, OperationsKept
<1>9. CreditInv' /\ EarnedInv'
  BY <1>2, <1>3, CreditKept
<1>10. TurnInv'
  <2>1. Spent' = Spent
    BY <1>2 DEF Spent, Idle, lane
  <2>2. QED BY <1>1, <1>2, <1>3, <2>1 DEF TurnInv, journal, lane
<1>11. QED BY <1>2, <1>5, <1>6, <1>7, <1>8, <1>9, <1>10 DEF SupervisorKept

\* The clear keys are typed.
LEMMA ClearKeeps ==
    ASSUME ResetInv, UNCHANGED cast, NEW effect, NEW ack, Clear(effect, ack)
    PROVE  SupervisorKept /\ UNCHANGED journal /\ UNCHANGED lane /\ UNCHANGED queued
<1> USE DEF Has, SentFields, Watched, Resetting, Prompting
<1>1. SupervisorTypes /\ SentTypes /\ LaneTypes /\ PlaceInv /\ SentInv /\ TurnInv /\ EarnedInv
  BY DEF ResetInv, ResetTypes
<1>2. UNCHANGED journal /\ UNCHANGED lane /\ UNCHANGED <<sup, mem, queued>>
  BY DEF Clear, journal, lane
<1>3. /\ pc = "clear" /\ sup.phase = "clear_intent" /\ sup.pkg \in 1 .. Len(packages)
      /\ packages[sup.pkg].auto /\ sup.pkg \in Packages
      /\ sent.clear[sup.pkg] = 0 /\ sent.prompt[sup.pkg] = 0
  BY <1>1, InHand DEF Clear, PlaceInv, SentInv
<1>4. /\ Has(sent', SentFields) /\ sent'.prompt = sent.prompt /\ sent'.instruction = sent.instruction
      /\ \/ sent'.clear = sent.clear /\ pc' = "idle"
         \/ sent'.clear = [sent.clear EXCEPT ![sup.pkg] = @ + 1] /\ pc' \in {"idle", "cleared"}
  BY <1>1 DEF Clear, SentTypes
<1>5. /\ sent'.clear \in [Packages -> Nat]
      /\ \A p \in Packages : p # sup.pkg => sent'.clear[p] = sent.clear[p]
      /\ sent'.clear[sup.pkg] <= 1 /\ (pc' = "cleared" => sent'.clear[sup.pkg] = 1)
  BY <1>1, <1>3, <1>4 DEF SentTypes
<1>6. SupervisorTypes' /\ SentTypes'
  BY <1>1, <1>2, <1>4, <1>5 DEF SupervisorTypes, SentTypes, journal
<1>7. PlaceInv'
  BY <1>1, <1>2, <1>3, <1>4 DEF PlaceInv, journal, lane
<1>8. SentInv'
  BY <1>1, <1>2, <1>3, <1>4, <1>5 DEF SentInv, journal, lane
<1>9. OpInv'
  BY <1>2, <1>3, OperationsKept
<1>10. CreditInv' /\ EarnedInv'
  <2>1. sup.pkg \notin credited
    BY <1>1, <1>3 DEF EarnedInv
  <2>2. credited \subseteq Packages
    BY InHand DEF ResetInv, CreditInv
  <2>3. QED BY <1>2, <1>3, <1>4, <1>5, <2>1, <2>2, SendKept
<1>11. TurnInv'
  <2>1. Spent' = Spent
    BY <1>2, <1>4 DEF Spent, Idle, lane
  <2>2. QED BY <1>1, <1>2, <1>3, <1>4, <2>1 DEF TurnInv, journal, lane
<1>12. QED BY <1>2, <1>6, <1>7, <1>8, <1>9, <1>10, <1>11 DEF SupervisorKept

\* The prompt is queued, or refused before that.
LEMMA QueueKeeps ==
    ASSUME ResetInv, UNCHANGED cast, NEW effect, NEW ack, Queue(effect, ack)
    PROVE  SupervisorKept /\ UNCHANGED journal /\ UNCHANGED lane /\ queued' \subseteq Nat \X Nat
<1> USE DEF Has, SentFields, SupervisorFields, Watched, Resetting, Prompting
<1>1. SupervisorTypes /\ SentTypes /\ LaneTypes /\ PlaceInv /\ SentInv /\ TurnInv /\ EarnedInv
  BY DEF ResetInv, ResetTypes
<1>2. UNCHANGED journal /\ UNCHANGED lane /\ UNCHANGED mem
  BY DEF Queue, journal, lane
<1>3. /\ pc = "queue" /\ sup.phase = "prompt_intent" /\ sup.pkg \in 1 .. Len(packages)
      /\ packages[sup.pkg].auto /\ sup.pkg \in Packages
      /\ sent.clear[sup.pkg] = 1 /\ sent.prompt[sup.pkg] = 0
  BY <1>1, InHand DEF Queue, PlaceInv, SentInv
<1>4. queued' \subseteq Nat \X Nat
  BY <1>1 DEF Queue, LaneTypes, SupervisorTypes
<1>5. /\ Has(sent', SentFields) /\ sent'.clear = sent.clear /\ sent'.instruction = sent.instruction
      /\ \/ sent'.prompt = sent.prompt /\ pc' = "idle"
         \/ sent'.prompt = [sent.prompt EXCEPT ![sup.pkg] = @ + 1] /\ pc' \in {"idle", "queued"} /\ sup' = sup
  BY <1>1 DEF Queue, Unacknowledged, SentTypes
<1>6. /\ sup'.pkg = sup.pkg /\ sup'.fresh = sup.fresh /\ sup'.decisions = sup.decisions
      /\ Has(sup', SupervisorFields)
      /\ sup'.phase = "prompt_intent" \/ (sup'.phase = "prompt_refused" /\ sent' = sent /\ pc' = "idle")
  BY <1>1, <1>3 DEF Queue, Unacknowledged, SupervisorTypes
<1>7. /\ sent'.prompt \in [Packages -> Nat]
      /\ \A p \in Packages : p # sup.pkg => sent'.prompt[p] = sent.prompt[p]
      /\ sent'.prompt[sup.pkg] <= 1 /\ (pc' = "queued" => sent'.prompt[sup.pkg] = 1)
  <2>1. CASE sent'.prompt = sent.prompt /\ pc' = "idle"
    BY <1>1, <1>3, <2>1 DEF SentTypes
  <2>2. CASE sent'.prompt = [sent.prompt EXCEPT ![sup.pkg] = @ + 1]
    BY <1>1, <1>3, <2>2 DEF SentTypes
  <2>3. QED BY <1>5, <2>1, <2>2
<1>8. SupervisorTypes' /\ SentTypes'
  BY <1>1, <1>2, <1>5, <1>6, <1>7 DEF SupervisorTypes, SentTypes, journal
<1>9. PlaceInv'
  BY <1>1, <1>2, <1>3, <1>5, <1>6 DEF PlaceInv, journal, lane
<1>10. SentInv'
  BY <1>1, <1>2, <1>3, <1>5, <1>6, <1>7 DEF SentInv, journal, lane
<1>11. OpInv'
  BY <1>2, <1>3, OperationsKept
<1>12. CreditInv' /\ EarnedInv'
  <2>1. sup.pkg \notin credited
    BY <1>1, <1>3 DEF EarnedInv
  <2>2. credited \subseteq Packages
    BY InHand DEF ResetInv, CreditInv
  <2>3. QED BY <1>2, <1>3, <1>5, <1>6, <1>7, <2>1, <2>2, SendKept
<1>13. TurnInv'
  <2>1. Spent' = Spent
    BY <1>2, <1>5 DEF Spent, Idle, lane
  <2>2. QED BY <1>1, <1>2, <1>3, <1>5, <1>6, <2>1 DEF TurnInv, journal, lane
<1>14. QED BY <1>2, <1>4, <1>8, <1>9, <1>10, <1>11, <1>12, <1>13 DEF SupervisorKept

\* The supervisor files what the journal has accepted.
LEMMA VerifiedKeeps ==
    ASSUME ResetInv, UNCHANGED cast, PublishAccepted \/ Acknowledged
    PROVE  SupervisorKept /\ UNCHANGED journal /\ UNCHANGED lane /\ UNCHANGED queued
<1> USE DEF Has, SupervisorFields, MemoryFields, Watched, Resetting, Prompting
<1>1. /\ SupervisorTypes /\ SentTypes /\ LaneTypes /\ PackageTypes /\ PlaceInv /\ SentInv /\ TurnInv
      /\ EarnedInv /\ CreditInv /\ TransferInv
  BY DEF ResetInv, ResetTypes
<1>2. UNCHANGED journal /\ UNCHANGED lane /\ UNCHANGED <<sent, queued>>
  BY DEF PublishAccepted, Acknowledged, journal, lane, native
<1>3. /\ pc \in {"idle", "acknowledged"} /\ pc' = "idle" /\ sup.phase = "waiting_fresh"
      /\ sup'.phase = "verified" /\ sup'.pkg = sup.pkg /\ sup'.fresh = sup.fresh
      /\ sup'.decisions = sup.decisions /\ Has(sup', SupervisorFields) /\ Has(mem', MemoryFields)
  BY <1>1 DEF PublishAccepted, Acknowledged, Published, PlaceInv, SupervisorTypes, NoMem
<1>4. sup.pkg \in credited
  BY <1>1 DEF PublishAccepted, Acknowledged, Published, Accepted, TransferInv, CreditInv
<1>5. contexts > packages[sup.pkg].born
  <2>1. PICK c \in 1 .. contexts : <<sup.pkg, c>> \in Genuine
    BY <1>1, <1>4 DEF EarnedInv
  <2>2. c > packages[sup.pkg].born
    BY <2>1 DEF Genuine
  <2>3. sup.pkg \in 1 .. Len(packages)
    BY <1>1, <1>4 DEF CreditInv
  <2>4. packages[sup.pkg].born \in Nat
    BY <1>1, <2>3 DEF PackageTypes
  <2>5. QED BY <1>1, <2>1, <2>2, <2>4 DEF LaneTypes, Contexts
<1>6. SupervisorTypes' /\ SentTypes'
  BY <1>1, <1>2, <1>3 DEF SupervisorTypes, SentTypes, journal
<1>7. PlaceInv'
  BY <1>1, <1>2, <1>3 DEF PlaceInv, journal, lane
<1>8. SentInv'
  BY <1>1, <1>2, <1>3 DEF SentInv, journal, lane
<1>9. OpInv'
  BY <1>2, <1>3, OperationsKept
<1>10. CreditInv' /\ EarnedInv'
  BY <1>2, <1>3, <1>4, CreditKept
<1>11. TurnInv'
  <2>1. ~ Spent
    <3>1. Spent => turn \in Turns
      BY <1>1, InHand DEF Spent, LaneTypes
    <3>2. packages[sup.pkg].born \in Nat /\ contexts \in Nat
      BY <1>1, <1>4 DEF CreditInv, PackageTypes, LaneTypes, Contexts
    <3>3. QED BY <1>1, <1>3, <1>5, <3>1, <3>2 DEF TurnInv
  <2>2. ~ Spent'
    BY <1>2, <2>1 DEF Spent, Idle, lane
  <2>3. QED BY <1>1, <1>2, <1>3, <2>2 DEF TurnInv, journal, lane
<1>12. QED BY <1>2, <1>6, <1>7, <1>8, <1>9, <1>10, <1>11 DEF SupervisorKept

\* A supervisor step that keeps its own parts leaves the journal's parts alone.
LEMMA SupervisorCloses ==
    ASSUME ResetInv, SupervisorKept, UNCHANGED journal, UNCHANGED lane, queued' \subseteq Nat \X Nat
    PROVE  ResetInv'
<1>1. Genuine' = Genuine
  BY DEF journal, lane, Genuine
<1>2. JournalTypes' /\ PackageTypes' /\ LaneTypes'
  BY DEF ResetInv, ResetTypes, JournalTypes, PackageTypes, LaneTypes, journal, lane
<1>3. GrantInv' /\ AdmissionInv' /\ HeldInv' /\ RoutingExplained'
  BY DEF ResetInv, GrantInv, AdmissionInv, HeldInv, RoutingExplained, journal
<1>4. TransferInv'
  BY <1>1 DEF ResetInv, TransferInv, journal
<1>5. QED BY <1>2, <1>3, <1>4 DEF ResetInv, ResetTypes, SupervisorKept

\* Every step of the supervisor that leaves the journal alone.
LEMMA SupervisorKeeps ==
    ASSUME ResetInv, UNCHANGED cast,
           \/ FoldSkip \/ (\E band \in {"under", "finish", "close"} : FoldDecide(band))
           \/ (\E effect, ack \in BOOLEAN : Instruct(effect, ack)) \/ Instructed
           \/ PrepareWaits \/ PrepareChecks \/ StepReturns \/ SavePrepared
           \/ ClearIntent \/ (\E effect, ack \in BOOLEAN : Clear(effect, ack)) \/ Cleared
           \/ PromptIntent \/ (\E effect, ack \in BOOLEAN : Queue(effect, ack)) \/ Queued
           \/ StepBootstrap \/ PublishAccepted \/ PublishReceipt \/ Acknowledged \/ Release
    PROVE  ResetInv'
<1>1. SupervisorKept /\ UNCHANGED journal /\ UNCHANGED lane /\ (UNCHANGED queued \/ queued' \subseteq Nat \X Nat)
  BY PassingKeeps, DecisionKeeps, PrepareWaitsKeeps, SavePreparedKeeps, ReleaseKeeps, PhaseKeeps,
     ClearKeeps,
     QueueKeeps, VerifiedKeeps
<1>2. queued \subseteq Nat \X Nat
  BY DEF ResetInv, ResetTypes, LaneTypes
<1>3. QED BY <1>1, <1>2, SupervisorCloses

-----------------------------------------------------------------------------
(* The lane, its people, and time *)

files == <<sup, pc, mem, jr, control, packages, grant, op, cast, sent, credited>>

\* A lane grows: it gets messages after its first one, lanes are added, and an instructed
\* turn remains the last one of an idle lane or is not.
Grows ==
    /\ LaneTypes' /\ contexts' >= contexts /\ turn' >= turn
    /\ \A c \in 1 .. contexts : input[c] # <<>> => input'[c] # <<>> /\ Head(input'[c]) = Head(input[c])
    /\ Spent' => Spent /\ turn' = turn /\ contexts' = contexts

\* The invariant survives whatever only adds packages, contexts and messages.
LEMMA GrowthKeeps ==
    ASSUME ResetInv, UNCHANGED files, Grows
    PROVE  ResetInv'
<1>1. /\ JournalTypes /\ SupervisorTypes /\ PackageTypes /\ LaneTypes /\ SentTypes
      /\ PlaceInv /\ OpInv /\ GrantInv /\ TransferInv /\ AdmissionInv /\ HeldInv
      /\ RoutingExplained /\ CreditInv /\ EarnedInv /\ SentInv /\ TurnInv
  BY DEF ResetInv, ResetTypes
<1>2. contexts \in Nat /\ contexts' \in Nat /\ contexts' >= contexts
  BY <1>1 DEF Grows, LaneTypes, Contexts
<1>3. Genuine \subseteq Genuine'
  <2> SUFFICES ASSUME NEW p \in 1 .. Len(packages), NEW c \in 1 .. contexts,
                      c > packages[p].born, c # packages[p].previous, input[c] # <<>>, Head(input[c]) = p
               PROVE  <<p, c>> \in Genuine'
    BY DEF Genuine
  <2>1. packages' = packages /\ c \in 1 .. contexts'
    BY <1>2 DEF files
  <2>2. input'[c] # <<>> /\ Head(input'[c]) = p
    BY DEF Grows
  <2>3. QED BY <2>1, <2>2 DEF Genuine
<1>4. JournalTypes' /\ SupervisorTypes' /\ SentTypes' /\ GrantInv' /\ AdmissionInv' /\ HeldInv' /\ RoutingExplained'
  BY <1>1 DEF JournalTypes, SupervisorTypes, SentTypes, GrantInv, AdmissionInv, HeldInv,
     RoutingExplained, files
<1>5. PackageTypes' /\ LaneTypes'
  BY <1>1, <1>2 DEF PackageTypes, Grows, files
<1>6. PlaceInv'
  <2>1. \A p \in 1 .. Len(packages) : contexts > packages[p].born => contexts' > packages[p].born
    BY <1>1, <1>2 DEF PackageTypes
  <2>2. QED BY <1>1, <2>1 DEF PlaceInv, files
<1>7. OpInv'
  BY <1>1, <1>3 DEF OpInv, BootInv, AckInv, RecoverInv, Frozen, files
<1>8. TransferInv'
  BY <1>1, <1>3 DEF TransferInv, files
<1>9. CreditInv' /\ SentInv'
  BY <1>1 DEF CreditInv, SentInv, files
<1>10. EarnedInv'
  BY <1>1, <1>2, <1>3 DEF EarnedInv, files
<1>11. TurnInv'
  <2>1. turn \in Nat /\ turn' \in Nat /\ turn' >= turn /\ Turns \subseteq Nat
    BY <1>1, ResetAssumption DEF Grows, LaneTypes, Turns
  <2>2. \A t \in Turns : sent.instruction[t] <= 1 /\ (t > turn' => sent.instruction[t] = 0)
    <3> SUFFICES ASSUME NEW t \in Turns
                 PROVE  sent.instruction[t] <= 1 /\ (t > turn' => sent.instruction[t] = 0)
      OBVIOUS
    <3>1. t > turn' => t > turn
      BY <2>1
    <3>2. QED BY <1>1, <3>1 DEF TurnInv
  <2>3. \A t : t \in 1 .. turn => t \in 1 .. turn'
    BY <2>1
  <2>4. Spent' => Spent /\ turn' = turn /\ contexts' = contexts
    BY DEF Grows
  <2>5. QED BY <1>1, <2>2, <2>3, <2>4 DEF TurnInv, files
<1>12. QED BY <1>4, <1>5, <1>6, <1>7, <1>8, <1>9, <1>10, <1>11 DEF ResetInv, ResetTypes

\* Appending a message keeps the first one.
LEMMA Appended ==
    ASSUME NEW s \in Seq(Int), NEW x \in Int
    PROVE  /\ Append(s, x) \in Seq(Int) /\ Append(s, x) # <<>>
           /\ s # <<>> => Head(Append(s, x)) = Head(s)
<1>1. Append(s, x) \in Seq(Int) /\ Append(s, x) # <<>>
  <2>1. Append(s, x) \in Seq(Int) /\ Len(Append(s, x)) = Len(s) + 1
    OBVIOUS
  <2>2. Len(Append(s, x)) # 0
    BY <2>1
  <2>3. QED BY <2>1, <2>2
<1>2. ASSUME s # <<>> PROVE Head(Append(s, x)) = Head(s)
  <2>1. Len(s) > 0 /\ Len(Append(s, x)) > 0
    BY <1>2
  <2>2. Append(s, x)[1] = s[1]
    BY <2>1
  <2>3. QED BY <1>1, <1>2, <2>1, <2>2
<1>3. QED BY <1>1, <1>2

\* A message in the lane of the window.
LEMMA MessageGrows ==
    ASSUME ResetInv, UNCHANGED files, NEW x \in Int, input' = [input EXCEPT ![live] = Append(@, x)],
           busy' = busy \cup {live}, UNCHANGED <<live, contexts, turn>>, queued' \subseteq queued
    PROVE  ResetInv'
<1>1. LaneTypes
  BY DEF ResetInv, ResetTypes
<1>2. live \in Contexts /\ live = contexts /\ input \in [Contexts -> Seq(Int)] /\ contexts \in Nat
  BY <1>1 DEF LaneTypes, Contexts
<1>3. /\ Append(input[live], x) \in Seq(Int) /\ Append(input[live], x) # <<>>
      /\ input[live] # <<>> => Head(Append(input[live], x)) = Head(input[live])
  BY <1>2, Appended
<1>4. /\ input' \in [Contexts -> Seq(Int)] /\ input'[live] = Append(input[live], x)
      /\ \A c \in Contexts : c # live => input'[c] = input[c]
  BY <1>2, <1>3
<1>5. LaneTypes'
  <2>1. \A c \in Contexts : c > contexts => input'[c] = <<>>
    BY <1>1, <1>2, <1>4 DEF LaneTypes
  <2>2. QED BY <1>1, <1>4, <2>1 DEF LaneTypes, files
<1>6. \A c \in 1 .. contexts : input[c] # <<>> => input'[c] # <<>> /\ Head(input'[c]) = Head(input[c])
  BY <1>2, <1>3, <1>4 DEF Contexts
<1>7. ~ Spent'
  BY DEF Spent, Idle
<1>8. turn' >= turn
  BY <1>1 DEF LaneTypes
<1>9. QED BY <1>2, <1>5, <1>6, <1>7, <1>8, GrowthKeeps DEF Grows

\* A new lane, which nobody has written to.
LEMMA NewContextGrows ==
    ASSUME ResetInv, UNCHANGED cast, NEW p, NewContext(p)
    PROVE  ResetInv'
<1>1. LaneTypes
  BY DEF ResetInv, ResetTypes
<1>2. UNCHANGED files /\ UNCHANGED <<input, busy, queued, turn>>
  BY DEF NewContext, supervisor, files
<1>3. contexts' = contexts + 1 /\ live' = contexts + 1 /\ contexts \in Nat /\ contexts' \in Contexts
  BY <1>1, ResetAssumption DEF NewContext, LaneTypes, Contexts
<1>4. LaneTypes'
  <2>1. \A c \in Contexts : c > contexts' => input[c] = <<>>
    BY <1>1, <1>3 DEF LaneTypes, Contexts
  <2>2. QED BY <1>1, <1>2, <1>3, <2>1 DEF LaneTypes, files
<1>5. ~ Spent'
  BY <1>1, <1>2, <1>3 DEF Spent, Idle, LaneTypes
<1>6. turn' >= turn
  BY <1>1, <1>2 DEF LaneTypes
<1>7. QED BY <1>2, <1>3, <1>4, <1>5, <1>6, GrowthKeeps DEF Grows

\* Turns begin and end.
LEMMA TurnsGrow ==
    ASSUME ResetInv, UNCHANGED cast, NEW c, TurnStarts(c) \/ TurnEnds(c)
    PROVE  ResetInv'
<1>1. LaneTypes /\ SentTypes /\ TurnInv
  BY DEF ResetInv, ResetTypes
<1>2. UNCHANGED files /\ UNCHANGED <<live, contexts, input, queued>>
  BY DEF TurnStarts, TurnEnds, supervisor, files
<1>3. turn \in 0 .. MaxTurns /\ turn' \in 0 .. MaxTurns /\ turn' >= turn /\ (turn' # 0 => "ceiling" \in cast)
  BY <1>1, ResetAssumption DEF TurnStarts, TurnEnds, LaneTypes
<1>4. LaneTypes'
  BY <1>1, <1>2, <1>3 DEF LaneTypes, files
<1>5. Spent' => Spent /\ turn' = turn
  <2>1. CASE TurnStarts(c)
    BY <1>2, <2>1 DEF TurnStarts, Spent, Idle, files
  <2>2. CASE TurnEnds(c) /\ c # live
    BY <1>2, <2>2 DEF TurnEnds, Spent, Idle, files
  <2>3. CASE TurnEnds(c) /\ c = live /\ "ceiling" \notin cast
    BY <1>2, <1>3, <2>3 DEF Spent, files
  <2>4. CASE TurnEnds(c) /\ c = live /\ "ceiling" \in cast
    <3>1. turn' = turn + 1 /\ turn' \in Turns
      BY <1>1, <1>3, <2>4, ResetAssumption DEF TurnEnds, Turns
    <3>2. sent.instruction[turn'] = 0
      BY <1>1, <1>3, <3>1 DEF TurnInv
    <3>3. QED BY <1>2, <3>2 DEF Spent, files
  <2>5. QED BY <2>1, <2>2, <2>3, <2>4
<1>6. QED BY <1>1, <1>2, <1>3, <1>4, <1>5, GrowthKeeps DEF Grows, LaneTypes, Contexts

\* People, the client and the model may do in the lane what they like.
LEMMA LaneKeeps ==
    ASSUME ResetInv, UNCHANGED cast, LaneStep
    PROVE  ResetInv'
<1>1. CASE NativeClear \/ HumanClears
  BY <1>1, NewContextGrows DEF NativeClear, HumanClears
<1>2. CASE \E c \in Contexts : TurnEnds(c) \/ TurnStarts(c)
  BY <1>2, TurnsGrow
<1>3. CASE HumanTypes
  <2>1. UNCHANGED files /\ Human \in Int
    BY <1>3 DEF HumanTypes, supervisor, files, Human
  <2>2. QED BY <1>3, <2>1, MessageGrows DEF HumanTypes
<1>4. ASSUME NEW p \in Packages, HumanPastes(p) PROVE ResetInv'
  <2>1. UNCHANGED files /\ p \in Int
    BY <1>4 DEF HumanPastes, supervisor, files, Packages
  <2>2. QED BY <1>4, <2>1, MessageGrows DEF HumanPastes
<1>5. CASE Deliver
  <2>1. PICK m \in queued : /\ input' = [input EXCEPT ![live] = Append(@, m[1])]
                            /\ busy' = busy \cup {live} /\ queued' = queued \ {m}
                            /\ UNCHANGED files /\ UNCHANGED <<live, contexts, turn>>
    BY <1>5 DEF Deliver, supervisor, files
  <2>2. m[1] \in Int
    BY <2>1 DEF ResetInv, ResetTypes, LaneTypes
  <2>3. QED BY <2>1, <2>2, MessageGrows
<1>6. QED BY <1>1, <1>2, <1>3, <1>4, <1>5 DEF LaneStep

-----------------------------------------------------------------------------
(* The journal *)

\* What a step leaves alone that changes neither the lane, the packages, the supervisor's
\* record nor what was sent.
desk == <<sup, sent, packages, queued>>

Moves == (pc' = pc /\ mem' = mem) \/ pc' \in {"idle", "folded", "booting", "recover", "recovered", "acknowledged"}

\* What the supervisor has on its desk does not depend on the files of the journal.
LEMMA DeskKept ==
    ASSUME ResetInv, UNCHANGED lane, UNCHANGED desk, Moves,
           Has(mem', MemoryFields), Has(op', OperationFields), Has(control', {"routed", "paused"})
    PROVE  /\ SupervisorTypes' /\ PackageTypes' /\ LaneTypes' /\ SentTypes' /\ SentInv' /\ TurnInv'
           /\ Genuine' = Genuine
<1>1. SupervisorTypes /\ PackageTypes /\ LaneTypes /\ SentTypes /\ SentInv /\ TurnInv
  BY DEF ResetInv, ResetTypes
<1>2. SupervisorTypes' /\ PackageTypes' /\ LaneTypes' /\ SentTypes'
  BY <1>1 DEF SupervisorTypes, PackageTypes, LaneTypes, SentTypes, lane, desk
<1>3. SentInv'
  BY <1>1 DEF SentInv, lane, desk, Moves
<1>4. TurnInv'
  <2>1. Spent' = Spent
    BY DEF Spent, Idle, lane, desk
  <2>2. QED BY <1>1, <2>1 DEF TurnInv, lane, desk, Moves
<1>5. QED BY <1>2, <1>3, <1>4 DEF Genuine, lane, desk

\* A journal step that accepts no package keeps what epochs were earned by.
LEMMA CreditStays ==
    ASSUME ResetInv, UNCHANGED lane, UNCHANGED desk, UNCHANGED credited, jr'.epoch = jr.epoch,
           pc' = pc \/ pc' # "acknowledged"
    PROVE  CreditInv' /\ EarnedInv'
<1>1. Genuine' = Genuine
  BY DEF Genuine, lane, desk
<1>2. QED BY <1>1 DEF ResetInv, CreditInv, EarnedInv, lane, desk

\* The fields of the journal that a transfer is about.
Transferring == {"session", "epoch", "reset", "pending", "awaiting", "maintenance", "boot", "booted", "receipt",
                 "intent", "failed"}

\* Saves of the journal that are not about a transfer.
LEMMA SaveKeeps ==
    ASSUME ResetInv, UNCHANGED lane, UNCHANGED desk, UNCHANGED <<mem, control, grant, op, credited>>, op = NoOp,
           Has(jr', JournalFields), \A f \in Transferring : jr'[f] = jr[f], AdmissionInv',
           pc' = pc \/ (pc = "request" /\ pc' = "folded")
    PROVE  ResetInv'
<1>1. /\ JournalTypes /\ SupervisorTypes /\ PlaceInv /\ GrantInv /\ TransferInv /\ HeldInv /\ RoutingExplained
  BY DEF ResetInv, ResetTypes
<1>2. /\ SupervisorTypes' /\ PackageTypes' /\ LaneTypes' /\ SentTypes' /\ SentInv' /\ TurnInv'
      /\ Genuine' = Genuine
  BY <1>1, DeskKept DEF Moves, SupervisorTypes
<1>3. /\ jr'.session = jr.session /\ jr'.epoch = jr.epoch /\ jr'.reset = jr.reset /\ jr'.pending = jr.pending
      /\ jr'.awaiting = jr.awaiting /\ jr'.maintenance = jr.maintenance /\ jr'.boot = jr.boot
      /\ jr'.booted = jr.booted /\ jr'.receipt = jr.receipt /\ jr'.intent = jr.intent /\ jr'.failed = jr.failed
  BY DEF Transferring
<1>4. JournalTypes' /\ GrantInv' /\ HeldInv' /\ RoutingExplained'
  BY <1>1, <1>3 DEF JournalTypes, GrantInv, HeldInv, RoutingExplained, desk
<1>5. TransferInv'
  BY <1>1, <1>2, <1>3 DEF TransferInv, desk
<1>6. PlaceInv'
  BY <1>1, <1>3 DEF PlaceInv, lane, desk
<1>7. OpInv'
  BY DEF OpInv, BootInv, AckInv, RecoverInv, NoOp
<1>8. CreditInv' /\ EarnedInv'
  BY <1>3, CreditStays
<1>9. QED BY <1>2, <1>4, <1>5, <1>6, <1>7, <1>8 DEF ResetInv, ResetTypes

\* Tickets and startup keep the invariant; each of them is refused during a reset.
LEMMA WorkflowKeeps ==
    ASSUME ResetInv, UNCHANGED cast,
           \/ \E maintenance, headroom \in BOOLEAN : Begin(maintenance, headroom)
           \/ Complete \/ (\E fits \in BOOLEAN : FinishStartup(fits)) \/ StartupOverBudget \/ RequestReset
    PROVE  ResetInv'
<1> USE DEF Has, JournalFields, Transferring
<1>1. JournalTypes /\ AdmissionInv
  BY DEF ResetInv, ResetTypes
<1>2. /\ UNCHANGED lane /\ UNCHANGED desk /\ UNCHANGED <<mem, control, grant, op, credited>> /\ op = NoOp
      /\ pc' = pc \/ (pc = "request" /\ pc' = "folded")
  BY DEF Begin, Complete, FinishStartup, StartupOverBudget, RequestReset, Leasable, supervisor,
     native, lane, desk
<1>3. Has(jr', JournalFields)
  BY <1>1 DEF Begin, Complete, FinishStartup, StartupOverBudget, RequestReset, JournalTypes
<1>4. \A f \in Transferring : jr'[f] = jr[f]
  BY <1>1 DEF Begin, Complete, FinishStartup, StartupOverBudget, RequestReset, JournalTypes
<1>5. AdmissionInv'
  <2>1. ASSUME NEW maintenance \in BOOLEAN, NEW headroom \in BOOLEAN, Begin(maintenance, headroom)
        PROVE  AdmissionInv'
    <3>1. CASE jr'.admission = jr.admission
      BY <1>1, <1>2, <1>4, <3>1 DEF AdmissionInv
    <3>2. CASE /\ MayBegin(maintenance) /\ ~ ResetRequired(maintenance)
               /\ jr'.admission = IF maintenance THEN "maintenance" ELSE "production"
      <4>1. jr.reset = 0 /\ control.routed = jr.session /\ (jr.maintenance => maintenance)
        BY <3>2 DEF MayBegin, ResetRequired
      <4>2. jr'.reset = 0 /\ jr'.session = jr.session /\ jr'.maintenance = jr.maintenance
        BY <1>4, <4>1
      <4>3. QED BY <1>2, <3>2, <4>1, <4>2 DEF AdmissionInv
    <3>3. QED BY <1>1, <2>1, <3>1, <3>2 DEF Begin, JournalTypes
  <2>2. CASE jr'.admission = jr.admission \/ jr'.admission = "none"
    BY <1>1, <1>2, <1>4, <2>2 DEF AdmissionInv
  <2>3. QED BY <1>1, <2>1, <2>2 DEF Complete, FinishStartup, StartupOverBudget, RequestReset,
               JournalTypes
<1>6. QED BY <1>2, <1>3, <1>4, <1>5, SaveKeeps

\* A sealed package is added to the others.
LEMMA Sealed ==
    ASSUME ResetInv, NEW r, packages' = Append(packages, r)
    PROVE  /\ \E S : packages' \in Seq(S)
           /\ Len(packages) \in Nat /\ Len(packages') = Len(packages) + 1
           /\ \A p \in 1 .. Len(packages) : packages'[p] = packages[p]
           /\ packages'[Len(packages) + 1] = r
<1>1. PICK S : packages \in Seq(S)
  BY DEF ResetInv, ResetTypes, PackageTypes
<1>2. packages \in Seq(S \cup {r})
  BY <1>1
<1>3. packages' \in Seq(S \cup {r})
  BY <1>2
<1>4. QED BY <1>2, <1>3

\* A package is sealed: the journal points to it.
LEMMA PrepareKeeps ==
    ASSUME ResetInv, UNCHANGED cast, Seal \/ PrepareByHand
    PROVE  ResetInv'
<1> USE DEF Has, Watched, Resetting, Prompting
<1>1. /\ JournalTypes /\ SupervisorTypes /\ PackageTypes /\ LaneTypes /\ SentTypes
      /\ PlaceInv /\ GrantInv /\ TransferInv /\ AdmissionInv /\ HeldInv
      /\ RoutingExplained /\ CreditInv /\ EarnedInv /\ SentInv /\ TurnInv
  BY DEF ResetInv, ResetTypes
<1>2. /\ UNCHANGED lane /\ UNCHANGED <<sup, sent, queued, control, grant, op, credited>> /\ op = NoOp
      /\ Len(packages) < MaxPackages
  BY DEF Seal, PrepareByHand, PrepareClear, Leasable, native, lane
<1>3. \E r : r.born = contexts /\ packages' = Append(packages, r) /\ (Seal => r.auto)
  BY DEF Seal, PrepareByHand, PrepareClear
<1>4. PICK r : r.born = contexts /\ packages' = Append(packages, r) /\ (Seal => r.auto)
  BY <1>3
<1>5. DEFINE n == Len(packages)
<1>6. /\ \E S : packages' \in Seq(S)
      /\ n \in Nat /\ Len(packages') = n + 1
      /\ \A p \in 1 .. n : packages'[p] = packages[p]
      /\ packages'[n + 1] = r
  BY <1>4, Sealed
<1> HIDE DEF n
<1>7. /\ jr' = [jr EXCEPT !.reset = n + 1, !.admission = "none"]
      /\ \/ Seal /\ pc = "seal" /\ pc' = "sealed" /\ mem' = [mem EXCEPT !.pkg = n + 1]
         \/ UNCHANGED <<pc, mem>>
  BY DEF Seal, PrepareByHand, PrepareClear, n
<1>8. JournalTypes'
  <2>1. Has(jr', JournalFields)
    BY <1>1, <1>7 DEF JournalTypes, JournalFields
  <2>2. jr'.epoch = jr.epoch /\ jr'.reset = n + 1 /\ jr'.boot = jr.boot /\ jr'.failed = jr.failed
    BY <1>1, <1>7 DEF JournalTypes, JournalFields
  <2>3. QED BY <1>1, <1>6, <2>1, <2>2 DEF JournalTypes
<1>9. /\ jr'.session = jr.session /\ jr'.epoch = jr.epoch /\ jr'.reset = n + 1 /\ jr'.pending = jr.pending
      /\ jr'.maintenance = jr.maintenance /\ jr'.boot = jr.boot /\ jr'.admission = "none"
      /\ jr'.booted = jr.booted /\ jr'.receipt = jr.receipt /\ jr'.intent = jr.intent /\ jr'.failed = jr.failed
  BY <1>1, <1>7 DEF JournalTypes, JournalFields
<1>10. /\ Has(mem', MemoryFields)
       /\ \/ pc' = pc /\ mem' = mem
          \/ /\ pc = "seal" /\ pc' = "sealed" /\ mem'.pkg = n + 1 /\ packages'[n + 1].auto
             /\ sup.phase \in Watched
  BY <1>1, <1>4, <1>6, <1>7 DEF SupervisorTypes, MemoryFields, PlaceInv
<1>11. SupervisorTypes' /\ SentTypes'
  BY <1>1, <1>2, <1>10 DEF SupervisorTypes, SentTypes
<1>12. contexts \in Nat /\ contexts' = contexts
  BY <1>1, <1>2 DEF LaneTypes, Contexts, lane
<1>13. PackageTypes'
  <2>1. \A p \in 1 .. Len(packages') : packages'[p].born \in 0 .. contexts
    <3> SUFFICES ASSUME NEW p \in 1 .. n + 1 PROVE packages'[p].born \in 0 .. contexts
      BY <1>6
    <3>1. CASE p \in 1 .. n
      BY <1>1, <1>6, <3>1 DEF PackageTypes, n
    <3>2. CASE p = n + 1
      BY <1>4, <1>6, <1>12, <3>2
    <3>3. QED BY <1>6, <3>1, <3>2
  <2>2. Len(packages') <= MaxPackages
    BY <1>2, <1>6, ResetAssumption DEF n
  <2>3. QED BY <1>6, <1>12, <2>1, <2>2 DEF PackageTypes
<1>14. LaneTypes'
  BY <1>1, <1>2 DEF LaneTypes, lane
<1>15. Genuine \subseteq Genuine'
  <2> SUFFICES ASSUME NEW p \in 1 .. n, NEW c \in 1 .. contexts,
                      c > packages[p].born, c # packages[p].previous, input[c] # <<>>, Head(input[c]) = p
               PROVE  <<p, c>> \in Genuine'
    BY DEF Genuine, n
  <2>1. p \in 1 .. Len(packages') /\ packages'[p] = packages[p] /\ input' = input
    BY <1>2, <1>6 DEF lane
  <2>2. QED BY <1>12, <2>1 DEF Genuine
<1>16. PlaceInv'
  <2>1. pc' = "sealed" => mem'.pkg \in 1 .. n + 1 /\ packages'[mem'.pkg].auto /\ sup.phase \in Watched
    BY <1>1, <1>6, <1>10 DEF PlaceInv, n
  <2>2. sup.phase \notin {"monitoring", "waiting_release"} => sup.pkg \in 1 .. n + 1 /\ packages'[sup.pkg].auto
    BY <1>1, <1>6 DEF PlaceInv, n
  <2>3. pc \in {"recover", "recovered"} => packages'[sup.pkg] = packages[sup.pkg]
    BY <1>1, <1>6 DEF PlaceInv, n
  <2>4. QED BY <1>1, <1>2, <1>6, <1>9, <1>10, <1>12, <2>1, <2>2, <2>3 DEF PlaceInv
<1>17. OpInv'
  BY <1>2 DEF OpInv, BootInv, AckInv, RecoverInv, NoOp
<1>18. GrantInv' /\ AdmissionInv' /\ RoutingExplained'
  BY <1>1, <1>2, <1>9 DEF GrantInv, AdmissionInv, RoutingExplained
<1>19. credited \subseteq 1 .. n
  BY <1>1 DEF CreditInv, n
<1>20. TransferInv'
  <2>1. jr'.reset \in 1 .. Len(packages') /\ jr'.reset \notin credited /\ jr'.reset > jr'.failed
    BY <1>1, <1>6, <1>9, <1>19 DEF HeldInv, JournalTypes, n
  <2>2. jr.boot # 0 => jr.boot \in 1 .. n
    BY <1>1 DEF TransferInv, Genuine, n
  <2>3. jr'.boot # jr'.reset /\ jr'.reset # 0
    BY <1>6, <1>9, <2>2
  <2>4. QED BY <1>1, <1>2, <1>9, <1>15, <2>1, <2>3 DEF TransferInv
<1>21. HeldInv'
  <2>1. \A p \in credited : packages'[p] = packages[p]
    BY <1>6, <1>19
  <2>2. jr'.failed <= Len(packages')
    BY <1>1, <1>6, <1>9 DEF HeldInv, JournalTypes, n
  <2>3. QED BY <1>1, <1>2, <1>9, <2>1, <2>2 DEF HeldInv
<1>22. CreditInv' /\ EarnedInv'
  <2>1. \A p \in credited : packages'[p] = packages[p] /\ p \in 1 .. Len(packages')
    BY <1>6, <1>19
  <2>2. CreditInv'
    BY <1>1, <1>2, <1>9, <1>10, <2>1 DEF CreditInv
  <2>3. EarnedInv'
    BY <1>1, <1>2, <1>12, <1>15, <2>1 DEF EarnedInv
  <2>4. QED BY <2>2, <2>3
<1>23. SentInv'
  <2>1. n + 1 \in Packages /\ n + 1 > n
    BY <1>2, <1>6, ResetAssumption DEF Packages, n
  <2>2. sent.clear[n + 1] = 0 /\ sent.prompt[n + 1] = 0
    BY <1>1, <2>1 DEF SentInv, n
  <2>3. \A p \in Packages : p > Len(packages') => p > n
    BY <1>6, ResetAssumption DEF Packages
  <2>4. pc' = "sealed" => sent.clear[mem'.pkg] = 0 /\ sent.prompt[mem'.pkg] = 0
    BY <1>1, <1>10, <2>2 DEF SentInv
  <2>5. \A p \in Packages : /\ sent.clear[p] <= 1 /\ sent.prompt[p] <= 1
                            /\ p > Len(packages') => sent.clear[p] = 0 /\ sent.prompt[p] = 0
    BY <1>1, <2>3 DEF SentInv, n
  <2>6. QED BY <1>1, <1>2, <1>10, <2>4, <2>5 DEF SentInv
<1>24. TurnInv'
  <2>1. Spent' = Spent
    BY <1>2 DEF Spent, Idle, lane
  <2>2. Spent /\ pc' = "sealed" => contexts = packages'[mem'.pkg].born
    BY <1>1, <1>4, <1>6, <1>10 DEF TurnInv, PlaceInv, n
  <2>3. sup.phase \in Resetting => packages'[sup.pkg] = packages[sup.pkg]
    BY <1>1, <1>6 DEF PlaceInv, n
  <2>4. QED BY <1>1, <1>2, <1>10, <2>1, <2>2, <2>3 DEF TurnInv, lane
<1>25. QED BY <1>8, <1>11, <1>13, <1>14, <1>16, <1>17, <1>18, <1>20, <1>21, <1>22, <1>23,
              <1>24 DEF ResetInv, ResetTypes

-----------------------------------------------------------------------------
(* The transfer to a new lane *)

\* The lane that the bootstrap takes for fresh is a genuine reset of the package asked for.
LEMMA FreshIsGenuine ==
    ASSUME ResetInv, NEW c, jr.reset # 0, FreshLane(c)
    PROVE  <<jr.reset, c>> \in Genuine /\ c # 0
<1>1. jr.reset \in 1 .. Len(packages)
  BY DEF ResetInv, TransferInv
<1>2. c \in 1 .. contexts /\ c > packages[jr.reset].born /\ c # packages[jr.reset].previous
  BY DEF FreshLane, Created
<1>3. input[c] = <<jr.reset>>
  BY DEF FreshLane, SolePrompt
<1>4. input[c] # <<>> /\ Head(input[c]) = jr.reset
  BY <1>3
<1>5. QED BY <1>1, <1>2, <1>4 DEF Genuine

\* The intended lane is saved.
LEMMA BootIntentKeeps ==
    ASSUME ResetInv, UNCHANGED cast, NEW c, NEW by, BootIntent(c, by),
           (by = "operator" /\ pc' = pc) \/ (by = "supervisor" /\ pc = "bootstrap" /\ pc' = "booting")
    PROVE  ResetInv'
<1> USE DEF Has
<1>1. /\ JournalTypes /\ SupervisorTypes /\ PlaceInv /\ GrantInv /\ TransferInv /\ AdmissionInv /\ HeldInv
      /\ RoutingExplained
  BY DEF ResetInv, ResetTypes
<1>2. /\ UNCHANGED lane /\ UNCHANGED desk /\ UNCHANGED <<mem, control, grant, credited>> /\ op = NoOp
      /\ jr.reset # 0 /\ FreshLane(c) /\ jr.pending \in {0, c} /\ control.routed \in {jr.session, c}
  BY DEF BootIntent, Leasable, PendingAllows, native, lane, desk
<1>3. /\ op'.kind = "route" /\ op'.by = by /\ op'.session = c /\ Has(op', OperationFields)
  BY DEF BootIntent, OperationFields
<1>4. <<jr.reset, c>> \in Genuine /\ c # 0
  BY <1>2, FreshIsGenuine
<1>5. /\ SupervisorTypes' /\ PackageTypes' /\ LaneTypes' /\ SentTypes' /\ SentInv' /\ TurnInv'
      /\ Genuine' = Genuine
  BY <1>1, <1>2, <1>3, DeskKept DEF Moves, SupervisorTypes
<1>6. Has(jr', JournalFields)
  BY <1>1 DEF BootIntent, Announced, JournalTypes, JournalFields
<1>7. /\ jr'.session = jr.session /\ jr'.epoch = jr.epoch /\ jr'.reset = jr.reset /\ jr'.pending = c
      /\ jr'.maintenance = jr.maintenance /\ jr'.boot = jr.boot /\ jr'.admission = jr.admission
      /\ jr'.booted = jr.booted /\ jr'.receipt = 0 /\ jr'.intent = jr.intent /\ jr'.failed = jr.failed
  BY <1>1 DEF BootIntent, Announced, JournalTypes, JournalFields
<1>8. JournalTypes' /\ GrantInv' /\ HeldInv' /\ AdmissionInv' /\ RoutingExplained'
  BY <1>1, <1>2, <1>6, <1>7 DEF JournalTypes, GrantInv, HeldInv, AdmissionInv, RoutingExplained,
     desk
<1>9. TransferInv'
  <2>1. jr.boot = jr.reset => jr.pending = c /\ jr.booted = c /\ control.routed = c
    <3>1. jr.boot # 0 => jr.booted # 0
      BY <1>1 DEF TransferInv, Genuine
    <3>2. QED BY <1>1, <1>2, <3>1 DEF TransferInv
  <2>2. QED BY <1>1, <1>2, <1>5, <1>7, <2>1 DEF TransferInv, desk
<1>10. PlaceInv'
  BY <1>1, <1>2, <1>7 DEF PlaceInv, lane, desk
<1>11. OpInv'
  BY <1>2, <1>3, <1>4, <1>5, <1>7 DEF OpInv, BootInv, AckInv, RecoverInv
<1>12. CreditInv' /\ EarnedInv'
  BY <1>2, <1>7, CreditStays
<1>13. QED BY <1>5, <1>8, <1>9, <1>10, <1>11, <1>12 DEF ResetInv, ResetTypes

\* The routing is written.
LEMMA BootRouteKeeps ==
    ASSUME ResetInv, UNCHANGED cast, BootRoute
    PROVE  ResetInv'
<1> USE DEF Has
<1>1. /\ JournalTypes /\ SupervisorTypes /\ PlaceInv /\ GrantInv /\ TransferInv /\ AdmissionInv /\ HeldInv
      /\ RoutingExplained /\ OpInv
  BY DEF ResetInv, ResetTypes
<1>2. UNCHANGED lane /\ UNCHANGED desk /\ UNCHANGED <<jr, pc, mem, grant, credited>> /\ op.kind = "route"
  BY DEF BootRoute, supervisor, native, lane, desk
<1>3. /\ op'.kind = "publish" /\ op'.by = op.by /\ op'.session = op.session /\ Has(op', OperationFields)
      /\ control'.routed = op.session /\ Has(control', {"routed", "paused"})
  BY <1>1 DEF BootRoute, OperationFields, SupervisorTypes
<1>4. /\ op.by = "operator" \/ (op.by = "supervisor" /\ pc = "booting")
      /\ jr.reset # 0 /\ jr.pending = op.session /\ jr.receipt = 0 /\ <<jr.reset, op.session>> \in Genuine
  BY <1>1, <1>2 DEF OpInv, BootInv
<1>5. /\ SupervisorTypes' /\ PackageTypes' /\ LaneTypes' /\ SentTypes' /\ SentInv' /\ TurnInv'
      /\ Genuine' = Genuine
  BY <1>1, <1>2, <1>3, DeskKept DEF Moves, SupervisorTypes
<1>6. JournalTypes' /\ GrantInv' /\ HeldInv' /\ AdmissionInv' /\ RoutingExplained'
  BY <1>1, <1>2, <1>3, <1>4 DEF JournalTypes, GrantInv, HeldInv, AdmissionInv, RoutingExplained,
     desk
<1>7. TransferInv'
  BY <1>1, <1>2, <1>3, <1>4, <1>5 DEF TransferInv, desk
<1>8. PlaceInv'
  BY <1>1, <1>2 DEF PlaceInv, lane, desk
<1>9. OpInv'
  BY <1>2, <1>3, <1>4, <1>5 DEF OpInv, BootInv, AckInv, RecoverInv
<1>10. CreditInv' /\ EarnedInv'
  BY <1>2, CreditStays
<1>11. QED BY <1>5, <1>6, <1>7, <1>8, <1>9, <1>10 DEF ResetInv, ResetTypes

\* A package earns its epoch.
LEMMA EpochEarned ==
    ASSUME ResetInv, UNCHANGED lane, UNCHANGED desk, NEW p, p \notin credited, credited' = credited \cup {p},
           jr'.epoch = jr.epoch + 1, NEW c, <<p, c>> \in Genuine,
           packages[p].auto => sent.clear[p] = 1 /\ sent.prompt[p] = 1,
           pc' = "acknowledged" => pc' = pc \/ sup.pkg = p
    PROVE  CreditInv' /\ EarnedInv'
<1>1. CreditInv /\ EarnedInv
  BY DEF ResetInv
<1>2. Genuine' = Genuine
  BY DEF Genuine, lane, desk
<1>3. IsFiniteSet(credited') /\ Cardinality(credited') = Cardinality(credited) + 1
  BY <1>1, FS_AddElement DEF CreditInv
<1>4. p \in 1 .. Len(packages) /\ c \in 1 .. contexts
  BY DEF Genuine
<1>5. CreditInv'
  BY <1>1, <1>3, <1>4 DEF CreditInv, desk
<1>6. EarnedInv'
  BY <1>1, <1>2, <1>4 DEF EarnedInv, desk, lane
<1>7. QED BY <1>5, <1>6

\* An automatic transfer is published and waits for its acceptance.
LEMMA BootPublishKeeps ==
    ASSUME ResetInv, UNCHANGED cast, BootPublish
    PROVE  ResetInv'
<1> USE DEF Has
<1>1. /\ JournalTypes /\ SupervisorTypes /\ PlaceInv /\ GrantInv /\ TransferInv /\ AdmissionInv /\ HeldInv
      /\ RoutingExplained /\ OpInv
  BY DEF ResetInv, ResetTypes
<1>2. UNCHANGED lane /\ UNCHANGED desk /\ UNCHANGED <<mem, control, grant>> /\ op.kind = "publish" /\ op' = NoOp
  BY DEF BootPublish, native, lane, desk
<1>3. /\ op.by = "operator" \/ (op.by = "supervisor" /\ pc = "booting")
      /\ jr.reset # 0 /\ jr.pending = op.session /\ jr.receipt = 0 /\ <<jr.reset, op.session>> \in Genuine
      /\ control.routed = op.session
  BY <1>1, <1>2 DEF OpInv, BootInv
<1>4. pc' = pc \/ pc' = "idle"
  BY DEF BootPublish
<1>5. /\ SupervisorTypes' /\ PackageTypes' /\ LaneTypes' /\ SentTypes' /\ SentInv' /\ TurnInv'
      /\ Genuine' = Genuine
  BY <1>1, <1>2, <1>4, DeskKept DEF Moves, SupervisorTypes, NoOp, OperationFields
<1>6. OpInv'
  BY <1>2 DEF OpInv, BootInv, AckInv, RecoverInv, NoOp
<1>7. CASE packages[jr.reset].auto
  <2>1. credited' = credited /\ jr' = [Provisional EXCEPT !.admission = "none", !.boot = jr.reset, !.booted = op.session]
    BY <1>7 DEF BootPublish
  <2>2. Has(jr', JournalFields)
    BY <1>1, <2>1 DEF Provisional, JournalTypes, JournalFields
  <2>3. /\ jr'.session = jr.session /\ jr'.epoch = jr.epoch /\ jr'.reset = jr.reset /\ jr'.pending = jr.pending
        /\ jr'.maintenance = jr.maintenance /\ jr'.boot = jr.reset /\ jr'.admission = "none"
        /\ jr'.booted = op.session /\ jr'.receipt = 0 /\ jr'.intent = jr.intent /\ jr'.failed = jr.failed
    BY <1>1, <1>3, <2>1 DEF Provisional, JournalTypes, JournalFields
  <2>4. JournalTypes' /\ GrantInv' /\ HeldInv' /\ AdmissionInv' /\ RoutingExplained'
    BY <1>1, <1>2, <2>1, <2>2, <2>3 DEF JournalTypes, GrantInv, HeldInv, AdmissionInv,
       RoutingExplained, desk
  <2>5. TransferInv'
    BY <1>1, <1>2, <1>3, <1>5, <2>1, <2>3 DEF TransferInv, desk
  <2>6. PlaceInv'
    BY <1>1, <1>2, <1>4, <2>3 DEF PlaceInv, lane, desk
  <2>7. CreditInv' /\ EarnedInv'
    BY <1>2, <1>4, <2>1, <2>3, CreditStays
  <2>8. QED BY <1>5, <1>6, <2>4, <2>5, <2>6, <2>7 DEF ResetInv, ResetTypes
<1>8. CASE ~ packages[jr.reset].auto
  <2>1. /\ credited' = credited \cup {jr.reset}
        /\ jr' = [NewEpoch(op.session) EXCEPT !.admission = "none", !.boot = jr.reset, !.booted = op.session]
    BY <1>8 DEF BootPublish
  <2>2. Has(jr', JournalFields)
    BY <1>1, <2>1 DEF NewEpoch, JournalTypes, JournalFields
  <2>3. /\ jr'.session = op.session /\ jr'.epoch = jr.epoch + 1 /\ jr'.reset = 0 /\ jr'.pending = 0
        /\ jr'.maintenance = jr.maintenance /\ jr'.boot = jr.reset /\ jr'.admission = "none"
        /\ jr'.booted = op.session /\ jr'.receipt = 0 /\ jr'.intent = jr.intent /\ jr'.failed = jr.failed
        /\ jr'.awaiting = FALSE
    BY <1>1, <1>3, <2>1 DEF NewEpoch, JournalTypes, JournalFields
  <2>4. JournalTypes' /\ GrantInv' /\ AdmissionInv' /\ RoutingExplained'
    BY <1>1, <1>2, <1>3, <2>2, <2>3 DEF JournalTypes, GrantInv, AdmissionInv, RoutingExplained, desk
  <2>5. HeldInv'
    BY <1>1, <1>2, <2>1, <2>3 DEF HeldInv, desk
  <2>6. TransferInv'
    BY <1>1, <1>2, <1>3, <1>5, <2>1, <2>3 DEF TransferInv, desk
  <2>7. PlaceInv'
    BY <1>1, <1>2, <1>4, <2>3 DEF PlaceInv, lane, desk
  <2>8. CreditInv' /\ EarnedInv'
    BY <1>1, <1>2, <1>3, <1>4, <1>8, <2>1, <2>3, EpochEarned DEF TransferInv
  <2>9. QED BY <1>5, <1>6, <2>4, <2>5, <2>6, <2>7, <2>8 DEF ResetInv, ResetTypes
<1>9. QED BY <1>7, <1>8

-----------------------------------------------------------------------------
(* Acceptance, recovery, death *)

\* The supervisor accepts its transfer.
LEMMA AckIntentKeeps ==
    ASSUME ResetInv, UNCHANGED cast, AckIntent
    PROVE  ResetInv'
<1>1. /\ JournalTypes /\ SupervisorTypes /\ PlaceInv /\ GrantInv /\ TransferInv /\ AdmissionInv /\ HeldInv
      /\ RoutingExplained
  BY DEF ResetInv, ResetTypes
<1>2. /\ UNCHANGED lane /\ UNCHANGED desk /\ UNCHANGED <<jr, pc, mem, control, grant, credited>>
      /\ pc = "acknowledge" /\ jr.boot = sup.pkg /\ jr.reset = sup.pkg
  BY DEF AckIntent, supervisor, native, lane, desk
<1>3. op'.kind = "acknowledge" /\ op'.by = "supervisor" /\ Has(op', OperationFields)
  BY DEF AckIntent, NoOp, Has, OperationFields
<1>4. /\ SupervisorTypes' /\ PackageTypes' /\ LaneTypes' /\ SentTypes' /\ SentInv' /\ TurnInv'
      /\ Genuine' = Genuine
  BY <1>1, <1>2, <1>3, DeskKept DEF Moves, SupervisorTypes
<1>5. JournalTypes' /\ GrantInv' /\ HeldInv' /\ AdmissionInv' /\ RoutingExplained'
  BY <1>1, <1>2 DEF JournalTypes, GrantInv, HeldInv, AdmissionInv, RoutingExplained, desk
<1>6. TransferInv' /\ PlaceInv'
  BY <1>1, <1>2, <1>4 DEF TransferInv, PlaceInv, lane, desk
<1>7. OpInv'
  BY <1>2, <1>3 DEF OpInv, BootInv, AckInv, RecoverInv, desk
<1>8. CreditInv' /\ EarnedInv'
  BY <1>2, CreditStays
<1>9. QED BY <1>4, <1>5, <1>6, <1>7, <1>8 DEF ResetInv, ResetTypes

\* The one step that counts an epoch: its package is credited for the first time.
LEMMA AcknowledgeKeeps ==
    ASSUME ResetInv, UNCHANGED cast, Acknowledge
    PROVE  ResetInv'
<1> USE DEF Has
<1>1. /\ JournalTypes /\ SupervisorTypes /\ PlaceInv /\ GrantInv /\ TransferInv /\ AdmissionInv /\ HeldInv
      /\ RoutingExplained /\ OpInv /\ SentInv
  BY DEF ResetInv, ResetTypes
<1>2. /\ UNCHANGED lane /\ UNCHANGED desk /\ UNCHANGED <<mem, control, grant>> /\ op.kind = "acknowledge"
      /\ op' = NoOp /\ pc' = "acknowledged" /\ credited' = credited \cup {sup.pkg}
  BY DEF Acknowledge, native, lane, desk
<1>3. pc = "acknowledge" /\ jr.reset = sup.pkg /\ jr.boot = sup.pkg /\ sup.phase = "waiting_fresh"
  BY <1>1, <1>2 DEF OpInv, AckInv, PlaceInv
<1>4. /\ sup.pkg \in 1 .. Len(packages) /\ packages[sup.pkg].auto /\ jr.reset # 0
      /\ sent.clear[sup.pkg] = 1 /\ sent.prompt[sup.pkg] = 1
  BY <1>1, <1>3 DEF PlaceInv, SentInv, Prompting
<1>5. /\ sup.pkg \notin credited /\ sup.pkg > jr.failed /\ <<sup.pkg, jr.booted>> \in Genuine
      /\ jr.pending = jr.booted /\ control.routed = jr.pending
  BY <1>1, <1>3, <1>4 DEF TransferInv
<1>6. /\ SupervisorTypes' /\ PackageTypes' /\ LaneTypes' /\ SentTypes' /\ SentInv' /\ TurnInv'
      /\ Genuine' = Genuine
  BY <1>1, <1>2, DeskKept DEF Moves, SupervisorTypes, NoOp, OperationFields
<1>7. jr' = [NewEpoch(jr.pending) EXCEPT !.receipt = sup.pkg, !.maintenance = FALSE]
  BY DEF Acknowledge
<1>8. Has(jr', JournalFields)
  BY <1>1, <1>7 DEF NewEpoch, JournalTypes, JournalFields
<1>9. /\ jr'.session = jr.pending /\ jr'.epoch = jr.epoch + 1 /\ jr'.reset = 0 /\ jr'.pending = 0
      /\ jr'.boot = jr.boot /\ jr'.admission = jr.admission /\ jr'.awaiting = FALSE
      /\ jr'.booted = jr.booted /\ jr'.receipt = sup.pkg /\ jr'.intent = jr.intent /\ jr'.failed = jr.failed
  BY <1>1, <1>7 DEF NewEpoch, JournalTypes, JournalFields
<1>10. JournalTypes' /\ GrantInv' /\ RoutingExplained'
  BY <1>1, <1>2, <1>5, <1>8, <1>9 DEF JournalTypes, GrantInv, RoutingExplained
<1>11. AdmissionInv'
  BY <1>1, <1>4, <1>9 DEF AdmissionInv
<1>12. HeldInv'
  <2>1. ~ (\A p \in credited' : packages[p].auto => p <= jr.failed)
    <3>1. ~ (sup.pkg <= jr.failed)
      BY <1>1, <1>4, <1>5 DEF JournalTypes
    <3>2. sup.pkg \in credited'
      BY <1>2
    <3>3. QED BY <1>4, <3>1, <3>2
  <2>2. QED BY <1>1, <1>2, <1>9, <2>1 DEF HeldInv, desk
<1>13. TransferInv'
  BY <1>2, <1>3, <1>5, <1>6, <1>9 DEF TransferInv, desk
<1>14. PlaceInv'
  BY <1>1, <1>2, <1>3 DEF PlaceInv, lane, desk
<1>15. OpInv'
  BY <1>2 DEF OpInv, BootInv, AckInv, RecoverInv, NoOp
<1>16. CreditInv' /\ EarnedInv'
  BY <1>2, <1>4, <1>5, <1>9, EpochEarned
<1>17. QED BY <1>6, <1>10, <1>11, <1>12, <1>13, <1>14, <1>15, <1>16 DEF ResetInv, ResetTypes

\* A pause, an authority, a death and a deadline.
LEMMA BesidesKeeps ==
    ASSUME ResetInv, UNCHANGED cast,
           \/ SetPause \/ (\E kind \in {"title", "current", "prompt"} : Authorize(kind))
           \/ OperatorCrash \/ Crash \/ Expire
    PROVE  ResetInv'
<1>1. /\ JournalTypes /\ SupervisorTypes /\ LaneTypes /\ PlaceInv /\ GrantInv /\ TransferInv /\ AdmissionInv
      /\ HeldInv /\ RoutingExplained /\ OpInv
  BY DEF ResetInv, ResetTypes
<1>2. UNCHANGED lane /\ UNCHANGED desk /\ UNCHANGED <<jr, credited>>
  BY DEF SetPause, Authorize, OperatorCrash, Crash, Expire, supervisor, native, lane, desk
<1>3. /\ control'.routed = control.routed /\ Has(control', {"routed", "paused"})
  BY <1>1 DEF SetPause, Authorize, OperatorCrash, Crash, Expire, SupervisorTypes, Has
<1>4. (pc' = pc /\ mem' = mem) \/ (pc' = "idle" /\ Has(mem', MemoryFields))
  BY DEF SetPause, Authorize, OperatorCrash, Crash, Expire, supervisor, Has, NoMem, MemoryFields
<1>5. \/ op' = NoOp
      \/ op' = op /\ (pc' = pc \/ op.by = "operator") /\ (UNCHANGED grant \/ op = NoOp)
  BY DEF SetPause, Authorize, OperatorCrash, Crash, Expire, supervisor, Leasable
<1>6. Has(op', OperationFields)
  BY <1>1, <1>5 DEF SupervisorTypes, Has, NoOp, OperationFields
<1>7. /\ SupervisorTypes' /\ PackageTypes' /\ LaneTypes' /\ SentTypes' /\ SentInv' /\ TurnInv'
      /\ Genuine' = Genuine
  BY <1>1, <1>2, <1>3, <1>4, <1>6, DeskKept DEF Moves, SupervisorTypes
<1>8. JournalTypes' /\ HeldInv' /\ AdmissionInv'
  BY <1>1, <1>2, <1>3 DEF JournalTypes, HeldInv, AdmissionInv, desk
<1>9. TransferInv' /\ PlaceInv'
  BY <1>1, <1>2, <1>3, <1>4, <1>7 DEF TransferInv, PlaceInv, lane, desk
<1>10. GrantInv' /\ (UNCHANGED grant \/ (~ grant.on /\ ~ jr.intent))
  <2>1. ASSUME NEW kind, Authorize(kind) PROVE GrantInv' /\ ~ grant.on /\ ~ jr.intent
    <3>1. /\ ~ grant.on /\ ~ jr.intent /\ sup.phase \in {"waiting_title", "waiting_fresh"}
          /\ grant'.jr = jr /\ grant'.session = live /\ grant'.sup = sup /\ grant'.control = control
      BY <2>1 DEF Authorize
    <3>2. live # 0
      BY <1>1 DEF LaneTypes, Contexts
    <3>3. QED BY <1>1, <3>1, <3>2 DEF GrantInv, JournalTypes, SupervisorTypes
  <2>2. CASE UNCHANGED grant
    BY <1>1, <2>2 DEF GrantInv
  <2>3. QED BY <2>1, <2>2 DEF SetPause, OperatorCrash, Crash, Expire
<1>11. RoutingExplained'
  BY <1>1, <1>2, <1>3, <1>10 DEF RoutingExplained
<1>12. OpInv'
  <2>1. CASE op' = NoOp
    BY <2>1 DEF OpInv, BootInv, AckInv, RecoverInv, NoOp
  <2>2. CASE op' = op /\ (pc' = pc \/ op.by = "operator") /\ UNCHANGED grant
    BY <1>1, <1>2, <1>3, <1>7, <2>2 DEF OpInv, BootInv, AckInv, RecoverInv, Frozen, desk
  <2>3. QED BY <1>5, <2>1, <2>2
<1>13. CreditInv' /\ EarnedInv'
  BY <1>2, <1>4, CreditStays
<1>14. QED BY <1>7, <1>8, <1>9, <1>10, <1>11, <1>12, <1>13 DEF ResetInv, ResetTypes

\* The authority of a recovery is for the lane in the window, which is newer than the package.
LEMMA BoundIsNew ==
    ASSUME ResetInv, grant.on, RecoveryBound
    PROVE  contexts > packages[sup.pkg].born /\ sup.phase \in {"waiting_title", "waiting_fresh"} /\ sup = grant.sup
<1>1. sup = grant.sup /\ Context(sup.pkg) = grant.session /\ grant.session # 0
  BY DEF RecoveryBound, ResetInv, GrantInv
<1>2. live \in Created(sup.pkg) /\ live = contexts
  BY <1>1 DEF Context, ResetInv, ResetTypes, LaneTypes
<1>3. contexts > packages[sup.pkg].born
  BY <1>2 DEF Created
<1>4. QED BY <1>1, <1>3 DEF ResetInv, GrantInv

\* Recovery: the intent is saved, and the routing is still the old one.
LEMMA RecoverIntentKeeps ==
    ASSUME ResetInv, UNCHANGED cast, RecoverIntent
    PROVE  ResetInv'
<1> USE DEF Has
<1>1. /\ JournalTypes /\ SupervisorTypes /\ PlaceInv /\ GrantInv /\ TransferInv /\ AdmissionInv /\ HeldInv
      /\ RoutingExplained
  BY DEF ResetInv, ResetTypes
<1>2. /\ UNCHANGED lane /\ UNCHANGED desk /\ UNCHANGED <<mem, control, grant, credited>> /\ pc = "idle"
      /\ pc' = "recover" /\ grant.on /\ RecoveryBound /\ jr.reset # 0
      /\ jr \in {grant.jr, [grant.jr EXCEPT !.intent = TRUE]} /\ jr' = [jr EXCEPT !.intent = TRUE]
  BY DEF RecoverIntent, RecoveryAnnounced, ReadyClear, native, lane, desk
<1>3. op'.kind = "reroute" /\ op'.by = "recovery" /\ Has(op', OperationFields)
  BY DEF RecoverIntent, NoOp, OperationFields
<1>4. contexts > packages[sup.pkg].born /\ sup.phase \in {"waiting_title", "waiting_fresh"} /\ sup = grant.sup
  BY <1>2, BoundIsNew
<1>5. /\ SupervisorTypes' /\ PackageTypes' /\ LaneTypes' /\ SentTypes' /\ SentInv' /\ TurnInv'
      /\ Genuine' = Genuine
  BY <1>1, <1>2, <1>3, DeskKept DEF Moves, SupervisorTypes
<1>6. Has(jr', JournalFields) /\ jr'.intent
  BY <1>1, <1>2 DEF JournalTypes, JournalFields
<1>7. \A f \in JournalFields \ {"intent"} : jr'[f] = jr[f] /\ jr'[f] = grant.jr[f]
  BY <1>1, <1>2 DEF JournalTypes, JournalFields, GrantInv
<1>8. /\ jr'.session = jr.session /\ jr'.epoch = jr.epoch /\ jr'.reset = jr.reset /\ jr'.pending = jr.pending
      /\ jr'.maintenance = jr.maintenance /\ jr'.boot = jr.boot /\ jr'.admission = jr.admission
      /\ jr'.booted = jr.booted /\ jr'.receipt = jr.receipt /\ jr'.failed = jr.failed
      /\ jr'.awaiting = jr.awaiting
  BY <1>7 DEF JournalFields
<1>9. jr'.pending \in {0, grant.session}
  BY <1>2, <1>7 DEF RecoveryBound, JournalFields
<1>10. JournalTypes' /\ GrantInv' /\ HeldInv' /\ AdmissionInv'
  BY <1>1, <1>2, <1>6, <1>8 DEF JournalTypes, GrantInv, HeldInv, AdmissionInv, desk
<1>11. RoutingExplained'
  BY <1>1, <1>2, <1>6, <1>8 DEF RoutingExplained
<1>12. TransferInv'
  BY <1>1, <1>2, <1>5, <1>8 DEF TransferInv, desk
<1>13. PlaceInv'
  BY <1>1, <1>2, <1>4 DEF PlaceInv, lane, desk
<1>14. OpInv'
  <2>1. Frozen'
    BY <1>2, <1>7 DEF Frozen
  <2>2. QED BY <1>2, <1>3, <1>4, <1>6, <1>8, <1>9, <2>1 DEF OpInv, BootInv, AckInv, RecoverInv, desk
<1>15. CreditInv' /\ EarnedInv'
  BY <1>2, <1>8, CreditStays
<1>16. QED BY <1>5, <1>10, <1>11, <1>12, <1>13, <1>14, <1>15 DEF ResetInv, ResetTypes

\* Recovery: the routing is written, as the intent has announced.
LEMMA RecoverRouteKeeps ==
    ASSUME ResetInv, UNCHANGED cast, RecoverRoute
    PROVE  ResetInv'
<1> USE DEF Has
<1>1. /\ JournalTypes /\ SupervisorTypes /\ PlaceInv /\ GrantInv /\ TransferInv /\ AdmissionInv /\ HeldInv
      /\ RoutingExplained /\ OpInv
  BY DEF ResetInv, ResetTypes
<1>2. /\ UNCHANGED lane /\ UNCHANGED desk /\ UNCHANGED <<jr, pc, mem, grant, credited>> /\ op.kind = "reroute"
      /\ control' = [grant.control EXCEPT !.routed = grant.session] /\ op' = [op EXCEPT !.kind = "recover"]
  BY DEF RecoverRoute, RecoveredControl, supervisor, native, lane, desk
<1>3. /\ op.by = "recovery" /\ pc = "recover" /\ grant.on /\ sup = grant.sup /\ Frozen /\ jr.intent
      /\ jr.reset # 0 /\ jr.pending \in {0, grant.session}
  BY <1>1, <1>2 DEF OpInv, RecoverInv
<1>4. /\ op'.kind = "recover" /\ op'.by = op.by /\ Has(op', OperationFields)
      /\ control'.routed = grant.session /\ Has(control', {"routed", "paused"})
  BY <1>1, <1>2, <1>3 DEF OperationFields, SupervisorTypes, GrantInv
<1>5. /\ SupervisorTypes' /\ PackageTypes' /\ LaneTypes' /\ SentTypes' /\ SentInv' /\ TurnInv'
      /\ Genuine' = Genuine
  BY <1>1, <1>2, <1>4, DeskKept DEF Moves, SupervisorTypes
<1>6. JournalTypes' /\ GrantInv' /\ HeldInv' /\ AdmissionInv' /\ RoutingExplained'
  BY <1>1, <1>2, <1>3, <1>4 DEF JournalTypes, GrantInv, HeldInv, AdmissionInv, RoutingExplained,
     desk
<1>7. TransferInv'
  <2>1. jr.boot # 0 => jr.booted # 0
    BY <1>1 DEF TransferInv, Genuine
  <2>2. jr.boot = jr.reset => jr.pending = grant.session
    BY <1>1, <1>3, <2>1 DEF TransferInv
  <2>3. QED BY <1>1, <1>2, <1>4, <1>5, <2>2 DEF TransferInv, desk
<1>8. PlaceInv'
  BY <1>1, <1>2 DEF PlaceInv, lane, desk
<1>9. OpInv'
  <2>1. Frozen'
    BY <1>2, <1>3 DEF Frozen
  <2>2. QED BY <1>2, <1>3, <1>4, <2>1 DEF OpInv, BootInv, AckInv, RecoverInv, desk
<1>10. CreditInv' /\ EarnedInv'
  BY <1>2, CreditStays
<1>11. QED BY <1>5, <1>6, <1>7, <1>8, <1>9, <1>10 DEF ResetInv, ResetTypes

\* Recovery: the journal follows, with production held.
LEMMA RecoverJournalKeeps ==
    ASSUME ResetInv, UNCHANGED cast, RecoverJournal
    PROVE  ResetInv'
<1> USE DEF Has
<1>1. /\ JournalTypes /\ SupervisorTypes /\ PlaceInv /\ GrantInv /\ TransferInv /\ OpInv
  BY DEF ResetInv, ResetTypes
<1>2. /\ UNCHANGED lane /\ UNCHANGED desk /\ UNCHANGED <<mem, control, grant, credited>> /\ op.kind = "recover"
      /\ op' = NoOp /\ pc' = "recovered" /\ jr' = RecoveredJournal
  BY DEF RecoverJournal, native, lane, desk
<1>3. pc = "recover" /\ grant.on /\ sup = grant.sup /\ Frozen /\ control.routed = grant.session
  BY <1>1, <1>2 DEF OpInv, RecoverInv
<1>4. /\ sup.phase \in {"waiting_title", "waiting_fresh"} /\ contexts > packages[sup.pkg].born
      /\ sup.pkg \in 1 .. Len(packages) /\ packages[sup.pkg].auto
  BY <1>1, <1>3 DEF PlaceInv
<1>5. /\ SupervisorTypes' /\ PackageTypes' /\ LaneTypes' /\ SentTypes' /\ SentInv' /\ TurnInv'
      /\ Genuine' = Genuine
  BY <1>1, <1>2, DeskKept DEF Moves, SupervisorTypes, NoOp, OperationFields
<1>6. Has(jr', JournalFields)
  BY <1>1, <1>2, <1>3 DEF RecoveredJournal, GrantInv, JournalFields
<1>7. /\ jr'.session = grant.session /\ jr'.reset = 0 /\ jr'.pending = 0 /\ jr'.awaiting = FALSE
      /\ jr'.admission = "none" /\ jr'.failed = sup.pkg /\ jr'.maintenance
      /\ ~ jr'.intent
  BY <1>1, <1>2, <1>3 DEF RecoveredJournal, GrantInv, JournalFields
<1>8. /\ jr'.epoch = grant.jr.epoch /\ jr'.boot = grant.jr.boot /\ jr'.booted = grant.jr.booted
      /\ jr'.receipt = grant.jr.receipt
  BY <1>1, <1>2, <1>3 DEF RecoveredJournal, GrantInv, JournalFields
<1>9. jr'.epoch = jr.epoch /\ jr'.boot = jr.boot /\ jr'.booted = jr.booted /\ jr'.receipt = jr.receipt
  BY <1>3, <1>8 DEF Frozen, JournalFields
<1>10. JournalTypes'
  BY <1>1, <1>4, <1>6, <1>7, <1>9 DEF JournalTypes
<1>11. GrantInv' /\ HeldInv' /\ AdmissionInv' /\ RoutingExplained'
  BY <1>1, <1>2, <1>3, <1>4, <1>7 DEF GrantInv, HeldInv, AdmissionInv, RoutingExplained, desk
<1>12. TransferInv'
  BY <1>1, <1>2, <1>5, <1>7, <1>9 DEF TransferInv
<1>13. PlaceInv'
  BY <1>1, <1>2, <1>4, <1>7 DEF PlaceInv, lane, desk
<1>14. OpInv'
  BY <1>2 DEF OpInv, BootInv, AckInv, RecoverInv, NoOp
<1>15. CreditInv' /\ EarnedInv'
  BY <1>2, <1>9, CreditStays
<1>16. QED BY <1>5, <1>10, <1>11, <1>12, <1>13, <1>14, <1>15 DEF ResetInv, ResetTypes

\* The supervisor files the recovery and gives the authority up.
LEMMA RecoverSaveKeeps ==
    ASSUME ResetInv, UNCHANGED cast, RecoverSave
    PROVE  ResetInv'
<1> USE DEF Has, SupervisorFields, Watched, Resetting, Prompting
<1>1. /\ JournalTypes /\ SupervisorTypes /\ PackageTypes /\ LaneTypes /\ SentTypes
      /\ PlaceInv /\ OpInv /\ GrantInv /\ TransferInv /\ AdmissionInv /\ HeldInv
      /\ RoutingExplained /\ CreditInv /\ EarnedInv /\ SentInv /\ TurnInv
  BY DEF ResetInv, ResetTypes
<1>2. /\ UNCHANGED lane /\ UNCHANGED <<mem, jr, control, packages, op, sent, credited, queued>> /\ pc' = "idle"
      /\ grant' = NoGrant /\ sup' = [sup EXCEPT !.phase = "maintenance_recovered"]
  BY DEF RecoverSave, native, lane
<1>3. \/ pc = "recovered" /\ ~ jr.intent
      \/ pc = "idle" /\ op = NoOp /\ jr.session = grant.session /\ control.routed = grant.session
  <2>1. CASE pc = "recovered"
    BY <1>1, <2>1 DEF PlaceInv
  <2>2. CASE pc # "recovered"
    <3>1. pc = "idle" /\ op = NoOp /\ grant.on /\ jr.session = grant.session /\ control = RecoveredControl
      BY <2>2 DEF RecoverSave, Leasable
    <3>2. control.routed = grant.session
      BY <1>1, <3>1 DEF RecoveredControl, GrantInv
    <3>3. QED BY <3>1, <3>2
  <2>3. QED BY <2>1, <2>2
<1>4. sup.phase \in {"waiting_title", "waiting_fresh"} /\ contexts > packages[sup.pkg].born
  BY <1>1, BoundIsNew DEF RecoverSave, PlaceInv
<1>5. /\ sup'.phase = "maintenance_recovered" /\ sup'.pkg = sup.pkg /\ sup'.fresh = sup.fresh
      /\ sup'.decisions = sup.decisions /\ Has(sup', SupervisorFields)
  BY <1>1, <1>2 DEF SupervisorTypes
<1>6. JournalTypes' /\ SupervisorTypes' /\ PackageTypes' /\ LaneTypes' /\ SentTypes'
  BY <1>1, <1>2, <1>5 DEF JournalTypes, SupervisorTypes, PackageTypes, LaneTypes, SentTypes, lane
<1>7. Genuine' = Genuine
  BY <1>2 DEF Genuine, lane
<1>8. PlaceInv' /\ SentInv'
  BY <1>1, <1>2, <1>4, <1>5 DEF PlaceInv, SentInv, lane
<1>9. GrantInv' /\ AdmissionInv' /\ HeldInv' /\ RoutingExplained'
  BY <1>1, <1>2, <1>3 DEF GrantInv, AdmissionInv, HeldInv, RoutingExplained, NoGrant
<1>10. TransferInv'
  BY <1>1, <1>2, <1>7 DEF TransferInv
<1>11. OpInv'
  <2>1. CASE op = NoOp
    BY <1>2, <2>1 DEF OpInv, BootInv, AckInv, RecoverInv, NoOp
  <2>2. CASE pc = "recovered"
    <3>1. op = NoOp \/ (op.kind \in {"route", "publish"} /\ op.by = "operator")
      BY <1>1, <2>2 DEF OpInv, BootInv, AckInv, RecoverInv
    <3>2. QED BY <1>1, <1>2, <1>7, <2>1, <3>1 DEF OpInv, BootInv, AckInv, RecoverInv
  <2>3. QED BY <1>3, <2>1, <2>2
<1>12. CreditInv' /\ EarnedInv'
  BY <1>1, <1>2, <1>5, <1>7 DEF CreditInv, EarnedInv, lane
<1>13. TurnInv'
  <2>1. ~ Spent
    <3>1. Spent => turn \in Turns
      BY <1>1, InHand DEF Spent, LaneTypes
    <3>2. packages[sup.pkg].born \in Nat /\ contexts \in Nat
      BY <1>1, <1>4 DEF PlaceInv, PackageTypes, LaneTypes, Contexts
    <3>3. QED BY <1>1, <1>4, <3>1, <3>2 DEF TurnInv
  <2>2. ~ Spent'
    BY <1>2, <2>1 DEF Spent, Idle, lane
  <2>3. QED BY <1>1, <1>2, <1>4, <1>5, <2>2 DEF TurnInv, lane
<1>14. QED BY <1>6, <1>8, <1>9, <1>10, <1>11, <1>12, <1>13 DEF ResetInv, ResetTypes

-----------------------------------------------------------------------------
(* The invariant and the properties *)

\* A new installation satisfies the invariant.
LEMMA ResetStarts == Init => ResetInv
<1> SUFFICES ASSUME Init PROVE ResetInv
  OBVIOUS
<1> USE DEF Has, Init
<1>1. JournalTypes
  BY DEF JournalTypes, JournalFields
<1>2. SupervisorTypes
  BY DEF SupervisorTypes, Monitoring, NoMem, NoOp, SupervisorFields, MemoryFields,
     OperationFields, Watched
<1>3. PackageTypes
  <2>1. packages \in Seq({})
    OBVIOUS
  <2>2. QED BY <2>1, ResetAssumption DEF PackageTypes
<1>4. LaneTypes
  <2>1. \A c \in Contexts : (IF c = 1 THEN <<Human>> ELSE <<>>) \in Seq(Int)
    BY DEF Human
  <2>2. QED BY <2>1, ResetAssumption DEF LaneTypes, Contexts
<1>5. SentTypes
  BY DEF SentTypes, SentFields
<1>6. PlaceInv /\ OpInv /\ GrantInv /\ AdmissionInv /\ RoutingExplained
  BY DEF PlaceInv, OpInv, BootInv, AckInv, RecoverInv, GrantInv, AdmissionInv, RoutingExplained,
     Monitoring, NoOp,
     NoGrant
<1>7. TransferInv /\ HeldInv
  BY DEF TransferInv, HeldInv
<1>8. CreditInv /\ EarnedInv
  BY FS_EmptySet DEF CreditInv, EarnedInv, Monitoring
<1>9. SentInv /\ TurnInv
  BY DEF SentInv, TurnInv, Spent, Monitoring, Resetting, Prompting
<1>10. QED BY <1>1, <1>2, <1>3, <1>4, <1>5, <1>6, <1>7, <1>8, <1>9 DEF ResetInv, ResetTypes

\* Every step keeps it.
LEMMA ResetKeeps == ResetInv /\ [Next]_vars => ResetInv'
<1> SUFFICES ASSUME ResetInv, [Next]_vars PROVE ResetInv'
  OBVIOUS
<1>1. CASE UNCHANGED vars
  <2>1. UNCHANGED journal /\ UNCHANGED lane /\ UNCHANGED <<sup, pc, mem, sent, queued>>
    BY <1>1 DEF vars, supervisor, native, journal, lane
  <2>2. UNCHANGED files /\ Grows
    BY <2>1 DEF files, journal, lane, Grows, Spent, Idle, ResetInv, ResetTypes, LaneTypes, Contexts
  <2>3. QED BY <2>2, GrowthKeeps
<1>2. CASE Next
  <2>1. UNCHANGED cast
    BY <1>2 DEF Next
  <2>2. CASE SupervisorStep
    <3>1. CASE BootBySupervisor
      BY <2>1, <3>1, BootIntentKeeps DEF BootBySupervisor
    <3>2. CASE RequestReset
      BY <2>1, <3>2, WorkflowKeeps
    <3>3. CASE Seal
      BY <2>1, <3>3, PrepareKeeps
    <3>4. CASE AckIntent \/ Acknowledge
      BY <2>1, <3>4, AckIntentKeeps, AcknowledgeKeeps
    <3>5. QED BY <2>1, <2>2, <3>1, <3>2, <3>3, <3>4, SupervisorKeeps DEF SupervisorStep
  <2>3. CASE WorkflowStep
    BY <2>1, <2>3, WorkflowKeeps, SupervisorKeeps DEF WorkflowStep
  <2>4. CASE OperatorStep
    <3>1. CASE \E c \in 1 .. contexts : BootByHand(c)
      <4>1. PICK c \in 1 .. contexts : BootByHand(c)
        BY <3>1
      <4>2. PICK by : by = "operator"
        OBVIOUS
      <4>3. BootIntent(c, by) /\ pc' = pc
        BY <4>1, <4>2 DEF BootByHand
      <4>4. (by = "operator" /\ pc' = pc) \/ (by = "supervisor" /\ pc = "bootstrap" /\ pc' = "booting")
        BY <4>2, <4>3
      <4>5. QED BY <2>1, <4>3, <4>4, BootIntentKeeps
    <3>2. CASE SetPause \/ OperatorCrash \/ \E kind \in {"title", "current", "prompt"} : Authorize(kind)
      BY <2>1, <3>2, BesidesKeeps
    <3>3. QED BY <2>1, <2>4, <3>1, <3>2, PrepareKeeps, RecoverIntentKeeps, RecoverRouteKeeps,
                 RecoverJournalKeeps,
                 RecoverSaveKeeps DEF OperatorStep
  <2>5. CASE LaneStep
    BY <2>1, <2>5, LaneKeeps
  <2>6. CASE BootRoute \/ BootPublish
    BY <2>1, <2>6, BootRouteKeeps, BootPublishKeeps
  <2>7. CASE Expire \/ Crash
    BY <2>1, <2>7, BesidesKeeps
  <2>8. QED BY <1>2, <2>2, <2>3, <2>4, <2>5, <2>6, <2>7 DEF Next
<1>3. QED BY <1>1, <1>2

\* It holds in every state that crashes, people and the supervisor can lead to.
LEMMA ResetInvariant == Spec => []ResetInv
BY ResetStarts, ResetKeeps, PTL DEF Spec

\* No clear, prompt or instruction is sent twice, for any number of crashes, refusals and lost
\* acknowledgements around it (auto_reset.py saves the intent of each before it acts and never
\* takes a phase back to it).
THEOREM InputAlwaysOnce == Spec => []InputOnce
<1>1. ResetInv => InputOnce
  BY DEF ResetInv, SentInv, TurnInv, InputOnce
<1>2. QED BY <1>1, ResetInvariant, PTL

\* The epoch of the journal counts the packages that were accepted, and what the supervisor
\* calls verified is one of them (loop.py bootstrap and acknowledge_native_reset).
THEOREM AlwaysOneEpochPerReset == Spec => []OneEpochPerReset
<1>1. ResetInv => OneEpochPerReset
  BY DEF ResetInv, CreditInv, OneEpochPerReset
<1>2. QED BY <1>1, ResetInvariant, PTL

\* Whoever acts on the lane, an epoch is earned by a lane that is new since its package was sealed
\* and was opened with its prompt, and an automatic one by one clear and one prompt (loop.py
\* bootstrap reads the transcript; auto_reset.py publish).
THEOREM ResetAlwaysGenuine == Spec => []GenuineReset
<1>1. ASSUME ResetInv PROVE GenuineReset
  <2> SUFFICES ASSUME NEW p \in credited
               PROVE  /\ \E c \in Created(p) : c # packages[p].previous /\ input[c] # <<>> /\ Head(input[c]) = p
                      /\ packages[p].auto => sent.clear[p] = 1 /\ sent.prompt[p] = 1
    BY DEF GenuineReset
  <2>1. PICK c \in 1 .. contexts : <<p, c>> \in Genuine
    BY <1>1 DEF ResetInv, EarnedInv
  <2>2. c > packages[p].born /\ c # packages[p].previous /\ input[c] # <<>> /\ Head(input[c]) = p
    BY <2>1 DEF Genuine
  <2>3. QED BY <1>1, <2>1, <2>2 DEF ResetInv, EarnedInv, Created
<1>2. QED BY <1>1, ResetInvariant, PTL

\* Work is admitted only in the routed lane of the journal, with no reset or transfer under way
\* (loop.py begin, and prepare_clear, bootstrap and recover_maintenance, which drop an admission).
THEOREM AdmissionAlwaysSettled == Spec => []AdmissionSettled
<1>1. ResetInv => AdmissionSettled
  BY DEF ResetInv, AdmissionInv, TransferInv, AdmissionSettled
<1>2. QED BY <1>1, ResetInvariant, PTL

\* At every step between the routing file and the journal, a routing that differs from the journal
\* is a transfer the journal has announced (loop.py bootstrap, recover_maintenance).
THEOREM RoutingAlwaysExplained == Spec => []RoutingExplained
<1>1. ResetInv => RoutingExplained
  BY DEF ResetInv
<1>2. QED BY <1>1, ResetInvariant, PTL

\* After a recovery no production is admitted until an automatic reset after the failed one has
\* been accepted (loop.py recover_maintenance and acknowledge_native_reset).
THEOREM RecoveredAlwaysHeld == Spec => []RecoveredHeld
<1>1. ResetInv => RecoveredHeld
  BY DEF ResetInv, HeldInv, AdmissionInv, RecoveredHeld
<1>2. QED BY <1>1, ResetInvariant, PTL
=============================================================================
