------------------------- MODULE ControlPlaneProofs -------------------------
(***************************************************************************)
(* Proofs about ControlPlane for every set of planes, commands, tokens and *)
(* catalogs, every nesting depth and every re-entry pattern.               *)
(***************************************************************************)
EXTENDS ControlPlane, TLAPS

-----------------------------------------------------------------------------
(* The call stack: popping, pushing and advancing the top frame *)

\* No call in progress is a stack too.
LEMMA EmptySeqType == <<>> \in Seq(Frame)
OBVIOUS

\* A frame is removed when its call returns; those below are untouched.
LEMMA PopFrame ==
    ASSUME stack \in Seq(Frame), stack # <<>>
    PROVE  /\ Top \in Frame
           /\ Len(stack) \in Nat \ {0}
           /\ Below \in Seq(Frame)
           /\ Len(Below) = Len(stack) - 1
           /\ DOMAIN Below = 1 .. (Len(stack) - 1)
           /\ \A i \in DOMAIN Below : Below[i] = stack[i] /\ i \in DOMAIN stack
           /\ Len(stack) \in DOMAIN stack
<1>1. Len(stack) \in Nat \ {0} OBVIOUS
<1>2. DOMAIN stack = 1 .. Len(stack) OBVIOUS
<1>3. Top \in Frame BY <1>1, <1>2 DEF Top
<1>4. Below = [i \in 1 .. (Len(stack) - 1) |-> stack[i]]
  BY <1>1 DEF Below
<1>5. \A i \in 1 .. (Len(stack) - 1) : stack[i] \in Frame
  BY <1>1, <1>2
<1>6. Below \in Seq(Frame) /\ Len(Below) = Len(stack) - 1
  BY <1>1, <1>4, <1>5
<1>7. QED BY <1>1, <1>2, <1>3, <1>4, <1>6

\* A call that waits for a callback adds one frame on top.
LEMMA PushFrame ==
    ASSUME NEW rest \in Seq(Frame), NEW f \in Frame
    PROVE  /\ Append(rest, f) \in Seq(Frame)
           /\ Len(rest) \in Nat
           /\ DOMAIN rest = 1 .. Len(rest)
           /\ DOMAIN Append(rest, f) = 1 .. (Len(rest) + 1)
           /\ \A i \in 1 .. Len(rest) : Append(rest, f)[i] = rest[i]
           /\ Append(rest, f)[Len(rest) + 1] = f
OBVIOUS

\* The top frame moves on to its next callback and keeps its other fields.
LEMMA AdvanceFrame ==
    ASSUME stack \in Seq(Frame), stack # <<>>, NEW pc \in Callbacks
    PROVE  /\ AdvanceTo(pc) \in Seq(Frame)
           /\ DOMAIN AdvanceTo(pc) = DOMAIN stack
           /\ Len(stack) \in DOMAIN stack
           /\ \A i \in DOMAIN stack : i # Len(stack) => AdvanceTo(pc)[i] = stack[i]
           /\ AdvanceTo(pc)[Len(stack)] = [Top EXCEPT !.pc = pc]
<1>1. Len(stack) \in Nat \ {0} /\ DOMAIN stack = 1 .. Len(stack)
  OBVIOUS
<1>2. Top \in Frame BY <1>1 DEF Top
<1>3. [Top EXCEPT !.pc = pc] \in Frame BY <1>2 DEF Frame
<1>4. AdvanceTo(pc) = [i \in 1 .. Len(stack) |->
                          IF i = Len(stack) THEN [Top EXCEPT !.pc = pc] ELSE stack[i]]
  BY <1>1 DEF Top, AdvanceTo
<1>5. \A i \in 1 .. Len(stack) : AdvanceTo(pc)[i] \in Frame
  BY <1>1, <1>3, <1>4
<1>6. AdvanceTo(pc) \in Seq(Frame)
  BY <1>1, <1>4, <1>5
<1>7. QED BY <1>1, <1>3, <1>4, <1>6

-----------------------------------------------------------------------------
(* Type correctness *)

\* The rows that dispatch writes are rows.
LEMMA RecordTypes ==
    ASSUME NEW c \in Commands
    PROVE  /\ Started(c) \in Record
           /\ Preview(c) \in Record
           /\ \A s \in Status : Finished(c, s) \in Record
BY DEF Record

\* A receipt, committed or not, is a row and is reported.
LEMMA PersistType ==
    ASSUME TypeOK, NEW c \in Commands, NEW s \in Status, NEW ran \in BOOLEAN,
           Persist(c, s, ran)
    PROVE  journal' \subseteq Record /\ last' \in Report \cup {NoReport}
<1>1. PICK o \in AppendOutcome :
          /\ AppendRecord(Finished(c, s), o)
          /\ Return(c, IF Raised(o) /\ ran THEN "uncertain" ELSE s, ran)
  BY DEF Persist
<1>2. journal' \subseteq Record
  BY <1>1, RecordTypes DEF AppendRecord, TypeOK
<1>3. (IF Raised(o) /\ ran THEN "uncertain" ELSE s) \in Status
  BY DEF Status, ExecutorStatus
<1>4. last' \in Report
  BY <1>1, <1>3 DEF Return, Report
<1>5. QED BY <1>2, <1>4

\* Reading the history and asking the first guard keep the types.
LEMMA ReadHistoryType ==
    ASSUME TypeOK, NEW p \in Planes, NEW c \in Commands, NEW canceled \in BOOLEAN,
           NEW confirmed \in BOOLEAN, NEW rest \in Seq(Frame),
           ReadHistory(p, c, canceled, confirmed, rest)
    PROVE  /\ journal' \subseteq Record
           /\ seen' \in [Planes -> SUBSET Commands]
           /\ stack' \in Seq(Frame)
           /\ last' \in Report \cup {NoReport}
<1> DEFINE known == seen[p] \cup EventCommands
           f == [plane |-> p, cmd |-> c, pc |-> "guard1",
                 canceled |-> canceled, confirmed |-> confirmed]
<1>1. CASE /\ Return(c, "blocked", FALSE)
           /\ stack' = rest
           /\ UNCHANGED <<journal, seen>>
  BY <1>1 DEF TypeOK, Return, Report, Status
<1>2. CASE /\ seen' = [seen EXCEPT ![p] = known \cup {c}]
           /\ Persist(c, IF canceled /\ ~(c \in known) THEN "canceled" ELSE "blocked", FALSE)
           /\ stack' = rest
  <2>1. (IF canceled /\ ~(c \in known) THEN "canceled" ELSE "blocked") \in Status
    BY DEF Status, ExecutorStatus
  <2>2. journal' \subseteq Record /\ last' \in Report \cup {NoReport}
    BY <1>2, <2>1, PersistType
  <2>3. seen' \in [Planes -> SUBSET Commands]
    BY <1>2 DEF TypeOK, EventCommands
  <2>4. QED BY <1>2, <2>2, <2>3
<1>3. CASE /\ seen' = [seen EXCEPT ![p] = known \cup {c}]
           /\ stack' = Append(rest, f)
           /\ UNCHANGED <<journal, last>>
  <2>1. f \in Frame BY DEF Frame, Callbacks
  <2>2. stack' \in Seq(Frame) BY <1>3, <2>1, PushFrame
  <2>3. seen' \in [Planes -> SUBSET Commands]
    BY <1>3 DEF TypeOK, EventCommands
  <2>4. QED BY <1>3, <2>2, <2>3 DEF TypeOK
<1>4. QED BY <1>1, <1>2, <1>3 DEF ReadHistory

\* Every variable keeps its type, whatever is called, fails or crashes.
LEMMA TypeStep == TypeOK /\ [Next]_vars => TypeOK'
<1> SUFFICES ASSUME TypeOK, [Next]_vars PROVE TypeOK'
  OBVIOUS
<1>1. ASSUME NEW p \in Planes, NEW c \in Commands, NEW canceled \in BOOLEAN,
             Dispatch(p, c, canceled)
      PROVE TypeOK'
  <2>1. stack \in Seq(Frame) BY DEF TypeOK
  <2>2. ReadHistory(p, c, canceled, FALSE, stack) BY <1>1 DEF Dispatch
  <2>3. /\ journal' \subseteq Record
        /\ seen' \in [Planes -> SUBSET Commands]
        /\ stack' \in Seq(Frame)
        /\ last' \in Report \cup {NoReport}
    BY <2>1, <2>2, ReadHistoryType
  <2>4. QED BY <1>1, <2>3 DEF Dispatch, TypeOK
<1>2. ASSUME NEW verdict \in BOOLEAN, GuardChecked(verdict)
      PROVE TypeOK'
  <2>1. /\ stack \in Seq(Frame) /\ stack # <<>>
    BY <1>2 DEF GuardChecked, TypeOK
  <2>2. /\ Top \in Frame /\ Below \in Seq(Frame)
        /\ AdvanceTo("guard2") \in Seq(Frame)
    BY <2>1, PopFrame, AdvanceFrame DEF Callbacks
  <2>3. Top.cmd \in Commands BY <2>2 DEF Frame
  <2>4. CASE /\ Persist(Top.cmd, IF Top.canceled THEN "canceled" ELSE "blocked", FALSE)
             /\ stack' = Below
    <3>1. (IF Top.canceled THEN "canceled" ELSE "blocked") \in Status
      BY DEF Status, ExecutorStatus
    <3>2. journal' \subseteq Record /\ last' \in Report \cup {NoReport}
      BY <2>3, <2>4, <3>1, PersistType
    <3>3. QED BY <1>2, <2>2, <2>4, <3>2 DEF GuardChecked, TypeOK
  <2>5. CASE \E o \in AppendOutcome :
                 /\ AppendRecord(Started(Top.cmd), o)
                 /\ \/ /\ ~Raised(o)
                       /\ stack' = AdvanceTo("guard2")
                       /\ UNCHANGED last
                    \/ /\ Raised(o)
                       /\ Return(Top.cmd, "blocked", FALSE)
                       /\ stack' = Below
    <3>1. journal' \subseteq Record
      BY <2>3, <2>5, RecordTypes DEF AppendRecord, TypeOK
    <3>2. stack' \in Seq(Frame) BY <2>2, <2>5
    <3>3. last' \in Report \cup {NoReport}
      <4>1. last' = last \/ Return(Top.cmd, "blocked", FALSE) BY <2>5
      <4>2. ASSUME Return(Top.cmd, "blocked", FALSE) PROVE last' \in Report
        BY <2>3, <4>2 DEF Return, Report, Status
      <4>3. last \in Report \cup {NoReport} BY DEF TypeOK
      <4>4. QED BY <4>1, <4>2, <4>3
    <3>4. QED BY <1>2, <3>1, <3>2, <3>3 DEF GuardChecked, TypeOK
  <2>6. QED BY <1>2, <2>4, <2>5 DEF GuardChecked
<1>3. ASSUME NEW verdict \in BOOLEAN, GuardRechecked(verdict)
      PROVE TypeOK'
  <2>1. /\ stack \in Seq(Frame) /\ stack # <<>>
    BY <1>3 DEF GuardRechecked, TypeOK
  <2>2. /\ Top \in Frame /\ Below \in Seq(Frame)
        /\ AdvanceTo("exec") \in Seq(Frame)
    BY <2>1, PopFrame, AdvanceFrame DEF Callbacks
  <2>3. Top.cmd \in Commands BY <2>2 DEF Frame
  <2>4. CASE Persist(Top.cmd, "blocked", FALSE) /\ stack' = Below /\ UNCHANGED executions
    <3>1. journal' \subseteq Record /\ last' \in Report \cup {NoReport}
      BY <2>3, <2>4, PersistType DEF Status
    <3>2. QED BY <1>3, <2>2, <2>4, <3>1 DEF GuardRechecked, TypeOK
  <2>5. CASE /\ executions' = [executions EXCEPT ![Top.cmd] = @ + 1]
             /\ stack' = AdvanceTo("exec")
             /\ UNCHANGED <<journal, last>>
    BY <1>3, <2>2, <2>3, <2>5 DEF GuardRechecked, TypeOK
  <2>6. QED BY <1>3, <2>4, <2>5 DEF GuardRechecked
<1>4. ASSUME NEW value, ExecutorReturns(value)
      PROVE TypeOK'
  <2>1. /\ stack \in Seq(Frame) /\ stack # <<>>
    BY <1>4 DEF ExecutorReturns, TypeOK
  <2>2. Top \in Frame /\ Below \in Seq(Frame) BY <2>1, PopFrame
  <2>3. Top.cmd \in Commands /\ OutcomeStatus(value) \in Status
    BY <2>2 DEF Frame, OutcomeStatus, Status, ExecutorStatus
  <2>4. Persist(Top.cmd, OutcomeStatus(value), TRUE) BY <1>4 DEF ExecutorReturns
  <2>5. journal' \subseteq Record /\ last' \in Report \cup {NoReport}
    BY <2>3, <2>4, PersistType
  <2>6. QED BY <1>4, <2>2, <2>5 DEF ExecutorReturns, TypeOK
<1>5. ASSUME NEW p \in Planes, NEW c \in Commands, NEW k \in Keys, NEW t \in Tokens,
             RequestConfirmation(p, c, k, t)
      PROVE TypeOK'
  <2> DEFINE kept == {e \in confirmations[p] : e.live}
  <2>1. kept \subseteq Confirmation /\ confirmations[p] \subseteq Confirmation
    BY DEF TypeOK
  <2>2. [token |-> t, cmd |-> c, key |-> k, live |-> TRUE] \in Confirmation
    BY DEF Confirmation
  <2>3. /\ journal' \subseteq Record
        /\ issued' \subseteq Tokens
        /\ confirmations' \in [Planes -> SUBSET Confirmation]
    BY <1>5, <2>1, <2>2, RecordTypes DEF RequestConfirmation, AppendRecord, TypeOK
  <2>4. QED BY <1>5, <2>3 DEF RequestConfirmation, TypeOK
<1>6. ASSUME NEW p \in Planes, NEW e \in confirmations[p], Expire(p, e)
      PROVE TypeOK'
  <2>0. e \in Confirmation BY DEF TypeOK
  <2>1. [e EXCEPT !.live = FALSE] \in Confirmation
    BY <2>0 DEF Confirmation
  <2>2. confirmations' \in [Planes -> SUBSET Confirmation]
    BY <1>6, <2>1 DEF Expire, TypeOK
  <2>3. QED BY <1>6, <2>2 DEF Expire, TypeOK
<1>7. ASSUME NEW p \in Planes, NEW k \in Keys, NEW channelValid \in BOOLEAN,
             NEW answer \in BOOLEAN, NEW e \in confirmations[p],
             Confirm(p, e, k, channelValid, answer)
      PROVE TypeOK'
  <2> DEFINE f == [plane |-> p, cmd |-> e.cmd, pc |-> "cguard",
                   canceled |-> ~answer, confirmed |-> answer]
  <2>1. e.cmd \in Commands BY DEF TypeOK, Confirmation
  <2>2. confirmations' \in [Planes -> SUBSET Confirmation]
    BY <1>7 DEF Confirm, TypeOK
  <2>3. CASE ConfirmationBlocked(p, e.cmd) /\ UNCHANGED stack
    <3>1. journal' \subseteq Record /\ last' \in Report \cup {NoReport}
      BY <2>1, <2>3, PersistType DEF ConfirmationBlocked, Status
    <3>2. QED BY <1>7, <2>1, <2>2, <2>3, <3>1 DEF Confirm, ConfirmationBlocked, TypeOK
  <2>4. CASE stack' = Append(stack, f) /\ UNCHANGED <<journal, seen, last>>
    <3>1. f \in Frame BY <2>1 DEF Frame, Callbacks
    <3>2. stack' \in Seq(Frame) BY <2>4, <3>1, PushFrame DEF TypeOK
    <3>3. QED BY <1>7, <2>2, <2>4, <3>2 DEF Confirm, TypeOK
  <2>5. QED BY <1>7, <2>3, <2>4 DEF Confirm
<1>8. ASSUME NEW verdict \in BOOLEAN, NEW observed \in BOOLEAN,
             ConfirmGuardReturns(verdict, observed)
      PROVE TypeOK'
  <2>1. /\ stack \in Seq(Frame) /\ stack # <<>>
    BY <1>8 DEF ConfirmGuardReturns, TypeOK
  <2>2. Top \in Frame /\ Below \in Seq(Frame) BY <2>1, PopFrame
  <2>3. Top.cmd \in Commands /\ Top.plane \in Planes
        /\ Top.canceled \in BOOLEAN /\ Top.confirmed \in BOOLEAN
    BY <2>2 DEF Frame
  <2>4. CASE /\ ConfirmationBlocked(Top.plane, Top.cmd)
             /\ stack' = Below
             /\ UNCHANGED approved
    <3>1. journal' \subseteq Record /\ last' \in Report \cup {NoReport}
      BY <2>3, <2>4, PersistType DEF ConfirmationBlocked, Status
    <3>2. QED BY <1>8, <2>2, <2>3, <2>4, <3>1
              DEF ConfirmGuardReturns, ConfirmationBlocked, TypeOK
  <2>5. CASE /\ approved' = IF Top.confirmed THEN approved \cup {Top.cmd} ELSE approved
             /\ ReadHistory(Top.plane, Top.cmd, Top.canceled, Top.confirmed, Below)
    <3>1. /\ journal' \subseteq Record
          /\ seen' \in [Planes -> SUBSET Commands]
          /\ stack' \in Seq(Frame)
          /\ last' \in Report \cup {NoReport}
      BY <2>2, <2>3, <2>5, ReadHistoryType
    <3>2. QED BY <1>8, <2>3, <2>5, <3>1 DEF ConfirmGuardReturns, TypeOK
  <2>6. QED BY <1>8, <2>4, <2>5 DEF ConfirmGuardReturns
<1>9. ASSUME NEW p \in Planes, NEW v \in Versions, ReplaceCatalog(p, v)
      PROVE TypeOK'
  BY <1>9 DEF ReplaceCatalog, TypeOK
<1>10. CASE Crash
  BY <1>10, EmptySeqType DEF Crash, TypeOK
<1>11. CASE Restart
  BY <1>11 DEF Restart, TypeOK
<1>12. CASE UNCHANGED vars
  BY <1>12 DEF vars, TypeOK
<1>13. QED
  BY <1>1, <1>2, <1>3, <1>4, <1>5, <1>6, <1>7, <1>8, <1>9, <1>10, <1>11, <1>12
     DEF Next

\* Every variable keeps its type, whatever is called, fails or crashes.
THEOREM TypeCorrect == Spec => []TypeOK
<1>1. Init => TypeOK
  BY EmptySeqType DEF Init, TypeOK, NoReport
<1>2. QED BY <1>1, TypeStep, PTL DEF Spec

-----------------------------------------------------------------------------
(* At most one execution *)

\* The three record kinds never coincide and name their command.
LEMMA RecordsDiffer ==
    ASSUME NEW c, NEW d, NEW s, NEW r
    PROVE  /\ Started(c) # Finished(d, s)
           /\ Started(c) # Preview(d)
           /\ Preview(c) # Finished(d, s)
           /\ Started(c) = Started(d) => c = d
           /\ Finished(c, r) = Finished(d, s) => c = d /\ r = s
BY DEF Started, Finished, Preview

\* Writing a receipt changes no intent and no other receipt.
LEMMA PersistEffect ==
    ASSUME NEW c, NEW s, NEW ran, Persist(c, s, ran)
    PROVE  /\ \A d : Started(d) \in journal' <=> Started(d) \in journal
           /\ \A d : Preview(d) \in journal' <=> Preview(d) \in journal
           /\ \A d, r : Finished(d, r) \in journal
                        => Finished(d, r) \in journal'
           /\ \A d, r : Finished(d, r) \in journal'
                        => Finished(d, r) \in journal \/ (d = c /\ r = s)
<1>1. journal' = journal \/ journal' = journal \cup {Finished(c, s)}
  BY DEF Persist, AppendRecord
<1>2. QED BY <1>1, RecordsDiffer

\* A step that executes nothing, records no intent and no settled receipt, and
\* leaves only frames that were there, keeps the invariant.
LEMMA QuietStep ==
    ASSUME TypeOK, DispatchInv,
           executions' = executions,
           \A c \in Commands : Started(c) \in journal' <=> Started(c) \in journal,
           \A c \in Commands, s \in LedgerOutcomes :
               Finished(c, s) \in journal' <=> Finished(c, s) \in journal,
           \A i \in DOMAIN stack' : i \in DOMAIN stack /\ stack'[i] = stack[i],
           \A i \in DOMAIN stack' : seen[stack[i].plane] \subseteq seen'[stack[i].plane]
    PROVE  DispatchInv'
<1>1. AtMostOnce' /\ IntentDurable'
  BY DEF DispatchInv, AtMostOnce, IntentDurable
<1>2. ASSUME NEW i \in DOMAIN stack' PROVE FrameKnown(stack[i])'
  <2>1. stack[i] \in Frame /\ stack'[i] = stack[i] /\ FrameKnown(stack[i])
    BY <1>2 DEF TypeOK, DispatchInv
  <2>2. stack[i].cmd \in Commands /\ stack[i].plane \in Planes
    BY <2>1 DEF Frame
  <2>3. seen[stack[i].plane] \subseteq seen'[stack[i].plane] BY <1>2
  <2>4. QED BY <2>1, <2>2, <2>3 DEF FrameKnown
<1>3. QED BY <1>1, <1>2 DEF DispatchInv, Working

\* A frame pushed on frames that were there keeps the invariant when it is
\* known, alone on its command if it works, and nested where it may be.
LEMMA PushInv ==
    ASSUME TypeOK, DispatchInv,
           NEW rest \in Seq(Frame), NEW f \in Frame,
           \A i \in DOMAIN rest : i \in DOMAIN stack /\ rest[i] = stack[i],
           \A i \in DOMAIN rest : rest[i].pc = "guard1" => rest[i].plane = f.plane,
           \A i \in DOMAIN rest :
               Working(f) /\ Working(rest[i]) => rest[i].cmd # f.cmd,
           stack' = Append(rest, f),
           UNCHANGED <<journal, executions>>,
           \A p \in Planes : seen[p] \subseteq seen'[p],
           FrameKnown(f)'
    PROVE  DispatchInv'
<1> DEFINE n == Len(rest) + 1
<1>1. /\ n \in Nat /\ DOMAIN rest = 1 .. Len(rest) /\ Len(rest) \in Nat
      /\ DOMAIN stack' = 1 .. n
      /\ \A i \in DOMAIN rest : stack'[i] = rest[i]
      /\ stack'[n] = f
  BY PushFrame
<1>2. AtMostOnce' /\ IntentDurable'
  BY DEF DispatchInv, AtMostOnce, IntentDurable
<1>3. ASSUME NEW i \in DOMAIN stack' PROVE FrameKnown(stack[i])'
  <2>1. CASE i = n BY <1>1, <2>1 DEF FrameKnown
  <2>2. CASE i # n
    <3>1. i \in DOMAIN rest /\ i \in DOMAIN stack /\ stack'[i] = stack[i]
      BY <1>1, <1>3, <2>2
    <3>2. stack[i] \in Frame /\ FrameKnown(stack[i])
      BY <3>1 DEF TypeOK, DispatchInv
    <3>3. stack[i].plane \in Planes BY <3>2 DEF Frame
    <3>4. QED BY <3>1, <3>2, <3>3 DEF FrameKnown
  <2>3. QED BY <2>1, <2>2
<1>4. ASSUME NEW i \in DOMAIN stack', NEW j \in DOMAIN stack',
             Working(stack[i])', Working(stack[j])', stack'[i].cmd = stack'[j].cmd
      PROVE i = j
  <2>1. CASE i = n \/ j = n
    BY <1>1, <1>4, <2>1 DEF Working
  <2>2. CASE i # n /\ j # n
    <3>1. i \in DOMAIN stack /\ stack'[i] = stack[i] BY <1>1, <1>4, <2>2
    <3>2. j \in DOMAIN stack /\ stack'[j] = stack[j] BY <1>1, <1>4, <2>2
    <3>3. QED BY <1>4, <3>1, <3>2 DEF DispatchInv, Working
  <2>3. QED BY <2>1, <2>2
<1>5. ASSUME NEW i \in DOMAIN stack', NEW j \in DOMAIN stack',
             i < j, stack'[i].pc = "guard1"
      PROVE stack'[i].plane = stack'[j].plane
  <2>1. i \in DOMAIN rest /\ i \in DOMAIN stack /\ stack'[i] = rest[i] /\ rest[i] = stack[i]
    BY <1>1, <1>5
  <2>2. CASE j = n BY <1>1, <1>5, <2>1, <2>2
  <2>3. CASE j # n
    <3>1. j \in DOMAIN stack /\ stack'[j] = stack[j] BY <1>1, <1>5, <2>3
    <3>2. QED BY <1>5, <2>1, <3>1 DEF DispatchInv
  <2>4. QED BY <2>2, <2>3
<1>6. QED BY <1>2, <1>3, <1>4, <1>5 DEF DispatchInv

\* _dispatch up to its first guard, entered over frames whose first guards
\* belong to its own plane: a command some frame works on is a duplicate.
LEMMA ReadHistoryInv ==
    ASSUME TypeOK, DispatchInv,
           NEW p \in Planes, NEW c \in Commands, NEW canceled \in BOOLEAN,
           NEW confirmed \in BOOLEAN, NEW rest \in Seq(Frame),
           \A i \in DOMAIN rest : i \in DOMAIN stack /\ rest[i] = stack[i],
           \A i \in DOMAIN rest : rest[i].pc = "guard1" => rest[i].plane = p,
           ReadHistory(p, c, canceled, confirmed, rest),
           executions' = executions
    PROVE  DispatchInv'
<1> DEFINE known == seen[p] \cup EventCommands
           f == [plane |-> p, cmd |-> c, pc |-> "guard1",
                 canceled |-> canceled, confirmed |-> confirmed]
           status == IF canceled /\ ~(c \in known) THEN "canceled" ELSE "blocked"
<1>1. CASE stack' = rest /\ UNCHANGED <<journal, seen>>
  BY <1>1, QuietStep
<1>2. CASE /\ seen' = [seen EXCEPT ![p] = known \cup {c}]
           /\ Persist(c, status, FALSE)
           /\ stack' = rest
  <2>1. status \notin LedgerOutcomes BY DEF LedgerOutcomes
  <2>2. \A d \in Commands : Started(d) \in journal' <=> Started(d) \in journal
    BY <1>2, PersistEffect
  <2>3. \A d \in Commands, s \in LedgerOutcomes :
            Finished(d, s) \in journal' <=> Finished(d, s) \in journal
    BY <1>2, <2>1, PersistEffect
  <2>4. \A q \in Planes : seen[q] \subseteq seen'[q]
    BY <1>2 DEF TypeOK
  <2>5. \A i \in DOMAIN stack' : seen[stack[i].plane] \subseteq seen'[stack[i].plane]
    <3>1. \A i \in DOMAIN stack' : stack[i] \in Frame BY <1>2 DEF TypeOK
    <3>2. QED BY <2>4, <3>1 DEF Frame
  <2>6. QED BY <1>2, <2>2, <2>3, <2>5, QuietStep
<1>3. CASE /\ seen' = [seen EXCEPT ![p] = known \cup {c}]
           /\ c \notin known
           /\ stack' = Append(rest, f)
           /\ UNCHANGED <<journal, last>>
  <2>1. f \in Frame /\ f.plane = p /\ f.cmd = c /\ f.pc = "guard1"
    BY DEF Frame, Callbacks
  <2>2. \A q \in Planes : seen[q] \subseteq seen'[q]
    BY <1>3 DEF TypeOK
  <2>3. c \in seen'[p] /\ Started(c) \notin journal
    BY <1>3 DEF TypeOK, EventCommands
  <2>4. FrameKnown(f)'
    BY <1>3, <2>1, <2>3 DEF FrameKnown
  <2>5. ASSUME NEW i \in DOMAIN rest, Working(rest[i]), rest[i].cmd = c
        PROVE FALSE
    <3>1. i \in DOMAIN stack /\ rest[i] = stack[i] /\ FrameKnown(stack[i])
      BY <2>5 DEF DispatchInv
    <3>2. CASE rest[i].pc = "guard1"
      BY <1>3, <2>5, <3>1, <3>2 DEF FrameKnown
    <3>3. CASE rest[i].pc = "guard2"
      BY <2>3, <2>5, <3>1, <3>3 DEF FrameKnown
    <3>4. CASE rest[i].pc = "exec"
      BY <2>3, <2>5, <3>1, <3>4 DEF FrameKnown, DispatchInv, IntentDurable
    <3>5. QED BY <2>5, <3>2, <3>3, <3>4 DEF Working
  <2>6. QED BY <1>3, <2>1, <2>2, <2>4, <2>5, PushInv
<1>4. QED BY <1>1, <1>2, <1>3 DEF ReadHistory

\* The top frame returns without having executed anything in this step.
LEMMA PopQuiet ==
    ASSUME TypeOK, DispatchInv, stack # <<>>, stack' = Below,
           executions' = executions, NEW s, s \notin LedgerOutcomes,
           NEW c \in Commands, Persist(c, s, FALSE),
           \A p \in Planes : seen[p] \subseteq seen'[p]
    PROVE  DispatchInv'
<1>1. \A i \in DOMAIN stack' : i \in DOMAIN stack /\ stack'[i] = stack[i]
  BY PopFrame DEF TypeOK
<1>2. \A i \in DOMAIN stack' : stack[i] \in Frame
  BY <1>1 DEF TypeOK
<1>3. \A i \in DOMAIN stack' : seen[stack[i].plane] \subseteq seen'[stack[i].plane]
  BY <1>2 DEF Frame
<1>4. \A d \in Commands : Started(d) \in journal' <=> Started(d) \in journal
  BY PersistEffect
<1>5. \A d \in Commands, r \in LedgerOutcomes :
          Finished(d, r) \in journal' <=> Finished(d, r) \in journal
  BY PersistEffect
<1>6. QED BY <1>1, <1>3, <1>4, <1>5, QuietStep

\* The intent is appended: the frame moves on when append returned, and the
\* call is over when it raised.
LEMMA IntentInv ==
    ASSUME TypeOK, DispatchInv, stack # <<>>, Top.pc = "guard1",
           NEW o \in AppendOutcome, AppendRecord(Started(Top.cmd), o),
           \/ ~Raised(o) /\ stack' = AdvanceTo("guard2")
           \/ Raised(o) /\ stack' = Below,
           UNCHANGED <<seen, executions>>
    PROVE  DispatchInv'
<1> DEFINE n == Len(stack)
           c == Top.cmd
<1>1. /\ n \in DOMAIN stack /\ n \in Nat \ {0} /\ Top \in Frame
      /\ DOMAIN Below = 1 .. (n - 1)
      /\ \A i \in DOMAIN Below : Below[i] = stack[i] /\ i \in DOMAIN stack
      /\ DOMAIN stack = 1 .. n
      /\ stack[n] = Top
  BY PopFrame DEF TypeOK, Top
<1>2. /\ DOMAIN AdvanceTo("guard2") = DOMAIN stack
      /\ \A i \in DOMAIN stack : i # n => AdvanceTo("guard2")[i] = stack[i]
      /\ AdvanceTo("guard2")[n] = [Top EXCEPT !.pc = "guard2"]
  BY AdvanceFrame DEF TypeOK, Callbacks
<1>3. c \in Commands /\ FrameKnown(Top)
  BY <1>1 DEF DispatchInv, Frame
<1>4. Started(c) \notin journal /\ executions[c] = 0
  <2>1. Started(c) \notin journal BY <1>3 DEF FrameKnown
  <2>2. executions[c] \in Nat BY <1>3 DEF TypeOK
  <2>3. QED BY <1>3, <2>1, <2>2 DEF DispatchInv, IntentDurable
<1>5. /\ \A d : Started(d) \in journal => Started(d) \in journal'
      /\ \A d : d # c => (Started(d) \in journal' => Started(d) \in journal)
      /\ \A d, s : Finished(d, s) \in journal' <=> Finished(d, s) \in journal
      /\ ~Raised(o) => Started(c) \in journal'
  BY RecordsDiffer DEF AppendRecord, Raised
<1>6. \A i \in DOMAIN stack' : /\ i \in DOMAIN stack
                               /\ i # n => stack'[i] = stack[i]
                               /\ i = n => ~Raised(o) /\ stack'[i] = [Top EXCEPT !.pc = "guard2"]
  BY <1>1, <1>2
<1>7. [Top EXCEPT !.pc = "guard2"].pc = "guard2"
      /\ [Top EXCEPT !.pc = "guard2"].cmd = c
      /\ [Top EXCEPT !.pc = "guard2"].plane = Top.plane
  BY <1>1 DEF Frame
<1>8. AtMostOnce' /\ IntentDurable'
  BY <1>5 DEF DispatchInv, AtMostOnce, IntentDurable
<1>9. ASSUME NEW i \in DOMAIN stack' PROVE FrameKnown(stack[i])'
  <2>1. CASE i = n
    BY <1>4, <1>5, <1>6, <1>7, <2>1 DEF FrameKnown
  <2>2. CASE i # n
    <3>1. i \in DOMAIN stack /\ stack'[i] = stack[i] /\ FrameKnown(stack[i])
      BY <1>6, <1>9, <2>2 DEF DispatchInv
    <3>2. Working(stack[i]) => stack[i].cmd # c
      BY <1>1, <2>2, <3>1 DEF DispatchInv, Working
    <3>3. QED BY <1>5, <3>1, <3>2 DEF FrameKnown, Working
  <2>3. QED BY <2>1, <2>2
<1>10. ASSUME NEW i \in DOMAIN stack', NEW j \in DOMAIN stack',
              Working(stack[i])', Working(stack[j])', stack'[i].cmd = stack'[j].cmd
       PROVE i = j
  <2>1. /\ Working(stack[i]) /\ Working(stack[j])
        /\ stack[i].cmd = stack'[i].cmd /\ stack[j].cmd = stack'[j].cmd
    BY <1>1, <1>6, <1>7, <1>10 DEF Working
  <2>2. QED BY <1>6, <1>10, <2>1 DEF DispatchInv
<1>11. ASSUME NEW i \in DOMAIN stack', NEW j \in DOMAIN stack',
              i < j, stack'[i].pc = "guard1"
       PROVE stack'[i].plane = stack'[j].plane
  <2>1. i \in DOMAIN stack /\ j \in DOMAIN stack /\ stack'[i] = stack[i]
        /\ stack'[j].plane = stack[j].plane
    BY <1>1, <1>6, <1>7, <1>11
  <2>2. QED BY <1>11, <2>1 DEF DispatchInv
<1>12. \A d \in Commands, s \in LedgerOutcomes :
           Finished(d, s) \in journal' => executions'[d] = 1
  BY <1>5 DEF DispatchInv
<1>13. QED BY <1>8, <1>9, <1>10, <1>11, <1>12 DEF DispatchInv

\* The executor is invoked: the command had an intent and had not run.
LEMMA ExecuteInv ==
    ASSUME TypeOK, DispatchInv, stack # <<>>, Top.pc = "guard2",
           executions' = [executions EXCEPT ![Top.cmd] = @ + 1],
           stack' = AdvanceTo("exec"),
           UNCHANGED <<journal, seen>>
    PROVE  DispatchInv'
<1> DEFINE n == Len(stack)
           c == Top.cmd
<1>1. /\ n \in DOMAIN stack /\ Top \in Frame /\ DOMAIN stack = 1 .. n /\ stack[n] = Top
  BY PopFrame DEF TypeOK, Top
<1>2. /\ DOMAIN stack' = DOMAIN stack
      /\ \A i \in DOMAIN stack : i # n => stack'[i] = stack[i]
      /\ stack'[n] = [Top EXCEPT !.pc = "exec"]
  BY AdvanceFrame DEF TypeOK, Callbacks
<1>3. [Top EXCEPT !.pc = "exec"].pc = "exec" /\ [Top EXCEPT !.pc = "exec"].cmd = c
      /\ [Top EXCEPT !.pc = "exec"].plane = Top.plane
  BY <1>1 DEF Frame
<1>4. c \in Commands /\ FrameKnown(Top)
  BY <1>1 DEF DispatchInv, Frame
<1>5. Started(c) \in journal /\ executions[c] = 0
  BY <1>4 DEF FrameKnown
<1>6. executions'[c] = 1 /\ \A d \in Commands : d # c => executions'[d] = executions[d]
  BY <1>4, <1>5 DEF TypeOK
<1>7. AtMostOnce' /\ IntentDurable'
  BY <1>5, <1>6 DEF DispatchInv, AtMostOnce, IntentDurable
<1>8. \A s \in LedgerOutcomes : Finished(c, s) \notin journal
  BY <1>4, <1>5 DEF DispatchInv
<1>9. ASSUME NEW i \in DOMAIN stack' PROVE FrameKnown(stack[i])'
  <2>1. CASE i = n
    BY <1>2, <1>3, <1>6, <1>8, <2>1 DEF FrameKnown
  <2>2. CASE i # n
    <3>1. i \in DOMAIN stack /\ stack'[i] = stack[i] /\ FrameKnown(stack[i])
          /\ stack[i] \in Frame
      BY <1>2, <1>9, <2>2 DEF DispatchInv, TypeOK
    <3>2. stack[i].cmd \in Commands BY <3>1 DEF Frame
    <3>3. Working(stack[i]) => stack[i].cmd # c
      BY <1>1, <2>2, <3>1 DEF DispatchInv, Working
    <3>4. QED BY <1>6, <3>1, <3>2, <3>3 DEF FrameKnown, Working
  <2>3. QED BY <2>1, <2>2
<1>10. ASSUME NEW i \in DOMAIN stack', NEW j \in DOMAIN stack',
              Working(stack[i])', Working(stack[j])', stack'[i].cmd = stack'[j].cmd
       PROVE i = j
  <2>1. /\ Working(stack[i]) /\ Working(stack[j])
        /\ stack[i].cmd = stack'[i].cmd /\ stack[j].cmd = stack'[j].cmd
    BY <1>1, <1>2, <1>3, <1>10 DEF Working
  <2>2. QED BY <1>2, <1>10, <2>1 DEF DispatchInv
<1>11. ASSUME NEW i \in DOMAIN stack', NEW j \in DOMAIN stack',
              i < j, stack'[i].pc = "guard1"
       PROVE stack'[i].plane = stack'[j].plane
  <2>1. i \in DOMAIN stack /\ j \in DOMAIN stack /\ stack'[i] = stack[i]
        /\ stack'[j].plane = stack[j].plane
    BY <1>1, <1>2, <1>3, <1>11
  <2>2. QED BY <1>11, <2>1 DEF DispatchInv
<1>12. \A d \in Commands, s \in LedgerOutcomes :
           Finished(d, s) \in journal' => executions'[d] = 1
  BY <1>6, <1>8 DEF DispatchInv
<1>13. QED BY <1>7, <1>9, <1>10, <1>11, <1>12 DEF DispatchInv

\* The executor's outcome is recorded: no other frame works on its command.
LEMMA SettleInv ==
    ASSUME TypeOK, DispatchInv, stack # <<>>, Top.pc = "exec",
           NEW s, Persist(Top.cmd, s, TRUE), stack' = Below,
           UNCHANGED <<seen, executions>>
    PROVE  DispatchInv'
<1> DEFINE n == Len(stack)
           c == Top.cmd
<1>1. /\ n \in DOMAIN stack /\ n \in Nat \ {0} /\ Top \in Frame /\ stack[n] = Top
      /\ DOMAIN stack' = 1 .. (n - 1)
      /\ \A i \in DOMAIN stack' : stack'[i] = stack[i] /\ i \in DOMAIN stack
  BY PopFrame DEF TypeOK, Top
<1>2. c \in Commands /\ executions[c] = 1
  BY <1>1 DEF DispatchInv, FrameKnown, Frame
<1>3. /\ \A d : Started(d) \in journal' <=> Started(d) \in journal
      /\ \A d, r : Finished(d, r) \in journal'
                   => Finished(d, r) \in journal \/ d = c
  BY PersistEffect
<1>4. AtMostOnce' /\ IntentDurable'
  BY <1>3 DEF DispatchInv, AtMostOnce, IntentDurable
<1>5. ASSUME NEW i \in DOMAIN stack' PROVE FrameKnown(stack[i])'
  <2>1. i # n /\ i \in DOMAIN stack /\ stack'[i] = stack[i] /\ FrameKnown(stack[i])
    BY <1>1, <1>5 DEF DispatchInv
  <2>2. Working(stack[i]) => stack[i].cmd # c
    BY <1>1, <2>1 DEF DispatchInv, Working
  <2>3. QED BY <1>3, <2>1, <2>2 DEF FrameKnown, Working
<1>6. \A d \in Commands, r \in LedgerOutcomes :
          Finished(d, r) \in journal' => executions'[d] = 1
  BY <1>2, <1>3 DEF DispatchInv
<1>7. QED BY <1>1, <1>4, <1>5, <1>6 DEF DispatchInv, Working

\* Nothing is known and nothing was executed at first.
LEMMA DispatchInit == Init => DispatchInv
BY DEF Init, DispatchInv, AtMostOnce, IntentDurable

\* Every step keeps the invariant, one lemma above for each way it moves the stack.
LEMMA DispatchStep ==
    ASSUME GuardsStayHome, TypeOK, DispatchInv, [Next]_vars
    PROVE  DispatchInv'
<1>0. stack \in Seq(Frame) BY DEF TypeOK
<1>1. ASSUME NEW p \in Planes, NEW c \in Commands, NEW canceled \in BOOLEAN,
             Dispatch(p, c, canceled)
      PROVE DispatchInv'
  <2>1. \A i \in DOMAIN stack : stack[i].pc = "guard1" => stack[i].plane = p
    BY <1>1 DEF Dispatch, CanEnter, GuardsStayHome
  <2>2. executions' = executions BY <1>1 DEF Dispatch
  <2>3. PICK confirmed \in BOOLEAN : ReadHistory(p, c, canceled, confirmed, stack)
    BY <1>1 DEF Dispatch
  <2>4. \A i \in DOMAIN stack : i \in DOMAIN stack /\ stack[i] = stack[i]
    OBVIOUS
  <2>5. QED BY <1>0, <2>1, <2>2, <2>3, <2>4, ReadHistoryInv
<1>2. ASSUME NEW verdict \in BOOLEAN, GuardChecked(verdict)
      PROVE DispatchInv'
  <2>1. stack # <<>> /\ Top.pc = "guard1" /\ UNCHANGED <<seen, executions>>
    BY <1>2 DEF GuardChecked
  <2>2. CASE /\ Persist(Top.cmd, IF Top.canceled THEN "canceled" ELSE "blocked", FALSE)
             /\ stack' = Below
    <3>1. (IF Top.canceled THEN "canceled" ELSE "blocked") \notin LedgerOutcomes
      BY DEF LedgerOutcomes
    <3>2. Top.cmd \in Commands BY <1>0, <2>1, PopFrame DEF Frame
    <3>3. QED BY <2>1, <2>2, <3>1, <3>2, PopQuiet
  <2>3. CASE \E o \in AppendOutcome :
                 /\ AppendRecord(Started(Top.cmd), o)
                 /\ \/ ~Raised(o) /\ stack' = AdvanceTo("guard2")
                    \/ Raised(o) /\ stack' = Below
    BY <2>1, <2>3, IntentInv
  <2>4. QED BY <1>2, <2>2, <2>3 DEF GuardChecked
<1>3. ASSUME NEW verdict \in BOOLEAN, GuardRechecked(verdict)
      PROVE DispatchInv'
  <2>1. stack # <<>> /\ Top.pc = "guard2" /\ UNCHANGED seen
    BY <1>3 DEF GuardRechecked
  <2>2. CASE Persist(Top.cmd, "blocked", FALSE) /\ stack' = Below /\ UNCHANGED executions
    <3>1. "blocked" \notin LedgerOutcomes BY DEF LedgerOutcomes
    <3>2. Top.cmd \in Commands BY <1>0, <2>1, PopFrame DEF Frame
    <3>3. QED BY <2>1, <2>2, <3>1, <3>2, PopQuiet
  <2>3. CASE /\ executions' = [executions EXCEPT ![Top.cmd] = @ + 1]
             /\ stack' = AdvanceTo("exec")
             /\ UNCHANGED <<journal, last>>
    BY <2>1, <2>3, ExecuteInv
  <2>4. QED BY <1>3, <2>2, <2>3 DEF GuardRechecked
<1>4. ASSUME NEW value, ExecutorReturns(value)
      PROVE DispatchInv'
  BY <1>4, SettleInv DEF ExecutorReturns
<1>5. ASSUME NEW p \in Planes, NEW c \in Commands, NEW k \in Keys, NEW t \in Tokens,
             RequestConfirmation(p, c, k, t)
      PROVE DispatchInv'
  <2>1. journal' = journal \/ journal' = journal \cup {Preview(c)}
    BY <1>5 DEF RequestConfirmation, AppendRecord
  <2>2. /\ \A d \in Commands : Started(d) \in journal' <=> Started(d) \in journal
        /\ \A d \in Commands, s \in LedgerOutcomes :
              Finished(d, s) \in journal' <=> Finished(d, s) \in journal
    BY <2>1, RecordsDiffer
  <2>3. UNCHANGED <<stack, seen, executions>> BY <1>5 DEF RequestConfirmation
  <2>4. QED BY <2>2, <2>3, QuietStep
<1>6. ASSUME NEW p \in Planes, NEW e \in confirmations[p], Expire(p, e)
      PROVE DispatchInv'
  BY <1>6, QuietStep DEF Expire
<1>7. ASSUME NEW p \in Planes, NEW k \in Keys, NEW channelValid \in BOOLEAN,
             NEW answer \in BOOLEAN, NEW e \in confirmations[p],
             Confirm(p, e, k, channelValid, answer)
      PROVE DispatchInv'
  <2> DEFINE f == [plane |-> p, cmd |-> e.cmd, pc |-> "cguard",
                   canceled |-> ~answer, confirmed |-> answer]
  <2>1. e.cmd \in Commands BY DEF TypeOK, Confirmation
  <2>2. executions' = executions BY <1>7 DEF Confirm
  <2>3. CASE ConfirmationBlocked(p, e.cmd) /\ UNCHANGED stack
    <3>1. \A q \in Planes : seen[q] \subseteq seen'[q]
      BY <2>3 DEF ConfirmationBlocked, TypeOK
    <3>2. \A i \in DOMAIN stack : stack[i].plane \in Planes
      <4>1. \A i \in DOMAIN stack : stack[i] \in Frame BY <1>0
      <4>2. QED BY <4>1 DEF Frame
    <3>3. "blocked" \notin LedgerOutcomes BY DEF LedgerOutcomes
    <3>4. Persist(e.cmd, "blocked", FALSE) BY <2>3 DEF ConfirmationBlocked
    <3>5. /\ \A d \in Commands : Started(d) \in journal' <=> Started(d) \in journal
          /\ \A d \in Commands, s \in LedgerOutcomes :
                Finished(d, s) \in journal' <=> Finished(d, s) \in journal
      BY <3>3, <3>4, PersistEffect
    <3>6. QED BY <2>2, <2>3, <3>1, <3>2, <3>5, QuietStep
  <2>4. CASE stack' = Append(stack, f) /\ UNCHANGED <<journal, seen, last>>
    <3>1. f \in Frame /\ f.plane = p /\ f.pc = "cguard"
      BY <2>1 DEF Frame, Callbacks
    <3>2. \A i \in DOMAIN stack : stack[i].pc = "guard1" => stack[i].plane = p
      BY <1>7 DEF Confirm, CanEnter, GuardsStayHome
    <3>3. FrameKnown(f)' /\ ~Working(f)
      BY <3>1 DEF FrameKnown, Working
    <3>4. QED BY <1>0, <2>2, <2>4, <3>1, <3>2, <3>3, PushInv
  <2>5. QED BY <1>7, <2>3, <2>4 DEF Confirm
<1>8. ASSUME NEW verdict \in BOOLEAN, NEW observed \in BOOLEAN,
             ConfirmGuardReturns(verdict, observed)
      PROVE DispatchInv'
  <2>1. stack # <<>> /\ executions' = executions
    BY <1>8 DEF ConfirmGuardReturns
  <2>2. /\ Top \in Frame /\ Below \in Seq(Frame)
        /\ DOMAIN Below = 1 .. (Len(stack) - 1) /\ Len(stack) \in DOMAIN stack
        /\ Len(stack) \in Nat
        /\ \A i \in DOMAIN Below : i \in DOMAIN stack /\ Below[i] = stack[i]
    BY <1>0, <2>1, PopFrame
  <2>3. Top.cmd \in Commands /\ Top.plane \in Planes
        /\ Top.canceled \in BOOLEAN /\ Top.confirmed \in BOOLEAN
    BY <2>2 DEF Frame
  <2>4. CASE ConfirmationBlocked(Top.plane, Top.cmd) /\ stack' = Below
    <3>1. \A q \in Planes : seen[q] \subseteq seen'[q]
      BY <2>3, <2>4 DEF ConfirmationBlocked, TypeOK
    <3>2. "blocked" \notin LedgerOutcomes BY DEF LedgerOutcomes
    <3>3. Persist(Top.cmd, "blocked", FALSE) BY <2>4 DEF ConfirmationBlocked
    <3>4. QED BY <2>1, <2>3, <2>4, <3>1, <3>2, <3>3, PopQuiet
  <2>5. CASE ReadHistory(Top.plane, Top.cmd, Top.canceled, Top.confirmed, Below)
    <3>1. \A i \in DOMAIN Below : Below[i].pc = "guard1" => Below[i].plane = Top.plane
      BY <2>2 DEF DispatchInv, Top
    <3>2. QED BY <2>1, <2>2, <2>3, <2>5, <3>1, ReadHistoryInv
  <2>6. QED BY <1>8, <2>4, <2>5 DEF ConfirmGuardReturns
<1>9. ASSUME NEW p \in Planes, NEW v \in Versions, ReplaceCatalog(p, v)
      PROVE DispatchInv'
  BY <1>9, QuietStep DEF ReplaceCatalog
<1>10. CASE Crash
  BY <1>10, QuietStep DEF Crash
<1>11. CASE Restart
  BY <1>11, QuietStep DEF Restart
<1>12. CASE UNCHANGED vars
  BY <1>12, QuietStep DEF vars
<1>13. QED
  BY <1>1, <1>2, <1>3, <1>4, <1>5, <1>6, <1>7, <1>8, <1>9, <1>10, <1>11, <1>12
     DEF Next

\* DispatchInv is an invariant of every behaviour in which a first guard never
\* calls into another dispatcher (the window between core.py's history read and
\* its durable intent).
THEOREM DispatchInvariant == ASSUME GuardsStayHome PROVE Spec => []DispatchInv
<1>1. TypeOK /\ DispatchInv /\ [Next]_vars => DispatchInv'
  BY DispatchStep
<1>2. QED BY DispatchInit, TypeCorrect, <1>1, PTL DEF Spec

\* However many dispatchers share the journal, however deep their callbacks
\* nest, whatever appends fail and whenever the process crashes and restarts,
\* no command's executor is invoked twice (core.py _dispatch), provided no
\* first guard calls into another dispatcher of the journal.
THEOREM ExecutedAtMostOnce == ASSUME GuardsStayHome PROVE Spec => []AtMostOnce
<1>1. DispatchInv => AtMostOnce BY DEF DispatchInv
<1>2. QED BY DispatchInvariant, <1>1, PTL

\* Under the same proviso every executed command has a durable intent.
THEOREM IntentAlwaysDurable == ASSUME GuardsStayHome PROVE Spec => []IntentDurable
<1>1. DispatchInv => IntentDurable BY DEF DispatchInv
<1>2. QED BY DispatchInvariant, <1>1, PTL

-----------------------------------------------------------------------------
(* Refinement of the ledger *)

\* What a step may do to the intents, the effects and the settled receipts.
SameLedger == /\ executions' = executions
              /\ \A c \in Commands : Started(c) \in journal' <=> Started(c) \in journal
              /\ \A c \in Commands, s \in LedgerOutcomes :
                    Finished(c, s) \in journal' <=> Finished(c, s) \in journal
RecordsIntent == \E c \in Commands : /\ executions' = executions
                                     /\ journal' = journal \cup {Started(c)}
Executes == /\ stack # <<>> /\ Top.pc = "guard2"
            /\ executions' = [executions EXCEPT ![Top.cmd] = @ + 1]
            /\ journal' = journal
Settles == /\ stack # <<>> /\ Top.pc = "exec"
           /\ executions' = executions
           /\ \E s \in Status : journal' = journal \cup {Finished(Top.cmd, s)}

\* A receipt that settles nothing is no step of the ledger.
LEMMA UnsettledSame ==
    ASSUME NEW c, NEW s, s \notin LedgerOutcomes, NEW ran, Persist(c, s, ran),
           executions' = executions
    PROVE  SameLedger
BY PersistEffect DEF SameLedger

\* Reading the history is none either.
LEMMA ReadHistorySame ==
    ASSUME NEW p, NEW c, NEW canceled, NEW confirmed, NEW rest,
           ReadHistory(p, c, canceled, confirmed, rest), executions' = executions
    PROVE  SameLedger
<1>1. CASE journal' = journal BY <1>1 DEF SameLedger
<1>2. CASE \E s \in {"canceled", "blocked"} : Persist(c, s, FALSE)
  <2>1. \A s \in {"canceled", "blocked"} : s \notin LedgerOutcomes BY DEF LedgerOutcomes
  <2>2. QED BY <1>2, <2>1, UnsettledSame
<1>3. QED BY <1>1, <1>2 DEF ReadHistory

\* Every step is one of the ledger's steps or none.
LEMMA StepKinds ==
    ASSUME TypeOK, [Next]_vars
    PROVE  SameLedger \/ RecordsIntent \/ Executes \/ Settles
<1>0. ASSUME stack # <<>> PROVE Top \in Frame /\ Top.cmd \in Commands
  <2>1. Top \in Frame BY <1>0, PopFrame DEF TypeOK
  <2>2. QED BY <2>1 DEF Frame
<1>u. "blocked" \notin LedgerOutcomes /\ "canceled" \notin LedgerOutcomes
  BY DEF LedgerOutcomes
<1>1. ASSUME NEW p \in Planes, NEW c \in Commands, NEW canceled \in BOOLEAN,
             Dispatch(p, c, canceled)
      PROVE SameLedger
  BY <1>1, ReadHistorySame DEF Dispatch
<1>2. ASSUME NEW verdict \in BOOLEAN, GuardChecked(verdict)
      PROVE SameLedger \/ RecordsIntent
  <2>1. stack # <<>> /\ executions' = executions BY <1>2 DEF GuardChecked
  <2>2. CASE Persist(Top.cmd, IF Top.canceled THEN "canceled" ELSE "blocked", FALSE)
    BY <1>u, <2>1, <2>2, UnsettledSame
  <2>3. CASE \E o \in AppendOutcome : AppendRecord(Started(Top.cmd), o)
    <3>1. journal' = journal \/ journal' = journal \cup {Started(Top.cmd)}
      BY <2>3 DEF AppendRecord
    <3>2. QED BY <1>0, <2>1, <3>1 DEF SameLedger, RecordsIntent
  <2>4. QED BY <1>2, <2>2, <2>3 DEF GuardChecked
<1>3. ASSUME NEW verdict \in BOOLEAN, GuardRechecked(verdict)
      PROVE SameLedger \/ Executes
  <2>1. stack # <<>> /\ Top.pc = "guard2" BY <1>3 DEF GuardRechecked
  <2>2. CASE Persist(Top.cmd, "blocked", FALSE) /\ UNCHANGED executions
    BY <1>u, <2>2, UnsettledSame
  <2>3. CASE /\ executions' = [executions EXCEPT ![Top.cmd] = @ + 1]
             /\ UNCHANGED <<journal, last>>
    BY <2>1, <2>3 DEF Executes
  <2>4. QED BY <1>3, <2>2, <2>3 DEF GuardRechecked
<1>4. ASSUME NEW value, ExecutorReturns(value)
      PROVE SameLedger \/ Settles
  <2>1. stack # <<>> /\ Top.pc = "exec" /\ executions' = executions
    BY <1>4 DEF ExecutorReturns
  <2>2. OutcomeStatus(value) \in Status
    BY DEF OutcomeStatus, Status, ExecutorStatus
  <2>3. journal' = journal \/ journal' = journal \cup {Finished(Top.cmd, OutcomeStatus(value))}
    BY <1>4 DEF ExecutorReturns, Persist, AppendRecord
  <2>4. QED BY <2>1, <2>2, <2>3 DEF SameLedger, Settles
<1>5. ASSUME NEW p \in Planes, NEW c \in Commands, NEW k \in Keys, NEW t \in Tokens,
             RequestConfirmation(p, c, k, t)
      PROVE SameLedger
  <2>1. journal' = journal \/ journal' = journal \cup {Preview(c)}
    BY <1>5 DEF RequestConfirmation, AppendRecord
  <2>2. executions' = executions BY <1>5 DEF RequestConfirmation
  <2>3. QED BY <2>1, <2>2, RecordsDiffer DEF SameLedger
<1>6. ASSUME NEW p \in Planes, NEW e \in confirmations[p], Expire(p, e)
      PROVE SameLedger
  BY <1>6 DEF Expire, SameLedger
<1>7. ASSUME NEW p \in Planes, NEW k \in Keys, NEW channelValid \in BOOLEAN,
             NEW answer \in BOOLEAN, NEW e \in confirmations[p],
             Confirm(p, e, k, channelValid, answer)
      PROVE SameLedger
  <2>1. executions' = executions BY <1>7 DEF Confirm
  <2>2. journal' = journal \/ Persist(e.cmd, "blocked", FALSE)
    BY <1>7 DEF Confirm, ConfirmationBlocked
  <2>3. QED BY <1>u, <2>1, <2>2, UnsettledSame DEF SameLedger
<1>8. ASSUME NEW verdict \in BOOLEAN, NEW observed \in BOOLEAN,
             ConfirmGuardReturns(verdict, observed)
      PROVE SameLedger
  <2>1. executions' = executions BY <1>8 DEF ConfirmGuardReturns
  <2>2. \/ Persist(Top.cmd, "blocked", FALSE)
        \/ ReadHistory(Top.plane, Top.cmd, Top.canceled, Top.confirmed, Below)
    BY <1>8 DEF ConfirmGuardReturns, ConfirmationBlocked
  <2>3. QED BY <1>u, <2>1, <2>2, UnsettledSame, ReadHistorySame
<1>9. ASSUME NEW p \in Planes, NEW v \in Versions, ReplaceCatalog(p, v)
      PROVE SameLedger
  BY <1>9 DEF ReplaceCatalog, SameLedger
<1>10. ASSUME Crash \/ Restart \/ UNCHANGED vars PROVE SameLedger
  BY <1>10 DEF Crash, Restart, vars, SameLedger
<1>11. QED
  BY <1>1, <1>2, <1>3, <1>4, <1>5, <1>6, <1>7, <1>8, <1>9, <1>10 DEF Next

\* Seen through intents, executor invocations and settled receipts, every
\* dispatcher behaviour is a behaviour of DispatchLedger: an effect only after
\* its durable intent and at most once, a receipt only after the effect and
\* never a second, different one.
THEOREM LedgerImplemented == ASSUME GuardsStayHome PROVE Spec => ImplementsLedger
<1> DEFINE intents == {c \in Commands : Started(c) \in journal}
           receipts == {x \in Commands \X LedgerOutcomes : Finished(x[1], x[2]) \in journal}
<1>1. Init => Ledger!LedgerInit
  BY DEF Init, Ledger!LedgerInit
<1>2. ASSUME TypeOK, DispatchInv, [Next]_vars
      PROVE [Ledger!LedgerNext]_(Ledger!ledgerVars)
  <2>1. CASE SameLedger
    <3>1. intents' = intents /\ receipts' = receipts BY <2>1 DEF SameLedger
    <3>2. QED BY <2>1, <3>1 DEF SameLedger, Ledger!ledgerVars
  <2>2. CASE RecordsIntent
    <3>1. PICK c \in Commands : executions' = executions /\ journal' = journal \cup {Started(c)}
      BY <2>2 DEF RecordsIntent
    <3>2. intents' = intents \cup {c} BY <3>1, RecordsDiffer
    <3>3. receipts' = receipts BY <3>1, RecordsDiffer
    <3>4. Ledger!Intend(c) BY <3>1, <3>2, <3>3 DEF Ledger!Intend
    <3>5. QED BY <3>4 DEF Ledger!LedgerNext
  <2>3. CASE Executes
    <3>1. Top \in Frame /\ Len(stack) \in DOMAIN stack
      BY <1>2, <2>3, PopFrame DEF Executes, TypeOK
    <3>2. Top.cmd \in Commands BY <3>1 DEF Frame
    <3>3. FrameKnown(Top) BY <1>2, <3>1 DEF DispatchInv, Top
    <3>4. Started(Top.cmd) \in journal /\ executions[Top.cmd] = 0
      BY <2>3, <3>3 DEF FrameKnown, Executes
    <3>5. executions' = [executions EXCEPT ![Top.cmd] = 1]
      BY <1>2, <2>3, <3>2, <3>4 DEF Executes, TypeOK
    <3>6. intents' = intents /\ receipts' = receipts BY <2>3 DEF Executes
    <3>7. Ledger!Effect(Top.cmd) BY <3>2, <3>4, <3>5, <3>6 DEF Ledger!Effect
    <3>8. QED BY <3>2, <3>7 DEF Ledger!LedgerNext
  <2>4. CASE Settles
    <3>1. PICK s \in Status : journal' = journal \cup {Finished(Top.cmd, s)}
      BY <2>4 DEF Settles
    <3>2. Top \in Frame /\ Len(stack) \in DOMAIN stack
      BY <1>2, <2>4, PopFrame DEF Settles, TypeOK
    <3>3. Top.cmd \in Commands BY <3>2 DEF Frame
    <3>4. FrameKnown(Top) BY <1>2, <3>2 DEF DispatchInv, Top
    <3>5. executions[Top.cmd] = 1 /\ executions' = executions
          /\ \A r \in LedgerOutcomes : Finished(Top.cmd, r) \notin journal
      BY <2>4, <3>4 DEF FrameKnown, Settles
    <3>6. intents' = intents BY <3>1, RecordsDiffer
    <3>7. CASE s \in LedgerOutcomes
      <4>1. receipts' = receipts \cup {<<Top.cmd, s>>}
        BY <3>1, <3>3, <3>7, RecordsDiffer
      <4>2. \A r \in LedgerOutcomes : <<Top.cmd, r>> \notin receipts BY <3>5
      <4>3. Ledger!Settle(Top.cmd, s)
        BY <3>5, <3>6, <4>1, <4>2 DEF Ledger!Settle
      <4>4. QED BY <3>3, <3>7, <4>3 DEF Ledger!LedgerNext
    <3>8. CASE s \notin LedgerOutcomes
      <4>1. receipts' = receipts BY <3>1, <3>8, RecordsDiffer
      <4>2. QED BY <3>5, <3>6, <4>1 DEF Ledger!ledgerVars
    <3>9. QED BY <3>7, <3>8
  <2>5. QED BY <1>2, <2>1, <2>2, <2>3, <2>4, StepKinds
<1>3. QED
  BY <1>1, <1>2, TypeCorrect, DispatchInvariant, PTL
     DEF Spec, ImplementsLedger, Ledger!LedgerSpec

-----------------------------------------------------------------------------
(* What callers are told *)

\* A step that answers without having run the executor.
LEMMA AnswerUnrun ==
    ASSUME NEW c, NEW s \in {"blocked", "canceled"},
           Persist(c, s, FALSE) \/ Return(c, s, FALSE)
    PROVE  HonestReport'
<1>1. last'.ran = FALSE /\ last'.status = s
  BY DEF Persist, Return
<1>2. QED BY <1>1 DEF HonestReport

\* A step that answers nobody, forgets no record and runs no command again.
LEMMA NoAnswer ==
    ASSUME HonestReport, UNCHANGED last, journal \subseteq journal',
           \A c : executions[c] = 1 => executions'[c] = 1
    PROVE  HonestReport'
BY DEF HonestReport

\* What is reported from history says no more than the history.
LEMMA ReadHistoryHonest ==
    ASSUME HonestReport, NEW p, NEW c, NEW canceled, NEW confirmed, NEW rest,
           ReadHistory(p, c, canceled, confirmed, rest), UNCHANGED executions
    PROVE  HonestReport'
<1>1. \/ Return(c, "blocked", FALSE)
      \/ \E s \in {"blocked", "canceled"} : Persist(c, s, FALSE)
      \/ UNCHANGED <<journal, last>>
  BY DEF ReadHistory
<1>2. QED BY <1>1, AnswerUnrun, NoAnswer

\* Every step reports honestly.
LEMMA HonestStep ==
    ASSUME TypeOK, DispatchInv, HonestReport, [Next]_vars
    PROVE  HonestReport'
<1>1. ASSUME NEW p \in Planes, NEW c \in Commands, NEW canceled \in BOOLEAN,
             Dispatch(p, c, canceled)
      PROVE HonestReport'
  BY <1>1, ReadHistoryHonest DEF Dispatch
<1>2. ASSUME NEW verdict \in BOOLEAN, GuardChecked(verdict)
      PROVE HonestReport'
  <2>1. \/ \E s \in {"blocked", "canceled"} : Persist(Top.cmd, s, FALSE)
        \/ Return(Top.cmd, "blocked", FALSE)
        \/ UNCHANGED last /\ \E o \in AppendOutcome : AppendRecord(Started(Top.cmd), o)
    BY <1>2 DEF GuardChecked
  <2>2. UNCHANGED executions BY <1>2 DEF GuardChecked
  <2>3. QED BY <2>1, <2>2, AnswerUnrun, NoAnswer DEF AppendRecord
<1>3. ASSUME NEW verdict \in BOOLEAN, GuardRechecked(verdict)
      PROVE HonestReport'
  <2>1. CASE Persist(Top.cmd, "blocked", FALSE) BY <2>1, AnswerUnrun
  <2>2. CASE /\ executions' = [executions EXCEPT ![Top.cmd] = @ + 1]
             /\ UNCHANGED <<journal, last>>
    <3>1. Top \in Frame /\ Len(stack) \in DOMAIN stack /\ Top.pc = "guard2"
      BY <1>3, PopFrame DEF GuardRechecked, TypeOK
    <3>2. FrameKnown(Top) BY <3>1 DEF DispatchInv, Top
    <3>3. executions[Top.cmd] = 0 BY <3>1, <3>2 DEF FrameKnown
    <3>4. \A c : executions[c] = 1 => executions'[c] = 1
      BY <2>2, <3>3 DEF TypeOK
    <3>5. QED BY <2>2, <3>4, NoAnswer
  <2>3. QED BY <1>3, <2>1, <2>2 DEF GuardRechecked
<1>4. ASSUME NEW value, ExecutorReturns(value)
      PROVE HonestReport'
  <2>1. Top \in Frame /\ Len(stack) \in DOMAIN stack /\ Top.pc = "exec"
    BY <1>4, PopFrame DEF ExecutorReturns, TypeOK
  <2>2. FrameKnown(Top) BY <2>1 DEF DispatchInv, Top
  <2>3. executions'[Top.cmd] = 1
    BY <1>4, <2>1, <2>2 DEF FrameKnown, ExecutorReturns
  <2>4. PICK o \in AppendOutcome :
            /\ AppendRecord(Finished(Top.cmd, OutcomeStatus(value)), o)
            /\ Return(Top.cmd, IF Raised(o) THEN "uncertain" ELSE OutcomeStatus(value), TRUE)
    BY <1>4 DEF ExecutorReturns, Persist
  <2>5. CASE Raised(o)
    <3>1. Return(Top.cmd, "uncertain", TRUE) BY <2>4, <2>5
    <3>2. last'.status = "uncertain" BY <3>1 DEF Return
    <3>3. QED BY <3>2 DEF HonestReport
  <2>6. CASE ~Raised(o)
    <3>1. Return(Top.cmd, OutcomeStatus(value), TRUE) BY <2>4, <2>6
    <3>2. last'.cmd = Top.cmd /\ last'.status = OutcomeStatus(value) /\ last'.ran
      BY <3>1 DEF Return
    <3>3. Finished(Top.cmd, OutcomeStatus(value)) \in journal'
      BY <2>4, <2>6 DEF AppendRecord, Raised
    <3>4. QED BY <2>3, <3>2, <3>3 DEF HonestReport
  <2>7. QED BY <2>5, <2>6
<1>5. ASSUME NEW p \in Planes, NEW c \in Commands, NEW k \in Keys, NEW t \in Tokens,
             RequestConfirmation(p, c, k, t)
      PROVE HonestReport'
  BY <1>5, NoAnswer DEF RequestConfirmation, AppendRecord
<1>6. ASSUME NEW p \in Planes, NEW e \in confirmations[p], Expire(p, e)
      PROVE HonestReport'
  BY <1>6, NoAnswer DEF Expire
<1>7. ASSUME NEW p \in Planes, NEW k \in Keys, NEW channelValid \in BOOLEAN,
             NEW answer \in BOOLEAN, NEW e \in confirmations[p],
             Confirm(p, e, k, channelValid, answer)
      PROVE HonestReport'
  BY <1>7, NoAnswer, AnswerUnrun DEF Confirm, ConfirmationBlocked
<1>8. ASSUME NEW verdict \in BOOLEAN, NEW observed \in BOOLEAN,
             ConfirmGuardReturns(verdict, observed)
      PROVE HonestReport'
  <2>1. UNCHANGED executions BY <1>8 DEF ConfirmGuardReturns
  <2>2. \/ Persist(Top.cmd, "blocked", FALSE)
        \/ ReadHistory(Top.plane, Top.cmd, Top.canceled, Top.confirmed, Below)
    BY <1>8 DEF ConfirmGuardReturns, ConfirmationBlocked
  <2>3. QED BY <2>1, <2>2, AnswerUnrun, ReadHistoryHonest
<1>9. ASSUME NEW p \in Planes, NEW v \in Versions, ReplaceCatalog(p, v)
      PROVE HonestReport'
  BY <1>9, NoAnswer DEF ReplaceCatalog
<1>10. ASSUME Crash \/ Restart \/ UNCHANGED vars PROVE HonestReport'
  BY <1>10, NoAnswer DEF Crash, Restart, vars
<1>11. QED
  BY <1>1, <1>2, <1>3, <1>4, <1>5, <1>6, <1>7, <1>8, <1>9, <1>10 DEF Next

\* A caller told "success" or "failed" can rely on a durable receipt with that
\* status and on the executor having run exactly once, in that very call.
THEOREM ReportsHonest == ASSUME GuardsStayHome PROVE Spec => []HonestReport
<1>1. Init => HonestReport BY DEF Init, HonestReport, NoReport
<1>2. TypeOK /\ DispatchInv /\ HonestReport /\ [Next]_vars => HonestReport'
  BY HonestStep
<1>3. QED BY <1>1, <1>2, TypeCorrect, DispatchInvariant, PTL DEF Spec

-----------------------------------------------------------------------------
(* The catalog during a call *)

\* A command that is not denied is of the catalog version in force.
LEMMA AuthorisedVersion ==
    ASSUME NEW p, NEW c, NEW confirmed, Denial(p, c, confirmed) = "none"
    PROVE  CmdVersion[c] = version[p]
BY DEF Denial

\* A stopped process has no call in progress and no preview.
PinInv == /\ CatalogPinned
          /\ PreviewsCurrent
          /\ ~up => stack = <<>> /\ \A p \in Planes : confirmations[p] = {}

\* A step on one unchanged catalog whose frames past the intent were past it.
LEMMA PinFrames ==
    ASSUME CatalogPinned, version' = version,
           \A i \in DOMAIN stack' :
               \/ stack'[i].pc \notin {"guard2", "exec"}
               \/ i \in DOMAIN stack /\ stack'[i] = stack[i]
               \/ version[stack'[i].plane] = CmdVersion[stack'[i].cmd]
    PROVE  CatalogPinned'
BY DEF CatalogPinned

\* A call that gets to its first guard is of the version in force.
LEMMA ReadHistoryPin ==
    ASSUME CatalogPinned, version' = version,
           NEW p \in Planes, NEW c \in Commands, NEW canceled \in BOOLEAN,
           NEW confirmed \in BOOLEAN, NEW rest \in Seq(Frame),
           \A i \in DOMAIN rest : i \in DOMAIN stack /\ rest[i] = stack[i],
           ReadHistory(p, c, canceled, confirmed, rest)
    PROVE  CatalogPinned'
<1> DEFINE f == [plane |-> p, cmd |-> c, pc |-> "guard1",
                 canceled |-> canceled, confirmed |-> confirmed]
<1>1. stack' = rest \/ stack' = Append(rest, f) BY DEF ReadHistory
<1>2. CASE stack' = rest BY <1>2, PinFrames
<1>3. CASE stack' = Append(rest, f)
  <2>1. f \in Frame /\ f.pc = "guard1" BY DEF Frame, Callbacks
  <2>2. /\ DOMAIN stack' = 1 .. (Len(rest) + 1) /\ DOMAIN rest = 1 .. Len(rest)
        /\ Len(rest) \in Nat
        /\ \A i \in DOMAIN rest : stack'[i] = rest[i]
        /\ stack'[Len(rest) + 1].pc = "guard1"
    BY <1>3, <2>1, PushFrame
  <2>3. QED BY <2>2, PinFrames
<1>4. QED BY <1>1, <1>2, <1>3

\* Every step keeps calls and previews pinned to their version.
LEMMA PinStep ==
    ASSUME TypeOK, PinInv, [Next]_vars
    PROVE  PinInv'
<1>0. stack \in Seq(Frame) /\ CatalogPinned /\ PreviewsCurrent
  BY DEF TypeOK, PinInv
<1>1. ASSUME NEW p \in Planes, NEW c \in Commands, NEW canceled \in BOOLEAN,
             Dispatch(p, c, canceled)
      PROVE PinInv'
  <2>1. up /\ UNCHANGED <<up, version, confirmations>> BY <1>1 DEF Dispatch, CanEnter
  <2>2. PICK confirmed \in BOOLEAN : ReadHistory(p, c, canceled, confirmed, stack)
    BY <1>1 DEF Dispatch
  <2>3. \A i \in DOMAIN stack : i \in DOMAIN stack /\ stack[i] = stack[i] OBVIOUS
  <2>4. CatalogPinned' BY <1>0, <2>1, <2>2, <2>3, ReadHistoryPin
  <2>5. QED BY <1>0, <2>1, <2>4 DEF PinInv, PreviewsCurrent
<1>2. ASSUME NEW verdict \in BOOLEAN, GuardChecked(verdict)
      PROVE PinInv'
  <2>1. stack # <<>> /\ UNCHANGED <<up, version, confirmations>>
    BY <1>2 DEF GuardChecked
  <2>2. up BY <2>1 DEF PinInv
  <2>3. /\ Top \in Frame /\ Len(stack) \in DOMAIN stack
        /\ \A i \in DOMAIN Below : i \in DOMAIN stack /\ Below[i] = stack[i]
    BY <1>0, <2>1, PopFrame
  <2>4. ASSUME stack' = Below PROVE CatalogPinned'
    BY <1>0, <2>1, <2>3, <2>4, PinFrames
  <2>5. ASSUME Denial(Top.plane, Top.cmd, Top.confirmed) = "none",
               stack' = AdvanceTo("guard2")
        PROVE CatalogPinned'
    <3>1. version[Top.plane] = CmdVersion[Top.cmd] BY <2>5, AuthorisedVersion
    <3>2. /\ DOMAIN stack' = DOMAIN stack
          /\ \A i \in DOMAIN stack : i # Len(stack) => stack'[i] = stack[i]
          /\ stack'[Len(stack)] = [Top EXCEPT !.pc = "guard2"]
      BY <1>0, <2>1, <2>5, AdvanceFrame DEF Callbacks
    <3>3. [Top EXCEPT !.pc = "guard2"].plane = Top.plane
          /\ [Top EXCEPT !.pc = "guard2"].cmd = Top.cmd
      BY <2>3 DEF Frame
    <3>4. QED BY <1>0, <2>1, <3>1, <3>2, <3>3, PinFrames
  <2>6. CatalogPinned' BY <1>2, <2>4, <2>5 DEF GuardChecked
  <2>7. QED BY <1>0, <2>1, <2>2, <2>6 DEF PinInv, PreviewsCurrent
<1>3. ASSUME NEW verdict \in BOOLEAN, GuardRechecked(verdict)
      PROVE PinInv'
  <2>1. stack # <<>> /\ Top.pc = "guard2" /\ UNCHANGED <<up, version, confirmations>>
    BY <1>3 DEF GuardRechecked
  <2>2. up BY <2>1 DEF PinInv
  <2>3. /\ Top \in Frame /\ Len(stack) \in DOMAIN stack
        /\ \A i \in DOMAIN Below : i \in DOMAIN stack /\ Below[i] = stack[i]
    BY <1>0, <2>1, PopFrame
  <2>4. ASSUME stack' = Below PROVE CatalogPinned'
    BY <1>0, <2>1, <2>3, <2>4, PinFrames
  <2>5. ASSUME stack' = AdvanceTo("exec") PROVE CatalogPinned'
    <3>1. version[Top.plane] = CmdVersion[Top.cmd]
      BY <1>0, <2>1, <2>3 DEF CatalogPinned, Top
    <3>2. /\ DOMAIN stack' = DOMAIN stack
          /\ \A i \in DOMAIN stack : i # Len(stack) => stack'[i] = stack[i]
          /\ stack'[Len(stack)] = [Top EXCEPT !.pc = "exec"]
      BY <1>0, <2>1, <2>5, AdvanceFrame DEF Callbacks
    <3>3. [Top EXCEPT !.pc = "exec"].plane = Top.plane
          /\ [Top EXCEPT !.pc = "exec"].cmd = Top.cmd
      BY <2>3 DEF Frame
    <3>4. QED BY <1>0, <2>1, <3>1, <3>2, <3>3, PinFrames
  <2>6. CatalogPinned' BY <1>3, <2>4, <2>5 DEF GuardRechecked
  <2>7. QED BY <1>0, <2>1, <2>2, <2>6 DEF PinInv, PreviewsCurrent
<1>4. ASSUME NEW value, ExecutorReturns(value)
      PROVE PinInv'
  <2>1. stack # <<>> /\ stack' = Below /\ UNCHANGED <<up, version, confirmations>>
    BY <1>4 DEF ExecutorReturns
  <2>2. up BY <2>1 DEF PinInv
  <2>3. \A i \in DOMAIN Below : i \in DOMAIN stack /\ Below[i] = stack[i]
    BY <1>0, <2>1, PopFrame
  <2>4. CatalogPinned' BY <1>0, <2>1, <2>3, PinFrames
  <2>5. QED BY <1>0, <2>1, <2>2, <2>4 DEF PinInv, PreviewsCurrent
<1>5. ASSUME NEW p \in Planes, NEW c \in Commands, NEW k \in Keys, NEW t \in Tokens,
             RequestConfirmation(p, c, k, t)
      PROVE PinInv'
  <2> DEFINE kept == {e \in confirmations[p] : e.live}
             new == [token |-> t, cmd |-> c, key |-> k, live |-> TRUE]
  <2>1. up /\ UNCHANGED <<up, version, stack>> BY <1>5 DEF RequestConfirmation, CanEnter
  <2>2. CmdVersion[c] = version[p] BY <1>5, AuthorisedVersion DEF RequestConfirmation
  <2>3. \/ confirmations' = [confirmations EXCEPT ![p] = kept]
        \/ confirmations' = [confirmations EXCEPT ![p] = kept \cup {new}]
    BY <1>5 DEF RequestConfirmation
  <2>4. ASSUME NEW q \in Planes, NEW e \in confirmations'[q]
        PROVE e \in confirmations[q] \/ (q = p /\ e = new)
    BY <2>3, <2>4 DEF TypeOK
  <2>5. PreviewsCurrent'
    BY <1>0, <2>1, <2>2, <2>4 DEF PreviewsCurrent
  <2>6. CatalogPinned' BY <1>0, <2>1 DEF CatalogPinned
  <2>7. QED BY <2>1, <2>5, <2>6 DEF PinInv
<1>6. ASSUME NEW p \in Planes, NEW e \in confirmations[p], Expire(p, e)
      PROVE PinInv'
  <2>1. up /\ UNCHANGED <<up, version, stack>> BY <1>6 DEF Expire
  <2>2. e \in Confirmation BY DEF TypeOK
  <2>3. [e EXCEPT !.live = FALSE].cmd = e.cmd BY <2>2 DEF Confirmation
  <2>4. ASSUME NEW q \in Planes, NEW d \in confirmations'[q]
        PROVE d \in confirmations[q] \/ (q = p /\ d = [e EXCEPT !.live = FALSE])
    BY <1>6, <2>4 DEF Expire, TypeOK
  <2>5. PreviewsCurrent'
    <3>1. CmdVersion[e.cmd] = version[p] BY <1>0 DEF PreviewsCurrent
    <3>2. ASSUME NEW q \in Planes, NEW d \in confirmations'[q]
          PROVE CmdVersion[d.cmd] = version[q]
      BY <1>0, <2>3, <2>4, <3>1, <3>2 DEF PreviewsCurrent
    <3>3. QED BY <2>1, <3>2 DEF PreviewsCurrent
  <2>6. CatalogPinned' BY <1>0, <2>1 DEF CatalogPinned
  <2>7. QED BY <2>1, <2>5, <2>6 DEF PinInv
<1>7. ASSUME NEW p \in Planes, NEW k \in Keys, NEW channelValid \in BOOLEAN,
             NEW answer \in BOOLEAN, NEW e \in confirmations[p],
             Confirm(p, e, k, channelValid, answer)
      PROVE PinInv'
  <2> DEFINE f == [plane |-> p, cmd |-> e.cmd, pc |-> "cguard",
                   canceled |-> ~answer, confirmed |-> answer]
  <2>1. up /\ UNCHANGED <<up, version>> BY <1>7 DEF Confirm, CanEnter
  <2>2. \A q \in Planes : confirmations'[q] \subseteq confirmations[q]
    BY <1>7 DEF Confirm, TypeOK
  <2>3. PreviewsCurrent' BY <1>0, <2>1, <2>2 DEF PreviewsCurrent
  <2>4. ASSUME UNCHANGED stack PROVE CatalogPinned'
    BY <1>0, <2>1, <2>4 DEF CatalogPinned
  <2>5. ASSUME stack' = Append(stack, f) PROVE CatalogPinned'
    <3>1. e.cmd \in Commands BY DEF TypeOK, Confirmation
    <3>2. f \in Frame /\ f.pc = "cguard" BY <3>1 DEF Frame, Callbacks
    <3>3. /\ DOMAIN stack' = 1 .. (Len(stack) + 1) /\ DOMAIN stack = 1 .. Len(stack)
          /\ Len(stack) \in Nat
          /\ \A i \in DOMAIN stack : stack'[i] = stack[i]
          /\ stack'[Len(stack) + 1].pc = "cguard"
      BY <1>0, <2>5, <3>2, PushFrame
    <3>4. QED BY <1>0, <2>1, <3>3, PinFrames
  <2>6. CatalogPinned' BY <1>7, <2>4, <2>5 DEF Confirm
  <2>7. QED BY <2>1, <2>3, <2>6 DEF PinInv
<1>8. ASSUME NEW verdict \in BOOLEAN, NEW observed \in BOOLEAN,
             ConfirmGuardReturns(verdict, observed)
      PROVE PinInv'
  <2>1. stack # <<>> /\ UNCHANGED <<up, version, confirmations>>
    BY <1>8 DEF ConfirmGuardReturns
  <2>2. up BY <2>1 DEF PinInv
  <2>3. /\ Top \in Frame /\ Below \in Seq(Frame)
        /\ \A i \in DOMAIN Below : i \in DOMAIN stack /\ Below[i] = stack[i]
    BY <1>0, <2>1, PopFrame
  <2>4. Top.cmd \in Commands /\ Top.plane \in Planes
        /\ Top.canceled \in BOOLEAN /\ Top.confirmed \in BOOLEAN
    BY <2>3 DEF Frame
  <2>5. ASSUME stack' = Below PROVE CatalogPinned'
    BY <1>0, <2>1, <2>3, <2>5, PinFrames
  <2>6. ASSUME ReadHistory(Top.plane, Top.cmd, Top.canceled, Top.confirmed, Below)
        PROVE CatalogPinned'
    BY <1>0, <2>1, <2>3, <2>4, <2>6, ReadHistoryPin
  <2>7. CatalogPinned' BY <1>8, <2>5, <2>6 DEF ConfirmGuardReturns
  <2>8. QED BY <1>0, <2>1, <2>2, <2>7 DEF PinInv, PreviewsCurrent
<1>9. ASSUME NEW p \in Planes, NEW v \in Versions, ReplaceCatalog(p, v)
      PROVE PinInv'
  <2>1. up /\ UNCHANGED <<up, stack>> /\ \A i \in DOMAIN stack : stack[i].plane # p
    BY <1>9 DEF ReplaceCatalog, CatalogInUse
  <2>2. \A q \in Planes : q # p => version'[q] = version[q]
                                   /\ confirmations'[q] = confirmations[q]
    BY <1>9 DEF ReplaceCatalog, TypeOK
  <2>3. confirmations'[p] = {} BY <1>9 DEF ReplaceCatalog, TypeOK
  <2>4. \A i \in DOMAIN stack : stack[i] \in Frame BY <1>0
  <2>5. \A i \in DOMAIN stack : stack[i].plane \in Planes BY <2>4 DEF Frame
  <2>6. CatalogPinned' BY <1>0, <2>1, <2>2, <2>5 DEF CatalogPinned
  <2>7. PreviewsCurrent' BY <1>0, <2>2, <2>3 DEF PreviewsCurrent
  <2>8. QED BY <2>1, <2>6, <2>7 DEF PinInv
<1>10. CASE Crash
  BY <1>10 DEF Crash, PinInv, CatalogPinned, PreviewsCurrent
<1>11. CASE Restart
  BY <1>11 DEF Restart, PinInv, CatalogPinned, PreviewsCurrent
<1>12. CASE UNCHANGED vars
  BY <1>12 DEF vars, PinInv, CatalogPinned, PreviewsCurrent
<1>13. QED
  BY <1>1, <1>2, <1>3, <1>4, <1>5, <1>6, <1>7, <1>8, <1>9, <1>10, <1>11, <1>12
     DEF Next

\* They are in every reachable state.
LEMMA PinInvariant == Spec => []PinInv
<1>1. Init => PinInv BY DEF Init, PinInv, CatalogPinned, PreviewsCurrent
<1>2. TypeOK /\ PinInv /\ [Next]_vars => PinInv' BY PinStep
<1>3. QED BY <1>1, <1>2, TypeCorrect, PTL DEF Spec

\* Whatever a callback calls, the catalog a command was authorised against is
\* its plane's catalog until the action is over (core.py _catalog_use).
THEOREM CatalogAlwaysPinned == Spec => []CatalogPinned
<1>1. PinInv => CatalogPinned BY DEF PinInv
<1>2. QED BY <1>1, PinInvariant, PTL

\* No confirmation token outlives the catalog it was issued under
\* (core.py replace_catalog).
THEOREM PreviewsAlwaysCurrent == Spec => []PreviewsCurrent
<1>1. PinInv => PreviewsCurrent BY DEF PinInv
<1>2. QED BY <1>1, PinInvariant, PTL

-----------------------------------------------------------------------------
(* Approval *)

\* No guard of a command lets a preview of that very command be written, by whichever
\* dispatcher: what _dispatch has read of the history before its guards stays true of it.
PreviewsElsewhere ==
    \A c \in Commands : Preview(c) \in journal' =>
        \/ Preview(c) \in journal
        \/ \A i \in DOMAIN stack : stack[i].cmd = c => stack[i].pc \notin {"guard1", "guard2"}

\* What a frame owes, given the rows of the journal and the approvals: a confirmed call
\* was approved, one in its guards has no preview, and one past its intent was not asked
\* to confirm.
FrameAsked(f, rows, yes) ==
    /\ Working(f) /\ f.confirmed => f.cmd \in yes
    /\ f.pc \in {"guard1", "guard2"} /\ ~f.confirmed => Preview(f.cmd) \notin rows
    /\ f.pc = "guard2" /\ ~f.confirmed => /\ Risk[f.cmd] # "confirm"
                                          /\ f.cmd \notin ConfirmRequired[f.plane]

AskedInv == \A i \in DOMAIN stack : FrameAsked(stack[i], journal, approved)

\* A step whose frames were there or owe nothing new.
LEMMA AskedFrames ==
    ASSUME TypeOK, AskedInv, PreviewsElsewhere, approved \subseteq approved',
           \A i \in DOMAIN stack' :
               \/ i \in DOMAIN stack /\ stack'[i] = stack[i]
               \/ FrameAsked(stack'[i], journal', approved')
    PROVE  AskedInv'
<1>1. ASSUME NEW i \in DOMAIN stack
      PROVE  FrameAsked(stack[i], journal', approved')
  <2>1. stack[i] \in Frame BY DEF TypeOK
  <2>2. stack[i].cmd \in Commands BY <2>1 DEF Frame
  <2>3. FrameAsked(stack[i], journal, approved) BY DEF AskedInv
  <2>4. stack[i].pc \in {"guard1", "guard2"} =>
          (Preview(stack[i].cmd) \in journal' => Preview(stack[i].cmd) \in journal)
    BY <2>2 DEF PreviewsElsewhere
  <2>5. QED BY <2>3, <2>4 DEF FrameAsked
<1>2. QED BY <1>1 DEF AskedInv

\* A call that gets to its first guard was approved or has no preview.
LEMMA ReadHistoryAsked ==
    ASSUME TypeOK, AskedInv, PreviewsElsewhere, approved \subseteq approved',
           NEW p \in Planes, NEW c \in Commands, NEW canceled \in BOOLEAN,
           NEW confirmed \in BOOLEAN, NEW rest \in Seq(Frame),
           \A i \in DOMAIN rest : i \in DOMAIN stack /\ rest[i] = stack[i],
           confirmed => c \in approved',
           ReadHistory(p, c, canceled, confirmed, rest)
    PROVE  AskedInv'
<1> DEFINE f == [plane |-> p, cmd |-> c, pc |-> "guard1",
                 canceled |-> canceled, confirmed |-> confirmed]
<1>1. \/ stack' = rest
      \/ /\ stack' = Append(rest, f) /\ journal' = journal
         /\ PreviewPending(c) => confirmed
  BY DEF ReadHistory
<1>2. CASE stack' = rest BY <1>2, AskedFrames
<1>3. CASE /\ stack' = Append(rest, f) /\ journal' = journal
           /\ PreviewPending(c) => confirmed
  <2>1. f \in Frame BY DEF Frame, Callbacks
  <2>2. /\ DOMAIN stack' = 1 .. (Len(rest) + 1) /\ DOMAIN rest = 1 .. Len(rest)
        /\ Len(rest) \in Nat
        /\ \A i \in DOMAIN rest : stack'[i] = rest[i]
        /\ stack'[Len(rest) + 1] = f
    BY <1>3, <2>1, PushFrame
  <2>3. FrameAsked(f, journal', approved')
    BY <1>3 DEF FrameAsked, PreviewPending
  <2>4. ASSUME NEW i \in DOMAIN stack'
        PROVE  \/ i \in DOMAIN stack /\ stack'[i] = stack[i]
               \/ FrameAsked(stack'[i], journal', approved')
    <3>1. CASE i \in DOMAIN rest BY <2>2, <3>1
    <3>2. CASE i = Len(rest) + 1 BY <2>2, <2>3, <3>2
    <3>3. QED BY <2>2, <3>1, <3>2
  <2>5. QED BY <2>4, AskedFrames
<1>4. QED BY <1>1, <1>2, <1>3

\* What the check before the intent leaves to be approved.
LEMMA NotAsked ==
    ASSUME NEW p, NEW c, Denial(p, c, FALSE) = "none"
    PROVE  Risk[c] # "confirm" /\ c \notin ConfirmRequired[p]
BY DEF Denial

\* Every step that previews elsewhere keeps it.
LEMMA AskedStep ==
    ASSUME TypeOK, AskedInv, Next, PreviewsElsewhere
    PROVE  AskedInv'
<1>0. stack \in Seq(Frame) BY DEF TypeOK
<1>1. ASSUME NEW p \in Planes, NEW c \in Commands, NEW canceled \in BOOLEAN,
             Dispatch(p, c, canceled)
      PROVE AskedInv'
  <2>1. PICK confirmed \in BOOLEAN :
            ~confirmed /\ ReadHistory(p, c, canceled, confirmed, stack)
    BY <1>1 DEF Dispatch
  <2>2. approved' = approved BY <1>1 DEF Dispatch
  <2>3. \A i \in DOMAIN stack : i \in DOMAIN stack /\ stack[i] = stack[i] OBVIOUS
  <2>4. QED BY <1>0, <2>1, <2>2, <2>3, ReadHistoryAsked
<1>2. ASSUME NEW verdict \in BOOLEAN, GuardChecked(verdict)
      PROVE AskedInv'
  <2>1. stack # <<>> /\ Top.pc = "guard1" /\ approved' = approved
    BY <1>2 DEF GuardChecked
  <2>2. /\ Top \in Frame /\ Len(stack) \in DOMAIN stack
        /\ \A i \in DOMAIN Below : i \in DOMAIN stack /\ Below[i] = stack[i]
    BY <1>0, <2>1, PopFrame
  <2>3. ASSUME stack' = Below PROVE AskedInv'
    BY <2>1, <2>2, <2>3, AskedFrames
  <2>4. ASSUME Denial(Top.plane, Top.cmd, Top.confirmed) = "none",
               stack' = AdvanceTo("guard2")
        PROVE AskedInv'
    <3> DEFINE g == [Top EXCEPT !.pc = "guard2"]
    <3>1. /\ DOMAIN stack' = DOMAIN stack
          /\ \A i \in DOMAIN stack : i # Len(stack) => stack'[i] = stack[i]
          /\ stack'[Len(stack)] = g
      BY <1>0, <2>1, <2>4, AdvanceFrame DEF Callbacks
    <3>2. /\ g.pc = "guard2" /\ g.plane = Top.plane /\ g.cmd = Top.cmd
          /\ g.confirmed = Top.confirmed
          /\ Top.cmd \in Commands /\ Top.confirmed \in BOOLEAN
      BY <2>2 DEF Frame
    <3>3. FrameAsked(Top, journal, approved) BY <2>2 DEF AskedInv, Top
    <3>4. ~Top.confirmed => /\ Risk[Top.cmd] # "confirm"
                            /\ Top.cmd \notin ConfirmRequired[Top.plane]
      <4>1. ASSUME ~Top.confirmed PROVE Denial(Top.plane, Top.cmd, FALSE) = "none"
        <5>1. Top.confirmed = FALSE BY <3>2, <4>1
        <5>2. QED BY <2>4, <5>1
      <4>2. QED BY <4>1, NotAsked
    <3>5. ~Top.confirmed => Preview(Top.cmd) \notin journal'
      <4>1. ~Top.confirmed => Preview(Top.cmd) \notin journal
        BY <2>1, <3>3 DEF FrameAsked
      <4>2. Preview(Top.cmd) \in journal' => Preview(Top.cmd) \in journal
        BY <2>1, <2>2, <3>2 DEF PreviewsElsewhere, Top
      <4>3. QED BY <4>1, <4>2
    <3>6. Top.confirmed => Top.cmd \in approved
      BY <2>1, <3>3 DEF FrameAsked, Working
    <3>7. FrameAsked(g, journal', approved')
      BY <2>1, <3>2, <3>4, <3>5, <3>6 DEF FrameAsked
    <3>8. QED BY <2>1, <3>1, <3>7, AskedFrames
  <2>5. QED BY <1>2, <2>3, <2>4 DEF GuardChecked
<1>3. ASSUME NEW verdict \in BOOLEAN, GuardRechecked(verdict)
      PROVE AskedInv'
  <2>1. stack # <<>> /\ Top.pc = "guard2" /\ approved' = approved
    BY <1>3 DEF GuardRechecked
  <2>2. /\ Top \in Frame /\ Len(stack) \in DOMAIN stack
        /\ \A i \in DOMAIN Below : i \in DOMAIN stack /\ Below[i] = stack[i]
    BY <1>0, <2>1, PopFrame
  <2>3. ASSUME stack' = Below PROVE AskedInv'
    BY <2>1, <2>2, <2>3, AskedFrames
  <2>4. ASSUME stack' = AdvanceTo("exec") PROVE AskedInv'
    <3> DEFINE g == [Top EXCEPT !.pc = "exec"]
    <3>1. /\ DOMAIN stack' = DOMAIN stack
          /\ \A i \in DOMAIN stack : i # Len(stack) => stack'[i] = stack[i]
          /\ stack'[Len(stack)] = g
      BY <1>0, <2>1, <2>4, AdvanceFrame DEF Callbacks
    <3>2. g.pc = "exec" /\ g.cmd = Top.cmd /\ g.confirmed = Top.confirmed
      BY <2>2 DEF Frame
    <3>3. FrameAsked(Top, journal, approved) BY <2>2 DEF AskedInv, Top
    <3>4. FrameAsked(g, journal', approved')
      BY <2>1, <3>2, <3>3 DEF FrameAsked, Working
    <3>5. QED BY <2>1, <3>1, <3>4, AskedFrames
  <2>5. QED BY <1>3, <2>3, <2>4 DEF GuardRechecked
<1>4. ASSUME NEW value, ExecutorReturns(value)
      PROVE AskedInv'
  <2>1. stack # <<>> /\ stack' = Below /\ approved' = approved
    BY <1>4 DEF ExecutorReturns
  <2>2. \A i \in DOMAIN Below : i \in DOMAIN stack /\ Below[i] = stack[i]
    BY <1>0, <2>1, PopFrame
  <2>3. QED BY <2>1, <2>2, AskedFrames
<1>5. ASSUME NEW p \in Planes, NEW k \in Keys, NEW channelValid \in BOOLEAN,
             NEW answer \in BOOLEAN, NEW e \in confirmations[p],
             Confirm(p, e, k, channelValid, answer)
      PROVE AskedInv'
  <2> DEFINE f == [plane |-> p, cmd |-> e.cmd, pc |-> "cguard",
                   canceled |-> ~answer, confirmed |-> answer]
  <2>1. approved' = approved BY <1>5 DEF Confirm
  <2>2. ASSUME UNCHANGED stack PROVE AskedInv' BY <2>1, <2>2, AskedFrames
  <2>3. ASSUME stack' = Append(stack, f) PROVE AskedInv'
    <3>1. e.cmd \in Commands BY DEF TypeOK, Confirmation
    <3>2. f \in Frame /\ FrameAsked(f, journal', approved')
      BY <3>1 DEF Frame, Callbacks, FrameAsked, Working
    <3>3. /\ DOMAIN stack' = 1 .. (Len(stack) + 1) /\ DOMAIN stack = 1 .. Len(stack)
          /\ Len(stack) \in Nat
          /\ \A i \in DOMAIN stack : stack'[i] = stack[i]
          /\ stack'[Len(stack) + 1] = f
      BY <1>0, <2>3, <3>2, PushFrame
    <3>4. ASSUME NEW i \in DOMAIN stack'
          PROVE  \/ i \in DOMAIN stack /\ stack'[i] = stack[i]
                 \/ FrameAsked(stack'[i], journal', approved')
      <4>1. CASE i \in DOMAIN stack BY <3>3, <4>1
      <4>2. CASE i = Len(stack) + 1 BY <3>2, <3>3, <4>2
      <4>3. QED BY <3>3, <4>1, <4>2
    <3>5. QED BY <2>1, <3>4, AskedFrames
  <2>4. QED BY <1>5, <2>2, <2>3 DEF Confirm
<1>6. ASSUME NEW verdict \in BOOLEAN, NEW observed \in BOOLEAN,
             ConfirmGuardReturns(verdict, observed)
      PROVE AskedInv'
  <2>1. stack # <<>> BY <1>6 DEF ConfirmGuardReturns
  <2>2. /\ Top \in Frame /\ Below \in Seq(Frame)
        /\ \A i \in DOMAIN Below : i \in DOMAIN stack /\ Below[i] = stack[i]
    BY <1>0, <2>1, PopFrame
  <2>3. Top.cmd \in Commands /\ Top.plane \in Planes
        /\ Top.canceled \in BOOLEAN /\ Top.confirmed \in BOOLEAN
    BY <2>2 DEF Frame
  <2>4. ASSUME stack' = Below, approved' = approved PROVE AskedInv'
    BY <2>2, <2>4, AskedFrames
  <2>5. ASSUME approved' = IF Top.confirmed THEN approved \cup {Top.cmd} ELSE approved,
               ReadHistory(Top.plane, Top.cmd, Top.canceled, Top.confirmed, Below)
        PROVE AskedInv'
    <3>1. approved \subseteq approved' /\ (Top.confirmed => Top.cmd \in approved')
      BY <2>5
    <3>2. QED BY <2>2, <2>3, <2>5, <3>1, ReadHistoryAsked
  <2>6. QED BY <1>6, <2>4, <2>5 DEF ConfirmGuardReturns
<1>7. ASSUME UNCHANGED <<stack, approved>> PROVE AskedInv'
  BY <1>7, AskedFrames
<1>8. ASSUME NEW p \in Planes, NEW c \in Commands, NEW k \in Keys, NEW t \in Tokens,
             RequestConfirmation(p, c, k, t)
      PROVE AskedInv'
  BY <1>7, <1>8 DEF RequestConfirmation
<1>9. ASSUME NEW p \in Planes, NEW e \in confirmations[p], Expire(p, e)
      PROVE AskedInv'
  BY <1>7, <1>9 DEF Expire
<1>10. ASSUME NEW p \in Planes, NEW v \in Versions, ReplaceCatalog(p, v)
      PROVE AskedInv'
  BY <1>7, <1>10 DEF ReplaceCatalog
<1>11. CASE Crash BY <1>11 DEF Crash, AskedInv
<1>12. CASE Restart BY <1>7, <1>12 DEF Restart
<1>13. QED
  BY <1>1, <1>2, <1>3, <1>4, <1>5, <1>6, <1>8, <1>9, <1>10, <1>11, <1>12 DEF Next

\* Only the executor's invocation counts, and it follows the second guard.
LEMMA ExecutionAsked ==
    ASSUME TypeOK, AskedInv, Next
    PROVE  ApprovedStep
<1> SUFFICES ASSUME NEW c \in Commands, executions'[c] # executions[c],
                    NeedsApproval(Top.plane, c)
             PROVE  c \in approved
  BY DEF ApprovedStep
<1>1. PICK verdict \in BOOLEAN : GuardRechecked(verdict)
  BY DEF Next, Dispatch, GuardChecked, ExecutorReturns, RequestConfirmation, Expire, Confirm,
         ConfirmGuardReturns, ReplaceCatalog, Crash, Restart
<1>2. stack # <<>> /\ Top.pc = "guard2" BY <1>1 DEF GuardRechecked
<1>3. Top \in Frame /\ Len(stack) \in DOMAIN stack
  BY <1>2, PopFrame DEF TypeOK
<1>4. c = Top.cmd
  <2>1. executions' = executions \/ executions' = [executions EXCEPT ![Top.cmd] = @ + 1]
    BY <1>1 DEF GuardRechecked
  <2>2. QED BY <2>1 DEF TypeOK
<1>5. FrameAsked(Top, journal, approved) BY <1>3 DEF AskedInv, Top
<1>6. QED BY <1>2, <1>4, <1>5 DEF FrameAsked, Working, NeedsApproval

\* While no guard previews the command it guards, the executor is invoked for a command
\* that is previewed anywhere, or has to be confirmed, only after an approval was
\* accepted (core.py _denial, _dispatch, confirm).
THEOREM ApprovalAlwaysRequired == Spec /\ [][PreviewsElsewhere]_vars => ApprovalRequired
<1>1. Init => AskedInv BY DEF Init, AskedInv
<1>2. TypeOK /\ AskedInv /\ [Next]_vars /\ [PreviewsElsewhere]_vars => AskedInv'
  <2>1. ASSUME AskedInv, UNCHANGED vars PROVE AskedInv'
    BY <2>1 DEF vars, AskedInv
  <2>2. QED BY <2>1, AskedStep
<1>3. TypeOK /\ AskedInv /\ [Next]_vars => [ApprovedStep]_vars
  BY ExecutionAsked
<1>4. QED BY <1>1, <1>2, <1>3, TypeCorrect, PTL DEF Spec, ApprovalRequired

\* Guards that call nothing back, as those of the voice router, preview nothing, so the
\* theorem holds of them without a proviso.
LEMMA QuietGuardsPreviewElsewhere ==
    ASSUME TypeOK, Next, {"guard1", "guard2"} \cap (OwnReentry \cup OtherReentry) = {}
    PROVE  PreviewsElsewhere
<1> SUFFICES ASSUME NEW c \in Commands, Preview(c) \in journal', Preview(c) \notin journal,
                    NEW i \in DOMAIN stack, stack[i].pc \in {"guard1", "guard2"}
             PROVE  FALSE
  BY DEF PreviewsElsewhere
<1>1. ASSUME NEW d, NEW s, NEW ran, Persist(d, s, ran) PROVE FALSE
  BY <1>1, PersistEffect
<1>2. PICK p \in Planes : CanEnter(p)
  <2>1. journal' # journal OBVIOUS
  <2>2. ASSUME NEW verdict \in BOOLEAN, GuardChecked(verdict) PROVE FALSE
    <3>1. PICK o \in AppendOutcome : AppendRecord(Started(Top.cmd), o)
      BY <1>1, <2>2 DEF GuardChecked
    <3>2. QED BY <3>1, RecordsDiffer DEF AppendRecord
  <2>3. ASSUME NEW verdict \in BOOLEAN, GuardRechecked(verdict) PROVE FALSE
    BY <1>1, <2>1, <2>3 DEF GuardRechecked
  <2>4. ASSUME NEW value, ExecutorReturns(value) PROVE FALSE
    BY <1>1, <2>4 DEF ExecutorReturns
  <2>5. ASSUME NEW verdict \in BOOLEAN, NEW observed \in BOOLEAN,
               ConfirmGuardReturns(verdict, observed)
        PROVE FALSE
    BY <1>1, <2>1, <2>5 DEF ConfirmGuardReturns, ConfirmationBlocked, ReadHistory
  <2>6. QED BY <2>1, <2>2, <2>3, <2>4, <2>5
            DEF Next, Dispatch, RequestConfirmation, Expire, Confirm, ReplaceCatalog, Crash, Restart
<1>3. stack[i].pc \in OwnReentry \cup OtherReentry BY <1>2 DEF CanEnter
<1>4. QED BY <1>3

\* The same where guards call nothing back, which is how the repository uses them.
THEOREM ApprovalUnderQuietGuards ==
    ASSUME {"guard1", "guard2"} \cap (OwnReentry \cup OtherReentry) = {}
    PROVE  Spec => ApprovalRequired
<1>1. TypeOK /\ [Next]_vars => [PreviewsElsewhere]_vars
  BY QuietGuardsPreviewElsewhere
<1>2. QED BY <1>1, ApprovalAlwaysRequired, TypeCorrect, PTL DEF Spec
=============================================================================
