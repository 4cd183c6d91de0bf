----------------------- MODULE TerraformExecutorProofs -----------------------
(***************************************************************************)
(* Proofs about TerraformExecutor: for any number of workers, deliveries   *)
(* and faults the approved plan changes the cloud at most once, and events,*)
(* receipts and settled messages are true.                                 *)
(***************************************************************************)
EXTENDS TerraformExecutor, TLAPS

-----------------------------------------------------------------------------
(* The inductive invariant.  A delivery is received once: whoever has one in *)
(* hand is alone with it, so the plan it saves stays as it was saved, and    *)
(* what was published of it stays true.  The plan that is approved was saved *)
(* before anything was applied, which Terraform's refusal of a plan whose    *)
(* state has moved on turns into one apply.                                  *)

USE DEF Jobs

Early == {"acknowledge", "protect", "claim", "prepare", "tool"}

\* What the result of a worker's job is made of exists.
Done(w) == IF work[w].job = "plan" THEN saved[work[w].delivery] # NotSaved ELSE applied

WorkWasDelivered == \A w \in Workers : pc[w] # "idle" => work[w].delivery \in 1 .. deliveries[work[w].job]

WorkIsDistinct == \A v, w \in Workers : pc[v] # "idle" /\ work[v] = work[w] => v = w

\* What a phase of the program rests on was done in an earlier one.
PhasesAreEarned ==
    \A w \in Workers :
        /\ pc[w] \in {"check", "publish"} => Done(w)
        /\ pc[w] = "receipt" => Event(w, "completed") \in events
        /\ pc[w] \in {"acknowledge", "settle"} => receipt[work[w].job] # 0
        /\ pc[w] = "bury" => Reported(work[w].job, "failed")

\* A plan is not saved again once it was reported.
EarlyIsUnpublished ==
    \A w \in Workers : pc[w] \in Early /\ work[w].job = "plan" => Event(w, "completed") \notin events

DeliveriesAreLeft ==
    /\ \A j \in Jobs : message[j] = "queued" => deliveries[j] < MaxDeliveries
    /\ message["apply"] = "absent" => deliveries["apply"] = 0

EventsWereDelivered == \A e \in events : e.status = "completed" => e.made \in 1 .. deliveries[e.job]

SavedIsOld == \A d \in Deliveries : saved[d] # NotSaved => saved[d] <= serial

ApprovedIsFixed ==
    IF approved = NoPlan THEN serial = 0
    ELSE /\ [job |-> "plan", status |-> "completed", made |-> approved] \in events
         /\ approved \in Deliveries
         /\ saved[approved] = 0

Safe ==
    /\ WorkWasDelivered /\ WorkIsDistinct /\ PhasesAreEarned /\ EarlyIsUnpublished
    /\ DeliveriesAreLeft /\ EventsWereDelivered
    /\ SavedIsOld /\ ApprovedIsFixed
    /\ CompletionIsReal /\ SettledIsReported /\ AppliedAtMostOnce

IInv == TypeOK /\ Safe

-----------------------------------------------------------------------------
(* Types. *)

LEMMA TypeInit == Init => TypeOK
<1> SUFFICES ASSUME Init PROVE TypeOK
  OBVIOUS
<1>1. /\ message \in [Jobs -> MessageStates]
      /\ holder \in [Jobs -> Workers \cup {Nobody}]
      /\ \A j \in Jobs : message[j] = "locked" <=> holder[j] # Nobody
      /\ message["apply"] = "absent" <=> approved = NoPlan
  BY DEF Init, MessageStates, NoPlan
<1>2. /\ deliveries \in [Jobs -> 0 .. MaxDeliveries]
      /\ receipt \in [Jobs -> 0 .. MaxDeliveries]
      /\ saved \in [Deliveries -> Nat \cup {NotSaved}]
      /\ approved \in 0 .. MaxDeliveries /\ faults \in 0 .. MaxFaults
  BY DeliveriesAssumption, FaultsAssumption DEF Init, NoPlan
<1>3. /\ pc \in [Workers -> Phases]
      /\ work \in [Workers -> [job : Jobs, delivery : 0 .. MaxDeliveries]]
      /\ \A w \in Workers : pc[w] = "idle" <=> work[w] = NoWork
      /\ reason \in [Workers -> Failures \cup {"none"}]
      /\ renewalError \in [Workers -> BOOLEAN]
  BY DeliveriesAssumption DEF Init, NoWork, Phases
<1>4. /\ lease \in Workers \cup {Nobody} /\ stateLock \in Workers \cup {Nobody}
      /\ serial \in Nat /\ applied \in BOOLEAN /\ claimed \in BOOLEAN /\ expired \in BOOLEAN
      /\ events \subseteq [job : Jobs, status : {"completed", "failed"}, made : 0 .. MaxDeliveries]
  BY DEF Init
<1> QED
  BY <1>1, <1>2, <1>3, <1>4 DEF TypeOK

\* What Return and Settle do to a locked message.
LEMMA ReturnTypes ==
    ASSUME TypeOK, NEW j \in Jobs, message[j] = "locked", Return(j)
    PROVE  /\ message' \in [Jobs -> MessageStates]
           /\ holder' \in [Jobs -> Workers \cup {Nobody}]
           /\ \A i \in Jobs : message'[i] = "locked" <=> holder'[i] # Nobody
           /\ message'["apply"] = "absent" <=> message["apply"] = "absent"
BY DEF TypeOK, Return, MessageStates

LEMMA SettleTypes ==
    ASSUME TypeOK, NEW j \in Jobs, message[j] = "locked", NEW outcome \in {"completed", "dead"}, Settle(j, outcome)
    PROVE  /\ message' \in [Jobs -> MessageStates]
           /\ holder' \in [Jobs -> Workers \cup {Nobody}]
           /\ \A i \in Jobs : message'[i] = "locked" <=> holder'[i] # Nobody
           /\ message'["apply"] = "absent" <=> message["apply"] = "absent"
BY DEF TypeOK, Settle, MessageStates
\* What a step of a busy worker does to its place in the program and to its work.
Moves(w) ==
    /\ pc[w] # "idle"
    /\ pc'[w] \in Phases
    /\ pc' = [pc EXCEPT ![w] = pc'[w]]
    /\ work' = [work EXCEPT ![w] = IF pc'[w] = "idle" THEN NoWork ELSE work[w]]

LEMMA GotoMoves ==
    ASSUME TypeOK, NEW w \in Workers, NEW phase \in Phases \ {"idle"}, pc[w] # "idle", Goto(w, phase), UNCHANGED work
    PROVE  Moves(w)
BY DEF TypeOK, Goto, Moves

LEMMA FinishMoves ==
    ASSUME TypeOK, NEW w \in Workers, pc[w] # "idle", Finish(w)
    PROVE  Moves(w)
BY DEF TypeOK, Goto, Finish, Moves, Phases

\* The steps of a worker that has a job in hand.
Acts(w) ==
    \/ Acknowledge(w) \/ Refuse(w) \/ EnterLease(w) \/ ClaimApproval(w) \/ FailEarly(w) \/ StartTool(w)
    \/ MakePlan(w) \/ ApplyPlan(w) \/ FailTool(w) \/ CheckLease(w) \/ Publish(w) \/ MarkCompleted(w)
    \/ CompleteMessage(w) \/ LeaveLease(w) \/ Report(w) \/ Bury(w) \/ Abandon(w) \/ Crash(w)

LEMMA WorkStep ==
    TypeOK /\ [Next]_vars => \/ UNCHANGED <<pc, work>>
                             \/ \E w \in Workers : Moves(w) /\ Acts(w)
                             \/ \E w \in Workers, j \in Jobs : Receive(w, j)
<1> SUFFICES ASSUME TypeOK, [Next]_vars
             PROVE  \/ UNCHANGED <<pc, work>>
                    \/ \E w \in Workers : Moves(w) /\ Acts(w)
                    \/ \E w \in Workers, j \in Jobs : Receive(w, j)
  OBVIOUS
<1>1. CASE \/ ApproveApply \/ ExpireApproval \/ ExpireLease \/ UNCHANGED vars
           \/ \E j \in Jobs : LoseLock(j)
           \/ \E w \in Workers : RenewalFails(w)
  BY <1>1 DEF ApproveApply, ExpireApproval, ExpireLease, LoseLock, RenewalFails, vars, workVars
<1>2. ASSUME NEW w \in Workers, \/ Refuse(w) \/ EnterLease(w) \/ ClaimApproval(w) \/ FailEarly(w) \/ StartTool(w) \/ MakePlan(w)
      PROVE  Moves(w)
  BY <1>2, GotoMoves DEF Refuse, EnterLease, ClaimApproval, FailEarly, StartTool, MakePlan, Leave, Handler, Phases, Leased, Handling
<1>3. ASSUME NEW w \in Workers, \/ ApplyPlan(w) \/ FailTool(w) \/ CheckLease(w) \/ Publish(w) \/ MarkCompleted(w) \/ CompleteMessage(w)
      PROVE  Moves(w)
  BY <1>3, GotoMoves DEF ApplyPlan, FailTool, CheckLease, Publish, MarkCompleted, CompleteMessage, Leave, Phases, Leased, Handling
<1>4. ASSUME NEW w \in Workers, Acknowledge(w) \/ Report(w) \/ Bury(w) \/ Abandon(w) \/ Crash(w) PROVE Moves(w)
  BY <1>4, GotoMoves, FinishMoves DEF Acknowledge, Report, Bury, Abandon, Crash, Phases, Handling
<1>5. ASSUME NEW w \in Workers, LeaveLease(w) PROVE Moves(w)
  BY <1>5, GotoMoves, FinishMoves DEF LeaveLease, Handler, Phases, Handling
<1> QED
  BY <1>1, <1>2, <1>3, <1>4, <1>5 DEF Next, WorkerStep, Acts

\* What a step does to the messages.
LEMMA BusStep ==
    TypeOK /\ [Next]_vars => \/ UNCHANGED <<message, holder, deliveries, approved>>
                             \/ ApproveApply
                             \/ \E w \in Workers, j \in Jobs : Receive(w, j)
                             \/ /\ UNCHANGED <<deliveries, approved>>
                                /\ \E j \in Jobs : /\ message[j] = "locked"
                                                   /\ Return(j) \/ Settle(j, "completed") \/ Settle(j, "dead")
<1> SUFFICES ASSUME TypeOK, [Next]_vars
             PROVE  \/ UNCHANGED <<message, holder, deliveries, approved>>
                    \/ ApproveApply
                    \/ \E w \in Workers, j \in Jobs : Receive(w, j)
                    \/ /\ UNCHANGED <<deliveries, approved>>
                       /\ \E j \in Jobs : /\ message[j] = "locked"
                                          /\ Return(j) \/ Settle(j, "completed") \/ Settle(j, "dead")
  OBVIOUS
<1>1. CASE \/ ExpireApproval \/ ExpireLease \/ UNCHANGED vars \/ \E w \in Workers : RenewalFails(w) \/ Crash(w)
  BY <1>1 DEF ExpireApproval, ExpireLease, RenewalFails, Crash, vars, busVars, askVars
<1>2. CASE \E w \in Workers : \/ Refuse(w) \/ EnterLease(w) \/ ClaimApproval(w) \/ FailEarly(w) \/ StartTool(w) \/ MakePlan(w)
  BY <1>2 DEF Refuse, EnterLease, ClaimApproval, FailEarly, StartTool, MakePlan, busVars, askVars
<1>3. CASE \E w \in Workers : \/ ApplyPlan(w) \/ FailTool(w) \/ CheckLease(w) \/ Publish(w) \/ MarkCompleted(w) \/ LeaveLease(w) \/ Report(w)
  BY <1>3 DEF ApplyPlan, FailTool, CheckLease, Publish, MarkCompleted, LeaveLease, Report, busVars, askVars
<1>4. ASSUME NEW j \in Jobs, LoseLock(j)
      PROVE  UNCHANGED <<deliveries, approved>> /\ message[j] = "locked" /\ Return(j)
  BY <1>4 DEF LoseLock, askVars
<1>5. ASSUME NEW w \in Workers, Acknowledge(w) \/ CompleteMessage(w) \/ Bury(w) \/ Abandon(w)
      PROVE  \/ UNCHANGED <<message, holder, deliveries, approved>>
             \/ /\ UNCHANGED <<deliveries, approved>>
                /\ work[w].job \in Jobs
                /\ message[work[w].job] = "locked"
                /\ Return(work[w].job) \/ Settle(work[w].job, "completed") \/ Settle(work[w].job, "dead")
  <2>1. work[w].job \in Jobs
    BY DEF TypeOK
  <2> QED
    BY <1>5, <2>1 DEF Acknowledge, CompleteMessage, Bury, Abandon, Holds, askVars
<1> QED
  BY <1>1, <1>2, <1>3, <1>4, <1>5 DEF Next, WorkerStep


\* A worker's job, and the delivery it received it with, stay what they are.
LEMMA WorkTypes ==
    ASSUME TypeOK, [Next]_vars, \A j \in Jobs : deliveries'[j] \in 0 .. MaxDeliveries
    PROVE  /\ pc' \in [Workers -> Phases]
           /\ work' \in [Workers -> [job : Jobs, delivery : 0 .. MaxDeliveries]]
           /\ \A w \in Workers : pc'[w] = "idle" <=> work'[w] = NoWork
<1>1. CASE UNCHANGED <<pc, work>>
  BY <1>1 DEF TypeOK
<1>2. ASSUME NEW w \in Workers, Moves(w)
      PROVE  /\ pc' \in [Workers -> Phases]
             /\ work' \in [Workers -> [job : Jobs, delivery : 0 .. MaxDeliveries]]
             /\ \A v \in Workers : pc'[v] = "idle" <=> work'[v] = NoWork
  <2>1. NoWork \in [job : Jobs, delivery : 0 .. MaxDeliveries]
    BY DeliveriesAssumption DEF NoWork
  <2>2. /\ pc' \in [Workers -> Phases]
        /\ work' \in [Workers -> [job : Jobs, delivery : 0 .. MaxDeliveries]]
    BY <1>2, <2>1 DEF Moves, TypeOK
  <2>3. ASSUME NEW v \in Workers PROVE pc'[v] = "idle" <=> work'[v] = NoWork
    BY <1>2 DEF Moves, TypeOK
  <2> QED
    BY <2>2, <2>3
<1>3. ASSUME NEW w \in Workers, NEW j \in Jobs, Receive(w, j)
      PROVE  /\ pc' \in [Workers -> Phases]
             /\ work' \in [Workers -> [job : Jobs, delivery : 0 .. MaxDeliveries]]
             /\ \A v \in Workers : pc'[v] = "idle" <=> work'[v] = NoWork
  <2> DEFINE d == deliveries[j] + 1
  <2>1. deliveries[j] \in Nat /\ deliveries'[j] = d
    BY <1>3 DEF Receive, TypeOK
  <2>2. d \in 0 .. MaxDeliveries /\ d # 0
    BY <2>1
  <2>3. work' = [work EXCEPT ![w] = [job |-> j, delivery |-> d]]
    BY <1>3 DEF Receive
  <2>4. pc'[w] \in {"acknowledge", "protect"} /\ pc' = [pc EXCEPT ![w] = pc'[w]]
    BY <1>3 DEF Receive, Goto, TypeOK
  <2> HIDE DEF d
  <2>5. pc' \in [Workers -> Phases]
    BY <2>4 DEF TypeOK, Phases
  <2>6. work' \in [Workers -> [job : Jobs, delivery : 0 .. MaxDeliveries]]
    BY <2>2, <2>3 DEF TypeOK
  <2>7. [job |-> j, delivery |-> d] # NoWork
    BY <2>2 DEF NoWork
  <2>8. ASSUME NEW v \in Workers PROVE pc'[v] = "idle" <=> work'[v] = NoWork
    BY <2>3, <2>4, <2>7 DEF TypeOK
  <2> QED
    BY <2>5, <2>6, <2>8
<1> QED
  BY <1>1, <1>2, <1>3, WorkStep

LEMMA BusTypes ==
    ASSUME IInv, [Next]_vars
    PROVE  /\ message' \in [Jobs -> MessageStates]
           /\ holder' \in [Jobs -> Workers \cup {Nobody}]
           /\ \A j \in Jobs : message'[j] = "locked" <=> holder'[j] # Nobody
           /\ deliveries' \in [Jobs -> 0 .. MaxDeliveries]
           /\ approved' \in 0 .. MaxDeliveries
           /\ message'["apply"] = "absent" <=> approved' = NoPlan
<1> USE DEF IInv
<1>1. CASE UNCHANGED <<message, holder, deliveries, approved>>
  BY <1>1 DEF TypeOK
<1>2. CASE ApproveApply
  <2>1. approved' \in 1 .. MaxDeliveries
    <3>1. PICK e \in events : e.job = "plan" /\ e.status = "completed" /\ approved' = e.made
      BY <1>2 DEF ApproveApply
    <3>2. e.made \in 0 .. MaxDeliveries /\ e.made \in 1 .. deliveries[e.job] /\ deliveries[e.job] \in Nat
      BY <3>1 DEF TypeOK, Safe, EventsWereDelivered
    <3> QED
      BY <3>1, <3>2, DeliveriesAssumption
  <2> QED
    BY <1>2, <2>1 DEF ApproveApply, TypeOK, MessageStates, NoPlan
<1>3. ASSUME NEW w \in Workers, NEW j \in Jobs, Receive(w, j)
      PROVE  /\ message' \in [Jobs -> MessageStates]
             /\ holder' \in [Jobs -> Workers \cup {Nobody}]
             /\ \A i \in Jobs : message'[i] = "locked" <=> holder'[i] # Nobody
             /\ deliveries' \in [Jobs -> 0 .. MaxDeliveries]
             /\ approved' = approved
             /\ message'["apply"] = "absent" <=> message["apply"] = "absent"
  <2>1. deliveries[j] + 1 \in 0 .. MaxDeliveries
    BY <1>3, DeliveriesAssumption DEF Receive, TypeOK, Safe, DeliveriesAreLeft
  <2> QED
    BY <1>3, <2>1, NobodyAssumption DEF Receive, TypeOK, MessageStates, askVars
<1>4. ASSUME UNCHANGED <<deliveries, approved>>, NEW j \in Jobs, message[j] = "locked",
             Return(j) \/ Settle(j, "completed") \/ Settle(j, "dead")
      PROVE  /\ message' \in [Jobs -> MessageStates]
             /\ holder' \in [Jobs -> Workers \cup {Nobody}]
             /\ \A i \in Jobs : message'[i] = "locked" <=> holder'[i] # Nobody
             /\ message'["apply"] = "absent" <=> message["apply"] = "absent"
  BY <1>4, ReturnTypes, SettleTypes
<1> QED
  BY <1>1, <1>2, <1>3, <1>4, BusStep DEF TypeOK

LEMMA StateTypes ==
    ASSUME TypeOK, [Next]_vars
    PROVE  /\ lease' \in Workers \cup {Nobody} /\ stateLock' \in Workers \cup {Nobody}
           /\ serial' \in Nat /\ applied' \in BOOLEAN
           /\ saved' \in [Deliveries -> Nat \cup {NotSaved}]
<1> USE DEF TypeOK
<1>1. CASE \/ ApproveApply \/ ExpireApproval \/ UNCHANGED vars \/ \E j \in Jobs : LoseLock(j)
           \/ \E w \in Workers : RenewalFails(w)
  BY <1>1 DEF ApproveApply, ExpireApproval, LoseLock, RenewalFails, vars, stateVars
<1>2. CASE ExpireLease
  BY <1>2 DEF ExpireLease
<1>3. ASSUME NEW w \in Workers,
             \/ \E j \in Jobs : Receive(w, j)
             \/ Acknowledge(w) \/ ClaimApproval(w) \/ FailEarly(w) \/ CheckLease(w) \/ Publish(w)
             \/ MarkCompleted(w) \/ CompleteMessage(w) \/ Report(w) \/ Bury(w) \/ Abandon(w)
      PROVE  UNCHANGED stateVars
  BY <1>3 DEF Receive, Acknowledge, ClaimApproval, FailEarly, CheckLease, Publish, MarkCompleted, CompleteMessage,
              Report, Bury, Abandon
<1>4. ASSUME NEW w \in Workers, Refuse(w) \/ EnterLease(w) \/ StartTool(w) \/ LeaveLease(w)
      PROVE  /\ lease' \in Workers \cup {Nobody} /\ stateLock' \in Workers \cup {Nobody}
             /\ UNCHANGED <<serial, applied, saved>>
  <2>1. CASE Refuse(w) \/ EnterLease(w) \/ StartTool(w)
    BY <2>1 DEF Refuse, EnterLease, StartTool
  <2>2. CASE LeaveLease(w)
    <3>1. lease' \in {lease, Nobody} /\ UNCHANGED <<stateLock, serial, applied, saved>>
      BY <2>2 DEF LeaveLease
    <3> QED
      BY <3>1
  <2> QED
    BY <1>4, <2>1, <2>2
<1>5. ASSUME NEW w \in Workers, MakePlan(w)
      PROVE  /\ UNCHANGED <<lease, serial, applied>> /\ stateLock' = Nobody
             /\ saved' \in [Deliveries -> Nat \cup {NotSaved}]
  BY <1>5 DEF MakePlan
<1>6. ASSUME NEW w \in Workers, ApplyPlan(w) \/ FailTool(w) \/ Crash(w)
      PROVE  /\ UNCHANGED <<lease, saved>> /\ stateLock' \in Workers \cup {Nobody}
             /\ serial' \in Nat /\ applied' \in BOOLEAN
  <2>1. LeaveTraces(w) => serial' \in {serial, serial + 1} /\ applied' \in {applied, TRUE}
    BY DEF LeaveTraces
  <2>2. UNCHANGED <<lease, saved>> /\ stateLock' \in {stateLock, Nobody, w}
    BY <1>6 DEF ApplyPlan, FailTool, Crash
  <2>3. serial' \in {serial, serial + 1} /\ applied' \in {applied, TRUE}
    BY <1>6, <2>1 DEF ApplyPlan, FailTool, Crash
  <2>4. serial \in Nat /\ applied \in BOOLEAN /\ stateLock \in Workers \cup {Nobody}
    OBVIOUS
  <2>5. serial' \in Nat
    BY <2>3, <2>4
  <2>6. applied' \in BOOLEAN
    BY <2>3, <2>4, Zenon
  <2>7. stateLock' \in Workers \cup {Nobody}
    BY <2>2, <2>4
  <2> QED
    BY <2>2, <2>5, <2>6, <2>7
<1> QED
  BY <1>1, <1>2, <1>3, <1>4, <1>5, <1>6 DEF Next, WorkerStep, stateVars

LEMMA ReportTypes ==
    ASSUME TypeOK, [Next]_vars
    PROVE  /\ receipt' \in [Jobs -> 0 .. MaxDeliveries] /\ claimed' \in BOOLEAN /\ expired' \in BOOLEAN
           /\ events' \subseteq [job : Jobs, status : {"completed", "failed"}, made : 0 .. MaxDeliveries]
<1> USE DEF TypeOK
<1>1. CASE \/ ApproveApply \/ ExpireApproval \/ ExpireLease \/ UNCHANGED vars \/ \E j \in Jobs : LoseLock(j)
           \/ \E w \in Workers : RenewalFails(w)
  BY <1>1 DEF ApproveApply, ExpireApproval, ExpireLease, LoseLock, RenewalFails, vars, blobVars, askVars
<1>2. ASSUME NEW w \in Workers,
             \/ \E j \in Jobs : Receive(w, j)
             \/ Acknowledge(w) \/ Refuse(w) \/ EnterLease(w) \/ FailEarly(w) \/ StartTool(w) \/ MakePlan(w)
             \/ ApplyPlan(w) \/ FailTool(w) \/ CheckLease(w)
      PROVE  UNCHANGED <<blobVars, expired, events>>
  BY <1>2 DEF Receive, Acknowledge, Refuse, EnterLease, FailEarly, StartTool, MakePlan, ApplyPlan, FailTool, CheckLease,
              askVars
<1>3. ASSUME NEW w \in Workers, CompleteMessage(w) \/ LeaveLease(w) \/ Bury(w) \/ Abandon(w) \/ Crash(w)
      PROVE  UNCHANGED <<blobVars, expired, events>>
  BY <1>3 DEF CompleteMessage, LeaveLease, Bury, Abandon, Crash, askVars
<1>4. ASSUME NEW w \in Workers, ClaimApproval(w)
      PROVE  claimed' \in BOOLEAN /\ UNCHANGED <<receipt, expired, events>>
  BY <1>4 DEF ClaimApproval, askVars
<1>5. ASSUME NEW w \in Workers, Publish(w) \/ Report(w)
      PROVE  /\ UNCHANGED <<blobVars, expired>>
             /\ events' \subseteq [job : Jobs, status : {"completed", "failed"}, made : 0 .. MaxDeliveries]
  <2>1. work[w].job \in Jobs /\ work[w].delivery \in 0 .. MaxDeliveries /\ 0 \in 0 .. MaxDeliveries
    BY DeliveriesAssumption
  <2>2. ASSUME NEW s \in {"completed", "failed"}
        PROVE  Event(w, s) \in [job : Jobs, status : {"completed", "failed"}, made : 0 .. MaxDeliveries]
    BY <2>1 DEF Event
  <2>3. /\ UNCHANGED <<blobVars, expired>>
        /\ events' \subseteq events \cup {Event(w, "completed"), Event(w, "failed")}
    BY <1>5 DEF Publish, Report, askVars
  <2> QED
    BY <2>2, <2>3
<1>6. ASSUME NEW w \in Workers, MarkCompleted(w)
      PROVE  receipt' \in [Jobs -> 0 .. MaxDeliveries] /\ UNCHANGED <<claimed, expired, events>>
  BY <1>6 DEF MarkCompleted, askVars
<1> QED
  BY <1>1, <1>2, <1>3, <1>4, <1>5, <1>6 DEF Next, WorkerStep, blobVars

LEMMA FlagTypes ==
    ASSUME TypeOK, [Next]_vars
    PROVE  /\ reason' \in [Workers -> Failures \cup {"none"}] /\ renewalError' \in [Workers -> BOOLEAN]
           /\ faults' \in 0 .. MaxFaults
<1> USE DEF TypeOK
<1>1. CASE ApproveApply \/ ExpireApproval \/ UNCHANGED vars
  BY <1>1 DEF ApproveApply, ExpireApproval, vars, workVars
<1>2. CASE ExpireLease \/ \E j \in Jobs : LoseLock(j)
  BY <1>2, FaultsAssumption DEF ExpireLease, LoseLock, workVars
<1>3. ASSUME NEW w \in Workers,
             \/ \E j \in Jobs : Receive(w, j)
             \/ Acknowledge(w) \/ Refuse(w) \/ EnterLease(w) \/ StartTool(w) \/ MakePlan(w)
             \/ ApplyPlan(w) \/ Report(w) \/ Bury(w) \/ Abandon(w)
      PROVE  UNCHANGED <<reason, renewalError, faults>>
  BY <1>3 DEF Receive, Acknowledge, Refuse, EnterLease, StartTool, MakePlan, ApplyPlan, Report, Bury, Abandon
<1>4. ASSUME NEW w \in Workers,
             \/ ClaimApproval(w) \/ FailEarly(w) \/ FailTool(w) \/ CheckLease(w) \/ Publish(w) \/ MarkCompleted(w)
             \/ CompleteMessage(w)
      PROVE  reason' \in [Workers -> Failures \cup {"none"}] /\ UNCHANGED <<renewalError, faults>>
  BY <1>4 DEF ClaimApproval, FailEarly, FailTool, CheckLease, Publish, MarkCompleted, CompleteMessage, Leave, Failures
<1>5. ASSUME NEW w \in Workers, LeaveLease(w)
      PROVE  /\ reason' \in [Workers -> Failures \cup {"none"}] /\ renewalError' \in [Workers -> BOOLEAN]
             /\ UNCHANGED faults
  BY <1>5 DEF LeaveLease
<1>6. ASSUME NEW w \in Workers, RenewalFails(w) \/ Crash(w)
      PROVE  /\ reason' \in [Workers -> Failures \cup {"none"}] /\ renewalError' \in [Workers -> BOOLEAN]
             /\ faults' \in 0 .. MaxFaults
  <2>1. faults < MaxFaults /\ faults' = faults + 1
    BY <1>6 DEF RenewalFails, Crash
  <2>2. faults' \in 0 .. MaxFaults
    BY <2>1, FaultsAssumption
  <2>3. \/ UNCHANGED reason /\ renewalError' = [renewalError EXCEPT ![w] = TRUE]
        \/ reason' = [reason EXCEPT ![w] = "none"] /\ renewalError' = [renewalError EXCEPT ![w] = FALSE]
    BY <1>6 DEF RenewalFails, Crash
  <2> QED
    BY <2>2, <2>3
<1> QED
  BY <1>1, <1>2, <1>3, <1>4, <1>5, <1>6 DEF Next, WorkerStep

LEMMA TypeStep == IInv /\ [Next]_vars => TypeOK'
<1> SUFFICES ASSUME IInv, [Next]_vars PROVE TypeOK'
  OBVIOUS
<1>1. TypeOK /\ \A j \in Jobs : deliveries'[j] \in 0 .. MaxDeliveries
  BY BusTypes DEF IInv
<1> QED
  BY <1>1, BusTypes, WorkTypes, StateTypes, ReportTypes, FlagTypes DEF TypeOK

-----------------------------------------------------------------------------
(* What a step does, by the part of the state it is about. *)

\* The state of the cloud changes at the hands of a tool: a plan is saved, or an
\* approved plan that is still fresh is applied in whole or in part.
LEMMA StateStep ==
    TypeOK /\ [Next]_vars => \/ UNCHANGED <<serial, applied, saved>>
                             \/ \E w \in Workers : MakePlan(w)
                             \/ /\ UNCHANGED saved
                                /\ serial' = serial + 1
                                /\ applied' \in {applied, TRUE}
                                /\ Fresh
                                /\ \E w \in Workers : pc[w] = "tool" /\ work[w].job = "apply"
<1> SUFFICES ASSUME TypeOK, [Next]_vars
             PROVE  \/ UNCHANGED <<serial, applied, saved>>
                    \/ \E w \in Workers : MakePlan(w)
                    \/ /\ UNCHANGED saved
                       /\ serial' = serial + 1
                       /\ applied' \in {applied, TRUE}
                       /\ Fresh
                       /\ \E w \in Workers : pc[w] = "tool" /\ work[w].job = "apply"
  OBVIOUS
<1>1. CASE \/ ApproveApply \/ ExpireApproval \/ ExpireLease \/ UNCHANGED vars \/ \E j \in Jobs : LoseLock(j)
           \/ \E w \in Workers : RenewalFails(w)
  BY <1>1 DEF ApproveApply, ExpireApproval, ExpireLease, LoseLock, RenewalFails, vars, stateVars
<1>2. ASSUME NEW w \in Workers,
             \/ \E j \in Jobs : Receive(w, j)
             \/ Acknowledge(w) \/ ClaimApproval(w) \/ FailEarly(w) \/ CheckLease(w) \/ Publish(w)
             \/ MarkCompleted(w) \/ CompleteMessage(w) \/ Report(w) \/ Bury(w) \/ Abandon(w)
      PROVE  UNCHANGED <<serial, applied, saved>>
  BY <1>2 DEF Receive, Acknowledge, ClaimApproval, FailEarly, CheckLease, Publish, MarkCompleted, CompleteMessage,
              Report, Bury, Abandon, stateVars
<1>3. ASSUME NEW w \in Workers, Refuse(w) \/ EnterLease(w) \/ StartTool(w) \/ LeaveLease(w)
      PROVE  UNCHANGED <<serial, applied, saved>>
  BY <1>3 DEF Refuse, EnterLease, StartTool, LeaveLease
<1>4. ASSUME NEW w \in Workers, ApplyPlan(w) \/ FailTool(w) \/ Crash(w)
      PROVE  \/ UNCHANGED <<serial, applied, saved>>
             \/ /\ UNCHANGED saved
                /\ serial' = serial + 1
                /\ applied' \in {applied, TRUE}
                /\ Fresh
                /\ pc[w] = "tool" /\ work[w].job = "apply"
  BY <1>4 DEF ApplyPlan, FailTool, Crash, LeaveTraces
<1> QED
  BY <1>1, <1>2, <1>3, <1>4 DEF Next, WorkerStep

\* Events are sent by the worker that has a result, or a failure, to report.
LEMMA EventStep ==
    TypeOK /\ [Next]_vars =>
        \/ UNCHANGED events
        \/ \E w \in Workers : /\ pc[w] = "publish" /\ pc'[w] \in {"receipt", "leave"}
                              /\ events' = events \cup {Event(w, "completed")}
        \/ \E w \in Workers : pc[w] = "report" /\ events' = events \cup {Event(w, "failed")}
<1> SUFFICES ASSUME TypeOK, [Next]_vars
             PROVE  \/ UNCHANGED events
                    \/ \E w \in Workers : /\ pc[w] = "publish" /\ pc'[w] \in {"receipt", "leave"}
                                          /\ events' = events \cup {Event(w, "completed")}
                    \/ \E w \in Workers : pc[w] = "report" /\ events' = events \cup {Event(w, "failed")}
  OBVIOUS
<1>1. CASE \/ ApproveApply \/ ExpireApproval \/ ExpireLease \/ UNCHANGED vars \/ \E j \in Jobs : LoseLock(j)
           \/ \E w \in Workers : RenewalFails(w)
  BY <1>1 DEF ApproveApply, ExpireApproval, ExpireLease, LoseLock, RenewalFails, vars
<1>2. ASSUME NEW w \in Workers,
             \/ \E j \in Jobs : Receive(w, j)
             \/ Acknowledge(w) \/ Refuse(w) \/ EnterLease(w) \/ FailEarly(w) \/ StartTool(w) \/ MakePlan(w)
             \/ ApplyPlan(w) \/ FailTool(w) \/ CheckLease(w) \/ ClaimApproval(w)
      PROVE  UNCHANGED events
  BY <1>2 DEF Receive, Acknowledge, Refuse, EnterLease, FailEarly, StartTool, MakePlan, ApplyPlan, FailTool, CheckLease,
              ClaimApproval
<1>3. ASSUME NEW w \in Workers, CompleteMessage(w) \/ LeaveLease(w) \/ Bury(w) \/ Abandon(w) \/ Crash(w) \/ MarkCompleted(w)
      PROVE  UNCHANGED events
  BY <1>3 DEF CompleteMessage, LeaveLease, Bury, Abandon, Crash, MarkCompleted
<1>4. ASSUME NEW w \in Workers, Publish(w)
      PROVE  \/ UNCHANGED events
             \/ /\ pc[w] = "publish" /\ pc'[w] \in {"receipt", "leave"}
                /\ events' = events \cup {Event(w, "completed")}
  BY <1>4 DEF Publish, Goto, Leave, TypeOK
<1>5. ASSUME NEW w \in Workers, Report(w)
      PROVE  \/ UNCHANGED events
             \/ pc[w] = "report" /\ events' = events \cup {Event(w, "failed")}
  BY <1>5 DEF Report
<1> QED
  BY <1>1, <1>2, <1>3, <1>4, <1>5 DEF Next, WorkerStep

\* A receipt is written by the worker that published the result, and stays.
LEMMA ReceiptStep ==
    TypeOK /\ [Next]_vars =>
        \/ UNCHANGED receipt
        \/ \E w \in Workers : /\ pc[w] = "receipt"
                              /\ receipt' = [receipt EXCEPT ![work[w].job] = IF @ = 0 THEN work[w].delivery ELSE @]
<1> SUFFICES ASSUME TypeOK, [Next]_vars
             PROVE  \/ UNCHANGED receipt
                    \/ \E w \in Workers :
                          /\ pc[w] = "receipt"
                          /\ receipt' = [receipt EXCEPT ![work[w].job] = IF @ = 0 THEN work[w].delivery ELSE @]
  OBVIOUS
<1>1. CASE \/ ApproveApply \/ ExpireApproval \/ ExpireLease \/ UNCHANGED vars \/ \E j \in Jobs : LoseLock(j)
           \/ \E w \in Workers : RenewalFails(w)
  BY <1>1 DEF ApproveApply, ExpireApproval, ExpireLease, LoseLock, RenewalFails, vars, blobVars
<1>2. ASSUME NEW w \in Workers,
             \/ \E j \in Jobs : Receive(w, j)
             \/ Acknowledge(w) \/ Refuse(w) \/ EnterLease(w) \/ FailEarly(w) \/ StartTool(w) \/ MakePlan(w)
             \/ ApplyPlan(w) \/ FailTool(w) \/ CheckLease(w) \/ ClaimApproval(w)
      PROVE  UNCHANGED receipt
  BY <1>2 DEF Receive, Acknowledge, Refuse, EnterLease, FailEarly, StartTool, MakePlan, ApplyPlan, FailTool, CheckLease,
              ClaimApproval, blobVars
<1>3. ASSUME NEW w \in Workers,
             \/ CompleteMessage(w) \/ LeaveLease(w) \/ Bury(w) \/ Abandon(w) \/ Crash(w) \/ Publish(w) \/ Report(w)
      PROVE  UNCHANGED receipt
  BY <1>3 DEF CompleteMessage, LeaveLease, Bury, Abandon, Crash, Publish, Report, blobVars
<1>4. ASSUME NEW w \in Workers, MarkCompleted(w)
      PROVE  \/ UNCHANGED receipt
             \/ /\ pc[w] = "receipt"
                /\ receipt' = [receipt EXCEPT ![work[w].job] = IF @ = 0 THEN work[w].delivery ELSE @]
  BY <1>4 DEF MarkCompleted
<1> QED
  BY <1>1, <1>2, <1>3, <1>4 DEF Next, WorkerStep

\* Only a worker that saw a receipt completes a message, only one that reported a
\* failure dead-letters it.
LEMMA SettleStep ==
    ASSUME TypeOK, [Next]_vars, NEW j \in Jobs
    PROVE  /\ message'[j] = "completed" =>
                 \/ message[j] = "completed"
                 \/ \E w \in Workers : pc[w] \in {"acknowledge", "settle"} /\ work[w].job = j
           /\ message'[j] = "dead" => \/ message[j] = "dead"
                                      \/ \E w \in Workers : pc[w] = "bury" /\ work[w].job = j
<1> DEFINE Good ==
           /\ message'[j] = "completed" =>
                 \/ message[j] = "completed"
                 \/ \E w \in Workers : pc[w] \in {"acknowledge", "settle"} /\ work[w].job = j
           /\ message'[j] = "dead" => \/ message[j] = "dead"
                                      \/ \E w \in Workers : pc[w] = "bury" /\ work[w].job = j
<1>0. j \in DOMAIN message
  BY DEF TypeOK
<1>1. CASE UNCHANGED message
  BY <1>1
<1>2. CASE \/ ApproveApply \/ ExpireApproval \/ ExpireLease \/ UNCHANGED vars
           \/ \E w \in Workers : RenewalFails(w) \/ Crash(w)
  BY <1>0, <1>2 DEF ApproveApply, ExpireApproval, ExpireLease, RenewalFails, Crash, vars, busVars
<1>3. ASSUME NEW i \in Jobs, Return(i) PROVE Good
  BY <1>0, <1>3 DEF Return
<1>4. CASE \E i \in Jobs : LoseLock(i)
  BY <1>3, <1>4 DEF LoseLock
<1>5. ASSUME NEW w \in Workers,
             \/ Refuse(w) \/ EnterLease(w) \/ ClaimApproval(w) \/ FailEarly(w) \/ StartTool(w) \/ MakePlan(w)
             \/ ApplyPlan(w) \/ FailTool(w) \/ CheckLease(w) \/ Publish(w) \/ MarkCompleted(w) \/ LeaveLease(w) \/ Report(w)
      PROVE  UNCHANGED message
  BY <1>5 DEF Refuse, EnterLease, ClaimApproval, FailEarly, StartTool, MakePlan, ApplyPlan, FailTool, CheckLease, Publish,
              MarkCompleted, LeaveLease, Report, busVars
<1>6. ASSUME NEW w \in Workers, \E i \in Jobs : Receive(w, i) PROVE Good
  BY <1>0, <1>6 DEF Receive
<1>7. ASSUME NEW w \in Workers, Acknowledge(w) \/ CompleteMessage(w) PROVE Good
  BY <1>0, <1>7 DEF Acknowledge, CompleteMessage, Settle
<1>8. ASSUME NEW w \in Workers, Bury(w) PROVE Good
  BY <1>0, <1>8 DEF Bury, Settle
<1>9. ASSUME NEW w \in Workers, Abandon(w) PROVE Good
  <2>1. work[w].job \in Jobs
    BY DEF TypeOK
  <2> QED
    BY <1>1, <1>3, <1>9, <2>1 DEF Abandon
<1> QED
  BY <1>1, <1>2, <1>4, <1>5, <1>6, <1>7, <1>8, <1>9 DEF Next, WorkerStep

-----------------------------------------------------------------------------
(* Nothing that was said, saved or done is taken back. *)

Grows ==
    /\ \A j \in Jobs : deliveries[j] <= deliveries'[j]
    /\ events \subseteq events'
    /\ \A j \in Jobs : receipt[j] # 0 => receipt'[j] = receipt[j]
    /\ applied => applied'
    /\ \A d \in Deliveries : saved[d] # NotSaved => saved'[d] # NotSaved

LEMMA StepGrows == IInv /\ [Next]_vars => Grows
<1> SUFFICES ASSUME IInv, [Next]_vars PROVE Grows
  OBVIOUS
<1>0. TypeOK
  BY DEF IInv
<1>1. ASSUME NEW j \in Jobs PROVE deliveries[j] <= deliveries'[j]
  <2>1. deliveries[j] \in Nat
    BY <1>0 DEF TypeOK
  <2>2. UNCHANGED deliveries \/ \E i \in Jobs : deliveries' = [deliveries EXCEPT ![i] = @ + 1]
    BY <1>0, BusStep DEF ApproveApply, Receive
  <2> QED
    BY <1>0, <2>1, <2>2 DEF TypeOK
<1>2. events \subseteq events'
  BY <1>0, EventStep
<1>3. ASSUME NEW j \in Jobs, receipt[j] # 0 PROVE receipt'[j] = receipt[j]
  <2>1. receipt \in [Jobs -> 0 .. MaxDeliveries]
    BY <1>0 DEF TypeOK
  <2> QED
    BY <1>0, <1>3, <2>1, ReceiptStep
<1>4. applied => applied'
  BY <1>0, StateStep, Zenon DEF MakePlan
<1>5. ASSUME NEW d \in Deliveries, saved[d] # NotSaved PROVE saved'[d] # NotSaved
  <2>1. UNCHANGED saved \/ \E w \in Workers : saved' = [saved EXCEPT ![work[w].delivery] = serial]
    BY <1>0, StateStep DEF MakePlan
  <2>2. serial \in Nat /\ saved \in [Deliveries -> Nat \cup {NotSaved}]
    BY <1>0 DEF TypeOK
  <2> QED
    BY <1>5, <2>1, <2>2, NotSavedAssumption
<1> QED
  BY <1>1, <1>2, <1>3, <1>4, <1>5 DEF Grows

\* What a busy worker has done when its step takes it to a phase.
Arrives(w) ==
    /\ pc'[w] # "idle" => work'[w] = work[w]
    /\ pc'[w] \in Early => pc[w] \in Early /\ pc'[w] # "acknowledge"
    /\ pc'[w] = "check" => IF work[w].job = "plan" THEN saved'[work[w].delivery] # NotSaved ELSE applied'
    /\ pc'[w] = "publish" => pc[w] = "check"
    /\ pc'[w] = "receipt" => Event(w, "completed") \in events'
    /\ pc'[w] = "settle" => pc[w] = "receipt" /\ receipt'[work[w].job] # 0
    /\ pc'[w] = "bury" => Event(w, "failed") \in events'

LEMMA ActArrives ==
    ASSUME IInv, NEW w \in Workers, Moves(w), Acts(w)
    PROVE  Arrives(w)
<1> USE DEF Arrives
<1>0. /\ pc \in [Workers -> Phases]
      /\ work[w].job \in Jobs /\ work[w].delivery \in Deliveries
      /\ work \in [Workers -> [job : Jobs, delivery : 0 .. MaxDeliveries]]
      /\ pc'[w] # "idle" => work'[w] = work[w]
  <2>1. TypeOK /\ WorkWasDelivered /\ pc[w] # "idle"
    BY DEF IInv, Safe, Moves
  <2>2. work[w].delivery \in 1 .. deliveries[work[w].job] /\ work[w].job \in Jobs
    BY <2>1 DEF WorkWasDelivered, TypeOK
  <2>3. deliveries[work[w].job] \in 0 .. MaxDeliveries
    BY <2>1, <2>2 DEF TypeOK
  <2> QED
    BY <2>1, <2>2, <2>3, DeliveriesAssumption DEF TypeOK, Moves, Deliveries
<1>1. CASE Refuse(w) \/ Abandon(w) \/ Acknowledge(w) \/ Bury(w) \/ Crash(w) \/ LeaveLease(w)
  <2>1. pc'[w] \in {"idle", "report", "abandon"}
    <3>1. CASE Refuse(w)
      BY <1>0, <3>1 DEF Refuse, Goto, Handler
    <3>2. CASE Abandon(w) \/ Acknowledge(w) \/ Bury(w) \/ Crash(w)
      BY <1>0, <3>2 DEF Abandon, Acknowledge, Bury, Crash, Finish, Goto
    <3>3. CASE LeaveLease(w)
      BY <1>0, <3>3 DEF LeaveLease, Finish, Goto, Handler
    <3> QED
      BY <1>1, <3>1, <3>2, <3>3
  <2> QED
    BY <1>0, <2>1 DEF Early
<1>2. CASE EnterLease(w) \/ ClaimApproval(w) \/ FailEarly(w) \/ StartTool(w)
  <2>1. pc[w] \in Early /\ pc'[w] \in {"claim", "prepare", "tool", "leave"}
    BY <1>0, <1>2 DEF EnterLease, ClaimApproval, FailEarly, StartTool, Goto, Leave, Early
  <2> QED
    BY <1>0, <2>1
<1>3. CASE FailTool(w) \/ CompleteMessage(w)
  <2>1. pc'[w] = "leave"
    BY <1>0, <1>3 DEF FailTool, CompleteMessage, Goto, Leave
  <2> QED
    BY <1>0, <2>1 DEF Early
<1>4. CASE MakePlan(w)
  <2>1. pc'[w] = "check" /\ saved'[work[w].delivery] = serial /\ serial \in Nat
    BY <1>0, <1>4 DEF MakePlan, Goto, IInv, TypeOK
  <2> QED
    BY <1>0, <1>4, <2>1, NotSavedAssumption DEF MakePlan, Early
<1>5. CASE ApplyPlan(w)
  <2>1. pc'[w] = "check" /\ applied' = TRUE /\ work[w].job = "apply"
    BY <1>0, <1>5 DEF ApplyPlan, Goto
  <2> QED
    BY <1>0, <2>1 DEF Early
<1>6. CASE CheckLease(w)
  <2>1. pc[w] = "check" /\ pc'[w] \in {"leave", "publish"}
    BY <1>0, <1>6 DEF CheckLease, Goto, Leave
  <2> QED
    BY <1>0, <2>1 DEF Early
<1>7. CASE Publish(w)
  <2>1. \/ pc'[w] = "leave"
        \/ pc'[w] = "receipt" /\ events' = events \cup {Event(w, "completed")}
    BY <1>0, <1>7 DEF Publish, Goto, Leave
  <2> QED
    BY <1>0, <2>1 DEF Early
<1>8. CASE MarkCompleted(w)
  <2>1. pc[w] = "receipt"
    BY <1>8 DEF MarkCompleted
  <2>2. \/ pc'[w] = "leave"
        \/ /\ pc'[w] = "settle"
           /\ receipt' = [receipt EXCEPT ![work[w].job] = IF @ = 0 THEN work[w].delivery ELSE @]
    BY <1>0, <1>8 DEF MarkCompleted, Goto, Leave
  <2>3. pc'[w] = "settle" => receipt'[work[w].job] # 0
    BY <1>0, <2>2 DEF IInv, TypeOK, Deliveries
  <2> QED
    BY <1>0, <2>1, <2>2, <2>3 DEF Early
<1>9. CASE Report(w)
  <2>1. \/ pc'[w] = "idle"
        \/ pc'[w] = "bury" /\ events' = events \cup {Event(w, "failed")}
    BY <1>0, <1>9 DEF Report, Goto, Finish
  <2> QED
    BY <1>0, <2>1 DEF Early
<1> QED
  BY <1>1, <1>2, <1>3, <1>4, <1>5, <1>6, <1>7, <1>8, <1>9 DEF Acts

LEMMA Steps ==
    ASSUME IInv, [Next]_vars, NEW w \in Workers
    PROVE  \/ pc'[w] = pc[w] /\ work'[w] = work[w]
           \/ pc[w] # "idle" /\ Arrives(w)
           \/ \E j \in Jobs : Receive(w, j)
<1>0. TypeOK
  BY DEF IInv
<1>1. CASE UNCHANGED <<pc, work>>
  BY <1>1
<1>2. ASSUME NEW v \in Workers, Moves(v), Acts(v)
      PROVE  \/ pc'[w] = pc[w] /\ work'[w] = work[w]
             \/ pc[w] # "idle" /\ Arrives(w)
  <2>1. CASE v = w
    BY <1>2, <2>1, ActArrives DEF Moves
  <2>2. CASE v # w
    BY <1>0, <1>2, <2>2 DEF Moves, TypeOK
  <2> QED
    BY <2>1, <2>2
<1>3. ASSUME NEW v \in Workers, NEW j \in Jobs, Receive(v, j), v # w
      PROVE  pc'[w] = pc[w] /\ work'[w] = work[w]
  BY <1>0, <1>3 DEF Receive, Goto, TypeOK
<1> QED
  BY <1>0, <1>1, <1>2, <1>3, WorkStep

\* A worker takes up a delivery nobody had before.
LEMMA Takes ==
    ASSUME IInv, NEW w \in Workers, NEW j \in Jobs, Receive(w, j)
    PROVE  /\ pc[w] = "idle"
           /\ work'[w].job = j /\ work'[w].delivery = deliveries[j] + 1
           /\ work'[w].delivery \in 1 .. deliveries'[j]
           /\ pc'[w] \in {"acknowledge", "protect"}
           /\ pc'[w] = "acknowledge" => receipt'[j] # 0
           /\ UNCHANGED <<events, receipt>>
           /\ \A v \in Workers \ {w} : pc'[v] = pc[v] /\ work'[v] = work[v]
<1>0. TypeOK /\ deliveries[j] \in Nat
  BY DEF IInv, TypeOK
<1>1. /\ work' = [work EXCEPT ![w] = [job |-> j, delivery |-> deliveries[j] + 1]]
      /\ deliveries' = [deliveries EXCEPT ![j] = @ + 1]
      /\ pc' = [pc EXCEPT ![w] = IF receipt[j] # 0 THEN "acknowledge" ELSE "protect"]
      /\ pc[w] = "idle" /\ UNCHANGED <<events, receipt>>
  BY DEF Receive, Goto, blobVars
<1> QED
  BY <1>0, <1>1 DEF TypeOK

-----------------------------------------------------------------------------
(* The parts of the invariant. *)

LEMMA SafeInit == Init => Safe
<1> SUFFICES ASSUME Init PROVE Safe
  OBVIOUS
<1>1. WorkWasDelivered /\ WorkIsDistinct /\ PhasesAreEarned /\ EarlyIsUnpublished
  BY DEF Init, WorkWasDelivered, WorkIsDistinct, PhasesAreEarned, EarlyIsUnpublished
<1>2. DeliveriesAreLeft /\ EventsWereDelivered /\ CompletionIsReal /\ SettledIsReported
  BY DeliveriesAssumption DEF Init, DeliveriesAreLeft, EventsWereDelivered, CompletionIsReal, SettledIsReported
<1>3. SavedIsOld /\ ApprovedIsFixed /\ AppliedAtMostOnce
  BY DEF Init, SavedIsOld, ApprovedIsFixed, AppliedAtMostOnce
<1> QED
  BY <1>1, <1>2, <1>3 DEF Safe

LEMMA WorkWasDeliveredStep == IInv /\ [Next]_vars => WorkWasDelivered'
<1> SUFFICES ASSUME IInv, [Next]_vars, NEW w \in Workers, pc'[w] # "idle"
             PROVE  work'[w].delivery \in 1 .. deliveries'[work'[w].job]
  BY DEF WorkWasDelivered
<1>1. CASE pc[w] # "idle" /\ work'[w] = work[w]
  <2>1. work[w].job \in Jobs /\ work[w].delivery \in 1 .. deliveries[work[w].job]
    BY <1>1 DEF IInv, TypeOK, Safe, WorkWasDelivered
  <2>2. /\ deliveries[work[w].job] \in Nat /\ deliveries'[work[w].job] \in Nat
        /\ deliveries[work[w].job] <= deliveries'[work[w].job]
    BY <2>1, StepGrows, BusTypes DEF IInv, TypeOK, Grows
  <2> QED
    BY <1>1, <2>1, <2>2
<1>2. ASSUME NEW j \in Jobs, Receive(w, j) PROVE work'[w].delivery \in 1 .. deliveries'[work'[w].job]
  BY <1>2, Takes
<1> QED
  BY <1>1, <1>2, Steps DEF Arrives

LEMMA WorkIsDistinctStep == IInv /\ [Next]_vars => WorkIsDistinct'
<1> SUFFICES ASSUME IInv, [Next]_vars, NEW v \in Workers, NEW w \in Workers, pc'[v] # "idle", work'[v] = work'[w]
             PROVE  v = w
  BY DEF WorkIsDistinct
<1>0. TypeOK /\ WorkWasDelivered /\ WorkIsDistinct
  BY DEF IInv, Safe
<1>1. TypeOK'
  BY TypeStep
<1>2. pc'[w] # "idle"
  BY <1>1 DEF TypeOK
<1>3. ASSUME NEW x \in Workers, pc'[x] # "idle" PROVE (pc[x] # "idle" /\ work'[x] = work[x]) \/ \E j \in Jobs : Receive(x, j)
  BY <1>3, Steps DEF Arrives
<1>4. ASSUME NEW x \in Workers, NEW y \in Workers, NEW j \in Jobs, Receive(x, j), x # y, pc'[y] # "idle"
      PROVE  work'[x] # work'[y]
  <2>1. work'[x].job = j /\ work'[x].delivery = deliveries[j] + 1 /\ pc'[y] = pc[y] /\ work'[y] = work[y]
    BY <1>4, Takes
  <2>2. work[y].delivery \in 1 .. deliveries[work[y].job] /\ work[y].job \in Jobs
    BY <1>0, <1>4, <2>1 DEF WorkWasDelivered, TypeOK
  <2>3. ASSUME work'[x] = work'[y] PROVE FALSE
    <3>1. work[y].job = j /\ work[y].delivery = deliveries[j] + 1
      BY <2>1, <2>3
    <3>2. deliveries[j] \in Nat
      BY <1>0 DEF TypeOK
    <3> QED
      BY <2>2, <3>1, <3>2
  <2> QED
    BY <2>3
<1>5. CASE (\E j \in Jobs : Receive(v, j)) \/ (\E j \in Jobs : Receive(w, j))
  BY <1>2, <1>4, <1>5
<1>6. CASE pc[v] # "idle" /\ work'[v] = work[v] /\ pc[w] # "idle" /\ work'[w] = work[w]
  BY <1>0, <1>6 DEF WorkIsDistinct
<1> QED
  BY <1>2, <1>3, <1>5, <1>6

\* What a phase rests on is there when the worker gets to it.
LEMMA PhasesAreEarnedStep == IInv /\ [Next]_vars => PhasesAreEarned'
<1> SUFFICES ASSUME IInv, [Next]_vars, NEW w \in Workers
             PROVE  /\ pc'[w] \in {"check", "publish"} =>
                          IF work'[w].job = "plan" THEN saved'[work'[w].delivery] # NotSaved ELSE applied'
                    /\ pc'[w] = "receipt" => Event(w, "completed")' \in events'
                    /\ pc'[w] \in {"acknowledge", "settle"} => receipt'[work'[w].job] # 0
                    /\ pc'[w] = "bury" => \E e \in events' : e.job = work'[w].job /\ e.status = "failed"
  BY DEF PhasesAreEarned, Done, Reported
<1>0. /\ PhasesAreEarned /\ Grows
      /\ work[w].job \in Jobs
      /\ pc[w] # "idle" => work[w].delivery \in Deliveries
  <2>1. TypeOK /\ WorkWasDelivered /\ work[w].job \in Jobs
    BY DEF IInv, Safe, TypeOK
  <2>2. pc[w] # "idle" => work[w].delivery \in 1 .. deliveries[work[w].job]
    BY <2>1 DEF WorkWasDelivered
  <2>3. deliveries[work[w].job] \in 0 .. MaxDeliveries
    BY <2>1 DEF TypeOK
  <2> QED
    BY <2>1, <2>2, <2>3, StepGrows, DeliveriesAssumption DEF IInv, Safe, Deliveries
<1>1. ASSUME pc[w] \in {"check", "publish"}
      PROVE  IF work[w].job = "plan" THEN saved'[work[w].delivery] # NotSaved ELSE applied'
  <2>1. CASE work[w].job = "plan"
    BY <1>0, <1>1, <2>1 DEF PhasesAreEarned, Done, Grows
  <2>2. CASE work[w].job # "plan"
    BY <1>0, <1>1, <2>2, Zenon DEF PhasesAreEarned, Done, Grows
  <2> QED
    BY <2>1, <2>2
<1>2. CASE pc'[w] = pc[w] /\ work'[w] = work[w]
  <2>1. Event(w, "completed")' = Event(w, "completed")
    BY <1>2 DEF Event
  <2>2. pc[w] = "receipt" => Event(w, "completed") \in events'
    BY <1>0 DEF PhasesAreEarned, Grows
  <2>3. pc[w] \in {"acknowledge", "settle"} => receipt'[work[w].job] # 0
    BY <1>0 DEF PhasesAreEarned, Grows
  <2>4. pc[w] = "bury" => \E e \in events' : e.job = work[w].job /\ e.status = "failed"
    BY <1>0 DEF PhasesAreEarned, Reported, Grows
  <2> QED
    BY <1>1, <1>2, <2>1, <2>2, <2>3, <2>4
<1>3. CASE pc[w] # "idle" /\ Arrives(w)
  <2>1. pc'[w] # "idle" => work'[w] = work[w] /\ Event(w, "completed")' = Event(w, "completed")
    BY <1>3 DEF Arrives, Event
  <2>2. pc'[w] = "bury" => \E e \in events' : e.job = work[w].job /\ e.status = "failed"
    BY <1>3 DEF Arrives, Event
  <2>3. pc'[w] # "acknowledge"
    BY <1>3 DEF Arrives, Early
  <2>4. pc'[w] \in {"check", "publish"} =>
           IF work[w].job = "plan" THEN saved'[work[w].delivery] # NotSaved ELSE applied'
    BY <1>1, <1>3 DEF Arrives
  <2>5. /\ pc'[w] = "receipt" => Event(w, "completed") \in events'
        /\ pc'[w] = "settle" => receipt'[work[w].job] # 0
    BY <1>3 DEF Arrives
  <2> QED
    BY <2>1, <2>2, <2>3, <2>4, <2>5
<1>4. ASSUME NEW j \in Jobs, Receive(w, j)
      PROVE  /\ pc'[w] \in {"acknowledge", "protect"}
             /\ pc'[w] = "acknowledge" => receipt'[work'[w].job] # 0
  BY <1>4, Takes
<1> QED
  BY <1>2, <1>3, <1>4, Steps

\* A completed event is a result that was in the hands of the worker that sent it.
LEMMA NewEvents ==
    ASSUME IInv, [Next]_vars, NEW e \in events', e \notin events, e.status = "completed"
    PROVE  \E w \in Workers : /\ pc[w] = "publish" /\ pc'[w] \in {"receipt", "leave"}
                              /\ e = [job |-> work[w].job, status |-> "completed", made |-> work[w].delivery]
BY EventStep DEF IInv, Event

LEMMA EarlyIsUnpublishedStep == IInv /\ [Next]_vars => EarlyIsUnpublished'
<1> SUFFICES ASSUME IInv, [Next]_vars, NEW w \in Workers, pc'[w] \in Early, work'[w].job = "plan",
                    Event(w, "completed")' \in events'
             PROVE  FALSE
  BY DEF EarlyIsUnpublished, Early
<1>0. TypeOK /\ EarlyIsUnpublished /\ WorkIsDistinct /\ EventsWereDelivered
  BY DEF IInv, Safe
<1> DEFINE e == [job |-> "plan", status |-> "completed", made |-> work'[w].delivery]
<1>1. e \in events'
  BY DEF Event
<1>2. CASE pc[w] \in Early /\ work'[w] = work[w]
  <2>1. e \notin events
    BY <1>0, <1>2 DEF EarlyIsUnpublished, Event
  <2>2. PICK v \in Workers : /\ pc[v] = "publish" /\ pc'[v] \in {"receipt", "leave"}
                             /\ e = [job |-> work[v].job, status |-> "completed", made |-> work[v].delivery]
    BY <1>1, <2>1, NewEvents
  <2>3. work[v] = work[w]
    <3>1. work[v].job = work[w].job /\ work[v].delivery = work[w].delivery
      BY <1>2, <2>2
    <3> QED
      BY <1>0, <3>1 DEF TypeOK
  <2>4. v = w
    BY <1>0, <2>2, <2>3 DEF WorkIsDistinct
  <2> QED
    BY <1>2, <2>2, <2>4 DEF Early
<1>3. ASSUME NEW j \in Jobs, Receive(w, j) PROVE FALSE
  <2>1. j = "plan" /\ work'[w].delivery = deliveries[j] + 1 /\ e \in events /\ deliveries[j] \in Nat
    BY <1>0, <1>1, <1>3, Takes DEF TypeOK
  <2>2. e.made \in 1 .. deliveries[j]
    BY <1>0, <2>1 DEF EventsWereDelivered
  <2> QED
    BY <2>1, <2>2
<1>4. CASE pc'[w] = pc[w] /\ work'[w] = work[w]
  BY <1>2, <1>4
<1>5. CASE pc[w] # "idle" /\ Arrives(w)
  BY <1>2, <1>5 DEF Arrives, Early
<1> QED
  BY <1>3, <1>4, <1>5, Steps

LEMMA DeliveriesAreLeftStep == IInv /\ [Next]_vars => DeliveriesAreLeft'
<1> SUFFICES ASSUME IInv, [Next]_vars PROVE DeliveriesAreLeft'
  OBVIOUS
<1> USE DEF DeliveriesAreLeft
<1>0. TypeOK /\ DeliveriesAreLeft
  BY DEF IInv, Safe
<1>1. CASE UNCHANGED <<message, holder, deliveries, approved>>
  BY <1>0, <1>1
<1>2. CASE ApproveApply
  BY <1>0, <1>2, DeliveriesAssumption DEF ApproveApply, TypeOK
<1>3. ASSUME NEW w \in Workers, NEW j \in Jobs, Receive(w, j) PROVE DeliveriesAreLeft'
  BY <1>0, <1>3 DEF Receive, TypeOK
<1>4. ASSUME UNCHANGED <<deliveries, approved>>, NEW j \in Jobs, message[j] = "locked",
             Return(j) \/ Settle(j, "completed") \/ Settle(j, "dead")
      PROVE  DeliveriesAreLeft'
  BY <1>0, <1>4 DEF Return, Settle, TypeOK
<1> QED
  BY <1>0, <1>1, <1>2, <1>3, <1>4, BusStep

LEMMA EventsWereDeliveredStep == IInv /\ [Next]_vars => EventsWereDelivered'
<1> SUFFICES ASSUME IInv, [Next]_vars, NEW e \in events', e.status = "completed"
             PROVE  e.made \in 1 .. deliveries'[e.job]
  BY DEF EventsWereDelivered
<1>0. /\ TypeOK /\ EventsWereDelivered /\ WorkWasDelivered
      /\ \A j \in Jobs : deliveries[j] \in Nat /\ deliveries'[j] \in Nat /\ deliveries[j] <= deliveries'[j]
  BY StepGrows, BusTypes DEF IInv, Safe, TypeOK, Grows
<1>1. CASE e \in events
  <2>1. e.job \in Jobs /\ e.made \in 1 .. deliveries[e.job]
    BY <1>0, <1>1 DEF TypeOK, EventsWereDelivered
  <2> QED
    BY <1>0, <2>1
<1>2. CASE e \notin events
  <2>1. PICK w \in Workers : pc[w] = "publish" /\ e.job = work[w].job /\ e.made = work[w].delivery
    BY <1>2, NewEvents
  <2>2. e.job \in Jobs /\ e.made \in 1 .. deliveries[e.job]
    BY <1>0, <2>1 DEF TypeOK, WorkWasDelivered
  <2> QED
    BY <1>0, <2>2
<1> QED
  BY <1>1, <1>2

\* An apply message exists only for an approved plan.
LEMMA ApplyIsApproved ==
    ASSUME IInv, NEW w \in Workers, pc[w] = "tool", work[w].job = "apply"
    PROVE  approved # NoPlan
<1>1. work[w].delivery \in 1 .. deliveries["apply"] /\ deliveries["apply"] \in Nat
  BY DEF IInv, Safe, WorkWasDelivered, TypeOK
<1>2. deliveries["apply"] # 0
  BY <1>1
<1> QED
  BY <1>2 DEF IInv, Safe, DeliveriesAreLeft, TypeOK

\* The one change the approved plan can make.
LEMMA CloudStep ==
    ASSUME IInv, [Next]_vars
    PROVE  \/ UNCHANGED <<serial, applied, saved>>
           \/ \E w \in Workers : MakePlan(w)
           \/ UNCHANGED saved /\ approved # NoPlan /\ serial = 0 /\ serial' = 1
<1>1. ASSUME Fresh, NEW w \in Workers, pc[w] = "tool", work[w].job = "apply"
      PROVE  approved # NoPlan /\ serial = 0
  <2>1. approved # NoPlan
    BY <1>1, ApplyIsApproved
  <2> QED
    BY <1>1, <2>1 DEF Fresh, IInv, Safe, ApprovedIsFixed
<1>2. CASE /\ UNCHANGED saved
           /\ serial' = serial + 1
           /\ Fresh
           /\ \E w \in Workers : pc[w] = "tool" /\ work[w].job = "apply"
  <2>1. approved # NoPlan /\ serial = 0
    BY <1>1, <1>2
  <2> QED
    BY <1>2, <2>1
<1> QED
  BY <1>2, StateStep DEF IInv

LEMMA SavedIsOldStep == IInv /\ [Next]_vars => SavedIsOld'
<1> SUFFICES ASSUME IInv, [Next]_vars, NEW d \in Deliveries, saved'[d] # NotSaved
             PROVE  saved'[d] <= serial'
  BY DEF SavedIsOld
<1>0. /\ serial \in Nat /\ saved \in [Deliveries -> Nat \cup {NotSaved}]
      /\ saved[d] # NotSaved => saved[d] <= serial
  BY DEF IInv, TypeOK, Safe, SavedIsOld
<1>1. CASE UNCHANGED <<serial, applied, saved>>
  BY <1>0, <1>1
<1>2. ASSUME NEW w \in Workers, MakePlan(w) PROVE saved'[d] <= serial'
  <2>1. saved' = [saved EXCEPT ![work[w].delivery] = serial] /\ serial' = serial
    BY <1>2 DEF MakePlan
  <2> QED
    BY <1>0, <2>1
<1>3. CASE UNCHANGED saved /\ serial = 0 /\ serial' = 1
  BY <1>0, <1>3
<1> QED
  BY <1>1, <1>2, <1>3, CloudStep

LEMMA AppliedAtMostOnceStep == IInv /\ [Next]_vars => AppliedAtMostOnce'
<1> SUFFICES ASSUME IInv, [Next]_vars PROVE serial' <= 1
  BY DEF AppliedAtMostOnce
<1>1. serial \in Nat /\ serial <= 1
  BY DEF IInv, TypeOK, Safe, AppliedAtMostOnce
<1>2. serial' = serial \/ serial' = 1
  BY CloudStep DEF MakePlan
<1> QED
  BY <1>1, <1>2

LEMMA ApprovedIsFixedStep == IInv /\ [Next]_vars => ApprovedIsFixed'
<1> SUFFICES ASSUME IInv, [Next]_vars PROVE ApprovedIsFixed'
  OBVIOUS
<1>0. /\ TypeOK /\ ApprovedIsFixed /\ Grows
      /\ EarlyIsUnpublished /\ SavedIsOld /\ CompletionIsReal /\ EventsWereDelivered
  BY StepGrows DEF IInv, Safe
<1>1. UNCHANGED approved \/ ApproveApply
  BY <1>0, BusStep DEF Receive, askVars
<1>2. CASE ApproveApply
  <2>1. PICK e \in events : e.job = "plan" /\ e.status = "completed" /\ approved' = e.made
    BY <1>2 DEF ApproveApply
  <2>2. approved = NoPlan /\ UNCHANGED <<serial, saved, events>>
    BY <1>0, <1>2 DEF ApproveApply, TypeOK, stateVars
  <2>3. serial = 0
    BY <1>0, <2>2 DEF ApprovedIsFixed
  <2>4. e.made \in 1 .. deliveries["plan"] /\ deliveries["plan"] \in 0 .. MaxDeliveries
    BY <1>0, <2>1 DEF EventsWereDelivered, TypeOK
  <2>5. e.made \in Deliveries /\ e.made # NoPlan
    BY <2>4, DeliveriesAssumption DEF Deliveries, NoPlan
  <2>6. saved[e.made] # NotSaved
    BY <1>0, <2>1 DEF CompletionIsReal
  <2>7. saved[e.made] = 0
    <3>1. saved[e.made] \in Nat /\ saved[e.made] <= 0
      BY <1>0, <2>3, <2>5, <2>6 DEF SavedIsOld, TypeOK
    <3> QED
      BY <3>1
  <2>8. e = [job |-> "plan", status |-> "completed", made |-> e.made]
    BY <1>0, <2>1 DEF TypeOK
  <2> QED
    BY <2>1, <2>2, <2>5, <2>7, <2>8 DEF ApprovedIsFixed
<1>3. CASE UNCHANGED approved
  <2>1. CASE approved = NoPlan
    <3>1. serial = 0 /\ serial' = serial
      BY <1>0, <2>1, CloudStep DEF ApprovedIsFixed, MakePlan
    <3> QED
      BY <1>3, <2>1, <3>1 DEF ApprovedIsFixed
  <2>2. CASE approved # NoPlan
    <3>1. /\ [job |-> "plan", status |-> "completed", made |-> approved] \in events
          /\ approved \in Deliveries /\ saved[approved] = 0
      BY <1>0, <2>2 DEF ApprovedIsFixed
    <3>2. ASSUME NEW w \in Workers, MakePlan(w) PROVE saved'[approved] = saved[approved]
      <4>1. pc[w] = "tool" /\ work[w].job = "plan" /\ saved' = [saved EXCEPT ![work[w].delivery] = serial]
        BY <3>2 DEF MakePlan
      <4>2. work[w].delivery # approved
        BY <1>0, <3>1, <4>1 DEF EarlyIsUnpublished, Early, Event
      <4> QED
        BY <1>0, <3>1, <4>1, <4>2 DEF TypeOK
    <3>3. saved'[approved] = 0
      BY <3>1, <3>2, CloudStep
    <3>4. [job |-> "plan", status |-> "completed", made |-> approved] \in events'
      BY <1>0, <3>1 DEF Grows
    <3> QED
      BY <1>3, <2>2, <3>1, <3>3, <3>4 DEF ApprovedIsFixed
  <2> QED
    BY <2>1, <2>2
<1> QED
  BY <1>1, <1>2, <1>3

\* A published result was there, and stays.
LEMMA CompletionIsRealStep == IInv /\ [Next]_vars => CompletionIsReal'
<1> SUFFICES ASSUME IInv, [Next]_vars, NEW e \in events', e.status = "completed"
             PROVE  IF e.job = "plan" THEN saved'[e.made] # NotSaved ELSE applied'
  BY DEF CompletionIsReal
<1>0. TypeOK /\ CompletionIsReal /\ EventsWereDelivered /\ WorkWasDelivered /\ PhasesAreEarned /\ Grows
  BY StepGrows DEF IInv, Safe
<1>1. CASE e \in events
  <2>1. e.made \in Deliveries
    <3>1. e.job \in Jobs
      BY <1>0, <1>1 DEF TypeOK
    <3>2. e.made \in 1 .. deliveries[e.job] /\ deliveries[e.job] \in 0 .. MaxDeliveries
      BY <1>0, <1>1, <3>1 DEF TypeOK, EventsWereDelivered
    <3> QED
      BY <3>2, DeliveriesAssumption DEF Deliveries
  <2>2. CASE e.job = "plan"
    BY <1>0, <1>1, <2>1, <2>2 DEF CompletionIsReal, Grows
  <2>3. CASE e.job # "plan"
    BY <1>0, <1>1, <2>3, Zenon DEF CompletionIsReal, Grows
  <2> QED
    BY <2>2, <2>3
<1>2. CASE e \notin events
  <2>1. PICK w \in Workers : pc[w] = "publish" /\ e.job = work[w].job /\ e.made = work[w].delivery
    BY <1>2, NewEvents
  <2>2. work[w].delivery \in Deliveries
    <3>1. work[w].job \in Jobs
      BY <1>0 DEF TypeOK
    <3>2. work[w].delivery \in 1 .. deliveries[work[w].job] /\ deliveries[work[w].job] \in 0 .. MaxDeliveries
      BY <1>0, <2>1, <3>1 DEF TypeOK, WorkWasDelivered
    <3> QED
      BY <3>2, DeliveriesAssumption DEF Deliveries
  <2>3. CASE e.job = "plan"
    BY <1>0, <2>1, <2>2, <2>3 DEF PhasesAreEarned, Done, Grows
  <2>4. CASE e.job # "plan"
    BY <1>0, <2>1, <2>4, Zenon DEF PhasesAreEarned, Done, Grows
  <2> QED
    BY <2>3, <2>4
<1> QED
  BY <1>1, <1>2

LEMMA SettledIsReportedStep == IInv /\ [Next]_vars => SettledIsReported'
<1> SUFFICES ASSUME IInv, [Next]_vars, NEW j \in Jobs
             PROVE  /\ receipt'[j] # 0 => [job |-> j, status |-> "completed", made |-> receipt'[j]] \in events'
                    /\ message'[j] = "completed" => receipt'[j] # 0
                    /\ message'[j] = "dead" => \E e \in events' : e.job = j /\ e.status = "failed"
  BY DEF SettledIsReported, Reported
<1>0. TypeOK /\ SettledIsReported /\ PhasesAreEarned /\ Grows
  BY StepGrows DEF IInv, Safe
<1>1. receipt'[j] # 0 => [job |-> j, status |-> "completed", made |-> receipt'[j]] \in events'
  <2>1. CASE receipt[j] # 0
    BY <1>0, <2>1 DEF SettledIsReported, Grows
  <2>2. CASE receipt[j] = 0 /\ receipt'[j] # 0
    <3>1. PICK w \in Workers :
             /\ pc[w] = "receipt"
             /\ receipt' = [receipt EXCEPT ![work[w].job] = IF @ = 0 THEN work[w].delivery ELSE @]
      BY <1>0, <2>2, ReceiptStep
    <3>2. work[w].job = j /\ receipt'[j] = work[w].delivery
      BY <1>0, <2>2, <3>1 DEF TypeOK
    <3> QED
      BY <1>0, <3>1, <3>2 DEF PhasesAreEarned, Event, Grows
  <2> QED
    BY <2>1, <2>2
<1>2. message'[j] = "completed" => receipt'[j] # 0
  BY <1>0, SettleStep DEF SettledIsReported, PhasesAreEarned, Grows
<1>3. message'[j] = "dead" => \E e \in events' : e.job = j /\ e.status = "failed"
  BY <1>0, SettleStep DEF SettledIsReported, PhasesAreEarned, Reported, Grows
<1> QED
  BY <1>1, <1>2, <1>3

-----------------------------------------------------------------------------
(* Theorems. *)

\* Every reachable state of the executor satisfies the inductive invariant: a
\* delivery is in one pair of hands, a phase of _process_message has behind it
\* what it rests on, and the approved plan was made before anything was applied.
THEOREM ExecutorInvariance == Spec => []IInv
<1>1. Init => IInv
  BY TypeInit, SafeInit DEF IInv
<1>2. IInv /\ [Next]_vars => IInv'
  <2>1. IInv /\ [Next]_vars => TypeOK'
    BY TypeStep
  <2>2. IInv /\ [Next]_vars => Safe'
    BY WorkWasDeliveredStep, WorkIsDistinctStep, PhasesAreEarnedStep, EarlyIsUnpublishedStep,
       DeliveriesAreLeftStep, EventsWereDeliveredStep, SavedIsOldStep, ApprovedIsFixedStep,
       CompletionIsRealStep, SettledIsReportedStep, AppliedAtMostOnceStep DEF Safe
  <2> QED
    BY <2>1, <2>2 DEF IInv
<1> QED
  BY <1>1, <1>2, PTL DEF Spec

\* What the owner approved changes the cloud at most once, for every number of
\* workers, deliveries, crashes, lapsed leases and lost locks (_apply).
THEOREM AppliedOnce == Spec => []AppliedAtMostOnce
<1>1. IInv => AppliedAtMostOnce
  BY DEF IInv, Safe
<1> QED
  BY <1>1, ExecutorInvariance, PTL

\* What the workers report and record of a job is true, and no message is settled
\* on a result nobody was told of (_process_message).
THEOREM ReportsTrue == Spec => []ReportsAreTrue
<1>1. IInv => ReportsAreTrue
  BY DEF IInv, Safe, ReportsAreTrue
<1> QED
  BY <1>1, ExecutorInvariance, PTL
=============================================================================
