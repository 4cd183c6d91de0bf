----------------------- MODULE TerraformWorkflowProofs -----------------------
(***************************************************************************)
(* Proofs about TerraformWorkflow: for any number of requests, targets,    *)
(* edits, reconnections, redeliveries and faults, an approval goes on to   *)
(* stand for the evidence and the target its owner saw, and a release gets *)
(* its proof only of an apply that happened, of the plan saved for the     *)
(* run and of reviewed data, to the target that is connected now unless    *)
(* the run was committed without its command.                              *)
(***************************************************************************)
EXTENDS TerraformWorkflow, TLAPS

-----------------------------------------------------------------------------
(* The inductive invariant. *)

\* A revision counts edits, whichever plan the request had loaded.
RevisionsAreCounted ==
    /\ plan.revision <= edits + 1
    /\ \A q \in Planners : snap[q].revision <= edits + 1

\* A run is bound to plan data an owner approved; before that it has no target.
RunsAreReviewed ==
    \A r \in Revisions : IF runs[r].status = "none" THEN runs[r].target = NoTarget
                         ELSE runs[r].digest.edit \in reviewed

\* What an approval under way has checked still holds: the run's rows are locked.
Consents(q) ==
    LET c == consent[q] IN
    /\ c.target # NoTarget /\ runs[c.revision].target = c.target
    /\ approval[c.revision].status = "none" /\ c.evidence = cost[c.revision]
    /\ result[c.revision] # NoTarget

ConsentsHold == \A q \in Approvers : consent[q] = NoConsent \/ Consents(q)

\* Row locks exclude: no two approvals of one run are under way.
OneConsent ==
    \A p, q \in Approvers :
        consent[p].target # NoTarget /\ consent[q].target # NoTarget /\ consent[p].revision = consent[q].revision
        => p = q

\* An approval is given to the run's target, on its saved plan and last evidence.
ApprovalsStand ==
    \A r \in Revisions : approval[r].status # "none" =>
        /\ approval[r].target # NoTarget /\ approval[r].target = runs[r].target
        /\ approval[r].evidence = cost[r] /\ result[r] # NoTarget

\* A saved plan is for the target its command was queued for, which is the run's own
\* if the command was queued with the run.
Queued(r) == outbox[<<"generation", r>>] # "none"

TargetsAgree ==
    \A r \in Revisions :
        /\ Queued(r) <=> jobTarget[r] # NoTarget
        /\ runs[r].status = "none" => jobTarget[r] = NoTarget
        /\ runs[r].target # NoTarget => r \in orphaned \/ jobTarget[r] = runs[r].target
        /\ result[r] = NoTarget \/ result[r] = jobTarget[r]

Reported(r) == \E i \in 1 .. Len(events[r]) : events[r][i] = "applied"

Happened(r) == approval[r].status # "none" /\ [run |-> r, target |-> result[r]] \in applied

\* What is reported, and what the run shows, was approved and happened.
AppliesHappened == \A r \in Revisions : runs[r].status = "completed" \/ Reported(r) => Happened(r)

Sound ==
    /\ RevisionsAreCounted /\ RunsAreReviewed /\ ConsentsHold /\ OneConsent
    /\ ApprovalsStand /\ TargetsAgree /\ AppliesHappened

IInv == TypeOK /\ Sound

-----------------------------------------------------------------------------
(* Operators. *)

LEMMA FirstValues ==
    /\ 1 \in Revisions /\ FirstPlan \in Plan /\ NoRun \in Run /\ NoRun.status = "none" /\ NoRun.target = NoTarget
    /\ NotLoaded.revision = 1 /\ NotLoaded.status = "none"
    /\ NoConsent.target = NoTarget /\ NoApproval.status = "none"
<1>1. 1 \in Revisions /\ 0 \in 0 .. MaxEdits
    BY BoundsAssumption DEF Revisions
<1>2. DefaultRegion \in Regions /\ Unplanned \in Tiers
    BY DEF Regions, Tiers
<1>3. FirstPlan \in Plan
    BY <1>1, <1>2 DEF FirstPlan, Plan
<1>4. Digest(FirstPlan, "clean") \in Digests
    BY <1>1, <1>2 DEF FirstPlan, Digest, Digests, Marks
<1>5. NoRun \in Run
    BY <1>4 DEF NoRun, Run
<1> QED
    BY <1>1, <1>3, <1>5 DEF NoRun, NotLoaded, FirstPlan, NoConsent, NoApproval

\* A digest keeps which edit the plan data stems from.
LEMMA DigestFacts ==
    ASSUME NEW p \in Plan, NEW mark \in Marks
    PROVE  Digest(p, mark) \in Digests /\ Digest(p, mark).edit = p.edit
BY DEF Plan, Digest, Digests

\* Aligning a plan with the target changes neither its revision nor its edit.
LEMMA AlignedFacts ==
    ASSUME NEW p \in Plan, target \in Targets \cup {NoTarget}
    PROVE  Aligned(p) \in Plan /\ Aligned(p).revision = p.revision /\ Aligned(p).edit = p.edit
<1>1. CASE target = NoTarget
    BY <1>1 DEF Aligned, Plan
<1>2. CASE target # NoTarget
    <2>1. RegionOf[target] \in Regions /\ HostingOf[target] \in Tiers
        BY <1>2 DEF Regions, Tiers
    <2> DEFINE tier == IF p.tier = Unplanned THEN HostingOf[target] ELSE p.tier
    <2>2. tier \in Tiers
        BY <2>1 DEF Plan
    <2>3. Aligned(p) = [p EXCEPT !.status = "approved", !.region = RegionOf[target], !.tier = tier]
        BY <1>2 DEF Aligned
    <2> HIDE DEF tier
    <2> QED
        BY <2>1, <2>2, <2>3 DEF Plan
<1> QED
    BY <1>1, <1>2

LEMMA EmitFacts ==
    ASSUME NEW r \in Revisions, NEW event \in {"planned", "applied", "failed"},
           events \in [Revisions -> Seq({"planned", "applied", "failed"})], Emit(r, event)
    PROVE  /\ events' \in [Revisions -> Seq({"planned", "applied", "failed"})]
           /\ \A s \in Revisions : Reported(s)' => Reported(s) \/ (s = r /\ event = "applied")
<1> DEFINE Events == {"planned", "applied", "failed"}
<1> HIDE DEF Events
<1>1. event \in Events /\ events \in [Revisions -> Seq(Events)]
    BY DEF Events
<1>2. events' = [events EXCEPT ![r] = Append(events[r], event)]
    BY DEF Emit
<1>3. events[r] \in Seq(Events) /\ Append(events[r], event) \in Seq(Events)
    BY <1>1
<1>4. events' \in [Revisions -> Seq(Events)]
    BY <1>1, <1>2, <1>3
<1>5. ASSUME NEW s \in Revisions, Reported(s)' PROVE Reported(s) \/ (s = r /\ event = "applied")
    <2>1. PICK i \in 1 .. Len(events'[s]) : events'[s][i] = "applied"
        BY <1>5 DEF Reported
    <2>2. CASE s # r
        BY <1>1, <1>2, <2>1, <2>2 DEF Reported
    <2>3. CASE s = r
        <3>1. events'[r] = Append(events[r], event) /\ Len(events'[r]) = Len(events[r]) + 1
            BY <1>1, <1>2, <1>3
        <3>2. i \in 1 .. Len(events[r]) \/ i = Len(events[r]) + 1
            BY <1>3, <2>1, <2>3, <3>1
        <3>3. CASE i \in 1 .. Len(events[r])
            BY <1>1, <1>3, <2>1, <2>3, <3>1, <3>3 DEF Reported
        <3>4. CASE i = Len(events[r]) + 1
            BY <1>1, <1>3, <2>1, <2>3, <3>1, <3>4
        <3> QED
            BY <3>2, <3>3, <3>4
    <2> QED
        BY <2>2, <2>3
<1> QED
    BY <1>4, <1>5 DEF Events

\* An approval request that is under way has a target and a run that is bound to it.
LEMMA UnderWay ==
    ASSUME TypeOK, ConsentsHold, NEW q \in Approvers, consent[q].target # NoTarget
    PROVE  Consents(q) /\ consent[q].revision \in Revisions
BY FirstValues DEF TypeOK, ConsentsHold

-----------------------------------------------------------------------------
(* What approving a plan does to the runs. *)

\* A run stays, is created for the approved data, or becomes failed and keeps what
\* it is bound to.
Kept(r) == runs'[r] = runs[r]
Created(r, edit) ==
    /\ runs[r].status = "none" /\ runs'[r].status \in {"open", "failed"}
    /\ runs'[r].digest.edit = edit
Failed(r) ==
    /\ runs[r].status # "none" /\ runs'[r].status = "failed"
    /\ runs'[r].digest = runs[r].digest /\ runs'[r].target = runs[r].target

Becomes(edit) ==
    /\ runs' \in [Revisions -> Run]
    /\ \A r \in Revisions : Kept(r) \/ Created(r, edit) \/ Failed(r)

LEMMA NewRun ==
    ASSUME runs \in [Revisions -> Run], NEW new \in Run, NEW r \in Revisions,
           runs[r].status = "none", new.status \in {"open", "failed"},
           runs' = [runs EXCEPT ![r] = new]
    PROVE  Becomes(new.digest.edit)
BY DEF Becomes, Kept, Created

LEMMA CreateRunStep ==
    ASSUME runs \in [Revisions -> Run], NEW r \in Revisions, NEW digest \in Digests,
           NEW t \in Targets \cup {NoTarget}, CreateRun(r, "open", digest, t)
    PROVE  Becomes(digest.edit)
<1>1. CASE runs[r].status = "none"
    <2> DEFINE new == [status |-> "open", digest |-> digest, target |-> t]
    <2>1. new \in Run /\ new.status = "open" /\ new.digest = digest
        BY DEF Run
    <2>2. runs' = [runs EXCEPT ![r] = new]
        BY <1>1 DEF CreateRun
    <2> HIDE DEF new
    <2>3. Becomes(new.digest.edit)
        BY <1>1, <2>1, <2>2, NewRun
    <2> QED
        BY <2>1, <2>3
<1>2. CASE runs[r].status # "none"
    BY <1>2 DEF CreateRun, Becomes, Kept
<1> QED
    BY <1>1, <1>2

LEMMA RecordFailureStep ==
    ASSUME runs \in [Revisions -> Run], NEW p \in Plan, NEW mark \in Marks, RecordFailure(p, mark)
    PROVE  Becomes(p.edit)
<1> DEFINE r == p.revision
           digest == Digest(p, mark)
<1>1. r \in Revisions /\ digest \in Digests /\ digest.edit = p.edit
    BY DigestFacts DEF Plan
<1>2. runs' = IF runs[r].status = "none"
              THEN [runs EXCEPT ![r] = [status |-> "failed", digest |-> digest, target |-> NoTarget]]
              ELSE IF runs[r].digest = digest THEN [runs EXCEPT ![r].status = "failed"] ELSE runs
    BY DEF RecordFailure
<1> HIDE DEF r, digest
<1>3. CASE runs[r].status = "none"
    <2> DEFINE new == [status |-> "failed", digest |-> digest, target |-> NoTarget]
    <2>1. new \in Run /\ new.status = "failed" /\ new.digest = digest
        BY <1>1 DEF Run
    <2>2. runs' = [runs EXCEPT ![r] = new]
        BY <1>2, <1>3
    <2> HIDE DEF new
    <2>3. Becomes(new.digest.edit)
        BY <1>1, <1>3, <2>1, <2>2, NewRun
    <2> QED
        BY <1>1, <2>1, <2>3
<1>4. CASE runs[r].status # "none" /\ runs[r].digest = digest
    <2>1. PICK new : new = [runs[r] EXCEPT !.status = "failed"]
        OBVIOUS
    <2>2. /\ new \in Run /\ new.status = "failed"
          /\ new.digest = runs[r].digest /\ new.target = runs[r].target
        BY <1>1, <2>1 DEF Run
    <2>3. runs' = [runs EXCEPT ![r] = new]
        BY <1>2, <1>4, <2>1
    <2> QED
        BY <1>1, <1>4, <2>2, <2>3 DEF Becomes, Kept, Failed
<1>5. CASE runs[r].status # "none" /\ runs[r].digest # digest
    BY <1>2, <1>5 DEF Becomes, Kept
<1> QED
    BY <1>3, <1>4, <1>5

\* What the three outcomes of an approval have in common.
LEMMA ApprovePlanStep ==
    ASSUME TypeOK, NEW q \in Planners, ApprovePlan(q)
    PROVE  /\ Becomes(snap[q].edit)
           /\ outbox' \in [Commands -> {"none", "pending", "sent"}]
           /\ jobTarget' \in [Revisions -> Targets \cup {NoTarget}]
           /\ faults' \in 0 .. MaxFaults
<1>1. /\ snap[q] \in Plan /\ runs \in [Revisions -> Run] /\ target \in Targets \cup {NoTarget}
      /\ outbox \in [Commands -> {"none", "pending", "sent"}]
      /\ jobTarget \in [Revisions -> Targets \cup {NoTarget}] /\ faults \in 0 .. MaxFaults
    BY DEF TypeOK, ApprovePlan
<1>2. PICK mem : mem = Aligned(snap[q])
    OBVIOUS
<1>3. mem \in Plan /\ mem.edit = snap[q].edit /\ mem.revision \in Revisions
    BY <1>1, <1>2, AlignedFacts DEF Plan
<1>4. Digest(mem, "clean") \in Digests /\ Digest(mem, "clean").edit = snap[q].edit
    BY <1>3, DigestFacts DEF Marks
<1>5. Fault => faults' \in 0 .. MaxFaults
    BY <1>1, BoundsAssumption DEF Fault
<1>6. CASE ApproveOnly(q)
    BY <1>1, <1>6 DEF ApproveOnly, Becomes, Kept, jobVars
<1>7. CASE QueueGeneration(q)
    <2>1. /\ CreateRun(mem.revision, "open", Digest(mem, "clean"), target)
          /\ EnqueueGeneration(mem.revision) /\ UNCHANGED faults
        BY <1>2, <1>7 DEF QueueGeneration
    <2>2. Becomes(snap[q].edit)
        BY <1>1, <1>3, <1>4, <2>1, CreateRunStep
    <2>3. <<"generation", mem.revision>> \in Commands
        BY <1>3 DEF Commands
    <2>4. /\ outbox' \in [Commands -> {"none", "pending", "sent"}]
          /\ jobTarget' \in [Revisions -> Targets \cup {NoTarget}]
        BY <1>1, <1>3, <2>1, <2>3 DEF EnqueueGeneration
    <2> QED
        BY <1>1, <2>1, <2>2, <2>4
<1>8. CASE FailToQueue(q)
    <2>1. UNCHANGED <<outbox, jobTarget>>
        BY <1>8 DEF FailToQueue
    <2>2. Becomes(snap[q].edit) /\ faults' \in 0 .. MaxFaults
        <3>1. CASE Fault /\ RecordFailure(mem, "store")
            BY <1>1, <1>3, <1>5, <3>1, RecordFailureStep DEF Marks
        <3>2. CASE RecordFailure(mem, "tier") /\ UNCHANGED faults
            BY <1>1, <1>3, <3>2, RecordFailureStep DEF Marks
        <3>3. CASE UNCHANGED <<runs, faults>>
            BY <1>1, <3>3 DEF Becomes, Kept
        <3>4. CASE Fault /\ CreateRun(mem.revision, "open", Digest(mem, "clean"), target)
            BY <1>1, <1>3, <1>4, <1>5, <3>4, CreateRunStep
        <3> QED
            BY <1>2, <1>8, <3>1, <3>2, <3>3, <3>4 DEF FailToQueue
    <2> QED
        BY <1>1, <2>1, <2>2
<1> QED
    BY <1>6, <1>7, <1>8 DEF ApprovePlan

\* What an approval stores is a plan of the row's revision.
LEMMA StoredFacts ==
    ASSUME TypeOK, NEW q \in Planners, snap[q] # NotLoaded
    PROVE  Stored(q) \in Plan /\ Stored(q).revision = plan.revision
<1>1. snap[q] \in Plan /\ plan \in Plan /\ target \in Targets \cup {NoTarget}
    BY DEF TypeOK
<1>2. PICK mem : mem = Aligned(snap[q])
    OBVIOUS
<1>3. mem \in Plan
    BY <1>1, <1>2, AlignedFacts
<1> DEFINE moved == mem.region # snap[q].region
           status == Flush(plan.status, snap[q].status, "approved")
           region == Flush(plan.region, snap[q].region, mem.region)
           edit == IF moved THEN mem.edit ELSE plan.edit
           tier == IF moved THEN mem.tier ELSE plan.tier
<1>4. status \in {"draft", "approved"} /\ region \in Regions
    BY <1>1, <1>3 DEF Flush, Plan
<1>5. edit \in 0 .. MaxEdits /\ tier \in Tiers
    BY <1>1, <1>3 DEF Plan
<1>6. Stored(q) = [plan EXCEPT !.status = status, !.region = region, !.edit = edit, !.tier = tier]
    BY <1>2 DEF Stored
<1> HIDE DEF moved, status, region, edit, tier
<1> QED
    BY <1>1, <1>4, <1>5, <1>6 DEF Plan

\* An edit's plan counts one more than the loaded one.
LEMMA EditedFacts ==
    ASSUME TypeOK, RevisionsAreCounted, NEW q \in Planners, SaveEdit(q)
    PROVE  plan' \in Plan /\ plan'.revision <= edits' + 1 /\ edits' = edits + 1 /\ edits' \in 0 .. MaxEdits
<1>1. /\ snap[q] \in Plan /\ plan \in Plan /\ edits \in 0 .. MaxEdits
      /\ edits' = edits + 1 /\ edits < MaxEdits
    BY DEF TypeOK, SaveEdit
<1>2. snap[q].revision \in Nat \ {0} /\ snap[q].revision <= edits + 1
    BY <1>1, BoundsAssumption DEF Plan, Revisions, RevisionsAreCounted
<1>3. snap[q].revision + 1 \in Revisions /\ snap[q].revision + 1 <= edits' + 1 /\ edits' \in 0 .. MaxEdits
    BY <1>1, <1>2, BoundsAssumption DEF Revisions
<1>4. PICK region \in Regions, tier \in Tiers :
          plan' = [revision |-> snap[q].revision + 1, edit |-> edits',
                   region   |-> Flush(plan.region, snap[q].region, region), tier |-> tier,
                   status   |-> Flush(plan.status, snap[q].status, "draft")]
    BY DEF SaveEdit
<1>5. /\ Flush(plan.region, snap[q].region, region) \in Regions
      /\ Flush(plan.status, snap[q].status, "draft") \in {"draft", "approved"}
    BY <1>1 DEF Flush, Plan
<1>6. plan' \in Plan /\ plan'.revision = snap[q].revision + 1
    BY <1>3, <1>4, <1>5 DEF Plan
<1> QED
    BY <1>1, <1>3, <1>6

-----------------------------------------------------------------------------
(* Steps that leave part of the state alone keep what is said of it. *)

\* Only requests on the plan change the plan, its edits and what they have loaded.
LEMMA PlanFrame ==
    ASSUME RevisionsAreCounted, UNCHANGED <<planVars, snap>>
    PROVE  RevisionsAreCounted'
BY DEF RevisionsAreCounted, planVars

\* Bindings, evidence and approvals of runs.
LEMMA RecordFrame ==
    ASSUME RunsAreReviewed, ConsentsHold, OneConsent, ApprovalsStand,
           UNCHANGED <<reviewed, runs, result, consent, approval, cost>>
    PROVE  RunsAreReviewed' /\ ConsentsHold' /\ OneConsent' /\ ApprovalsStand'
BY DEF RunsAreReviewed, ConsentsHold, Consents, OneConsent, ApprovalsStand

\* What saved plans are for, as long as no generation command is queued.
LEMMA TargetsFrame ==
    ASSUME TargetsAgree, UNCHANGED <<runs, result, jobVars>>,
           \A r \in Revisions : Queued(r)' <=> Queued(r)
    PROVE  TargetsAgree'
BY DEF TargetsAgree, jobVars

LEMMA AppliedFrame ==
    ASSUME AppliesHappened, UNCHANGED <<runs, events, approval, result, applied>>
    PROVE  AppliesHappened'
BY DEF AppliesHappened, Reported, Happened

\* Events other than an apply's report add nothing that must have happened.
LEMMA FailureFrame ==
    ASSUME TypeOK, AppliesHappened, UNCHANGED <<runs, approval, result, applied>>, NEW r \in Revisions,
           NEW event \in {"planned", "failed"}, Emit(r, event)
    PROVE  AppliesHappened' /\ events' \in [Revisions -> Seq({"planned", "applied", "failed"})]
<1>1. /\ events' \in [Revisions -> Seq({"planned", "applied", "failed"})]
      /\ \A s \in Revisions : Reported(s)' => Reported(s)
    BY EmitFacts DEF TypeOK
<1> QED
    BY <1>1 DEF AppliesHappened, Happened

-----------------------------------------------------------------------------
(* Requests on the plan and the target. *)

LEMMA ConnectStep == ASSUME IInv, Connect PROVE IInv'
<1>1. TypeOK'
    BY BoundsAssumption DEF IInv, TypeOK, Connect, planVars, requestVars, recordVars, evidenceVars, jobVars, brokerVars
<1>2. UNCHANGED <<planVars, snap, consent, runs, result, cost, approval, jobVars, outbox, events, applied>>
    BY DEF Connect, requestVars, recordVars, evidenceVars, brokerVars
<1> QED
    BY <1>1, <1>2, PlanFrame, RecordFrame, TargetsFrame, AppliedFrame DEF IInv, Sound, Queued, planVars

LEMMA LoadPlanStep == ASSUME IInv, NEW q \in Planners, LoadPlan(q) PROVE IInv'
<1>1. TypeOK'
    BY DEF IInv, TypeOK, LoadPlan, planVars, targetVars, recordVars, evidenceVars, jobVars, brokerVars
<1>2. UNCHANGED <<planVars, consent, runs, result, cost, approval, jobVars, outbox, events, applied>>
    BY DEF LoadPlan, recordVars, evidenceVars, brokerVars
<1>3. snap' = [snap EXCEPT ![q] = plan] /\ snap \in [Planners -> Plan \cup {NotLoaded}]
    BY DEF IInv, TypeOK, LoadPlan
<1>4. RevisionsAreCounted'
    BY <1>2, <1>3 DEF IInv, Sound, RevisionsAreCounted, planVars
<1> QED
    BY <1>1, <1>2, <1>4, RecordFrame, TargetsFrame, AppliedFrame DEF IInv, Sound, Queued, planVars

\* A request that has answered has nothing loaded.
LEMMA RespondFacts ==
    ASSUME TypeOK, RevisionsAreCounted, NEW q \in Planners, Respond(q)
    PROVE  /\ snap' \in [Planners -> Plan \cup {NotLoaded}] /\ consent' = consent
           /\ \A p \in Planners : snap'[p].revision <= edits + 1
<1>1. snap' = [snap EXCEPT ![q] = NotLoaded] /\ consent' = consent
    BY DEF Respond
<1>2. edits \in Nat /\ NotLoaded.revision <= edits + 1
    BY FirstValues, BoundsAssumption DEF TypeOK
<1> QED
    BY <1>1, <1>2 DEF TypeOK, RevisionsAreCounted

LEMMA SaveEditStep == ASSUME IInv, NEW q \in Planners, SaveEdit(q) PROVE IInv'
<1>1. /\ plan' \in Plan /\ plan'.revision <= edits' + 1
      /\ edits \in Nat /\ edits' = edits + 1 /\ edits' \in 0 .. MaxEdits
    BY EditedFacts DEF IInv, Sound, TypeOK
<1>2. /\ snap' \in [Planners -> Plan \cup {NotLoaded}] /\ consent' = consent
      /\ \A p \in Planners : snap'[p].revision <= edits + 1
    BY RespondFacts DEF IInv, Sound, SaveEdit
<1>3. \A p \in Planners : snap'[p].revision \in Nat
    BY <1>2, FirstValues, BoundsAssumption DEF Plan, Revisions
<1>4. UNCHANGED <<reviewed, target, connects, runs, result, cost, fresh, approval, jobTarget, orphaned,
                  outbox, accepted, queue, planJobs, events, applied, faults>>
    BY DEF SaveEdit, targetVars, recordVars, evidenceVars, jobVars, brokerVars
<1>5. TypeOK'
    BY <1>1, <1>2, <1>4 DEF IInv, TypeOK
<1>6. RevisionsAreCounted'
    BY <1>1, <1>2, <1>3 DEF RevisionsAreCounted
<1> QED
    BY <1>2, <1>4, <1>5, <1>6, RecordFrame, TargetsFrame, AppliedFrame DEF IInv, Sound, Queued, jobVars

\* A command is queued for the target of the run it is queued with; a run committed
\* without its command is noted as such.
LEMMA ApprovePlanTargets ==
    ASSUME TypeOK, TargetsAgree, NEW q \in Planners, ApprovePlan(q)
    PROVE  TargetsAgree' /\ orphaned' \subseteq Revisions
<1> DEFINE mem == Aligned(snap[q])
           r == mem.revision
           generation == <<"generation", r>>
           new == [status |-> "open", digest |-> Digest(mem, "clean"), target |-> target]
<1>1. /\ snap[q] \in Plan /\ target \in Targets \cup {NoTarget} /\ orphaned \subseteq Revisions
      /\ runs \in [Revisions -> Run] /\ jobTarget \in [Revisions -> Targets \cup {NoTarget}]
      /\ outbox \in [Commands -> {"none", "pending", "sent"}]
    BY DEF TypeOK, ApprovePlan
<1>2. mem \in Plan /\ r \in Revisions
    BY <1>1, AlignedFacts DEF Plan
<1>3. UNCHANGED result
    BY DEF ApprovePlan
<1>4. CASE ApproveOnly(q) \/ (FailToQueue(q) /\ UNCHANGED <<runs, orphaned>>)
    <2>1. UNCHANGED <<runs, result, jobVars, outbox>>
        BY <1>3, <1>4 DEF ApproveOnly, FailToQueue, jobVars
    <2> QED
        BY <1>1, <2>1, TargetsFrame DEF Queued, jobVars
<1>5. CASE QueueGeneration(q)
    <2>1. /\ target # NoTarget /\ UNCHANGED orphaned
          /\ runs' = IF runs[r].status = "none" THEN [runs EXCEPT ![r] = new] ELSE runs
          /\ IF outbox[generation] = "none"
             THEN /\ outbox' = [outbox EXCEPT ![generation] = "pending"]
                  /\ jobTarget' = [jobTarget EXCEPT ![r] = target]
             ELSE UNCHANGED <<outbox, jobTarget>>
        BY <1>5 DEF QueueGeneration, CreateRun, EnqueueGeneration
    <2>2. new.status = "open" /\ new.target = target
        OBVIOUS
    <2>3. generation \in Commands /\ \A s \in Revisions : <<"generation", s>> \in Commands
        BY <1>2 DEF Commands
    <2>4. \A s \in Revisions : s # r => generation # <<"generation", s>>
        OBVIOUS
    <2> HIDE DEF new, r, mem
    <2>5. CASE outbox[generation] = "none"
        <3>1. jobTarget[r] = NoTarget /\ result[r] = NoTarget
            BY <1>2, <2>5 DEF TargetsAgree, Queued
        <3>2. outbox'[generation] = "pending" /\ jobTarget'[r] = target
            BY <1>1, <1>2, <2>1, <2>3, <2>5
        <3>3. \A s \in Revisions : s # r =>
                  outbox'[<<"generation", s>>] = outbox[<<"generation", s>>] /\ jobTarget'[s] = jobTarget[s]
            BY <1>1, <2>1, <2>3, <2>4, <2>5
        <3>4. /\ runs'[r].status # "none" /\ (runs'[r].target = target \/ runs'[r] = runs[r])
              /\ \A s \in Revisions : s # r => runs'[s] = runs[s]
            BY <1>1, <1>2, <2>1, <2>2
        <3>5. ASSUME NEW s \in Revisions, s # r
              PROVE  /\ Queued(s)' <=> jobTarget'[s] # NoTarget
                     /\ runs'[s].status = "none" => jobTarget'[s] = NoTarget
                     /\ runs'[s].target # NoTarget => s \in orphaned' \/ jobTarget'[s] = runs'[s].target
                     /\ result'[s] = NoTarget \/ result'[s] = jobTarget'[s]
            BY <1>3, <2>1, <3>3, <3>4, <3>5 DEF TargetsAgree, Queued
        <3>6. ASSUME NEW s \in Revisions, s = r
              PROVE  /\ Queued(s)' <=> jobTarget'[s] # NoTarget
                     /\ runs'[s].status = "none" => jobTarget'[s] = NoTarget
                     /\ runs'[s].target # NoTarget => s \in orphaned' \/ jobTarget'[s] = runs'[s].target
                     /\ result'[s] = NoTarget \/ result'[s] = jobTarget'[s]
            BY <1>3, <2>1, <3>1, <3>2, <3>4, <3>6 DEF TargetsAgree, Queued
        <3> QED
            BY <1>1, <2>1, <3>5, <3>6 DEF TargetsAgree
    <2>6. CASE outbox[generation] # "none"
        <3>1. runs[r].status # "none"
            BY <1>2, <2>6 DEF TargetsAgree, Queued
        <3>2. UNCHANGED <<runs, result, jobVars, outbox>>
            BY <1>3, <2>1, <2>6, <3>1 DEF jobVars
        <3> QED
            BY <1>1, <3>2, TargetsFrame DEF Queued, jobVars
    <2> QED
        BY <2>5, <2>6
<1>6. CASE FailToQueue(q) /\ \E mark \in Marks : RecordFailure(mem, mark) /\ UNCHANGED orphaned
    <2>1. PICK mark \in Marks : RecordFailure(mem, mark) /\ UNCHANGED orphaned
        BY <1>6
    <2>2. UNCHANGED <<outbox, jobTarget>>
        BY <1>6 DEF FailToQueue
    <2>3. PICK digest, failed :
              /\ failed = [status |-> "failed", digest |-> digest, target |-> NoTarget]
              /\ runs' = IF runs[r].status = "none" THEN [runs EXCEPT ![r] = failed]
                         ELSE IF runs[r].digest = digest THEN [runs EXCEPT ![r].status = "failed"] ELSE runs
        BY <2>1 DEF RecordFailure
    <2> HIDE DEF new, r, mem
    <2>4. PICK other : other = [runs[r] EXCEPT !.status = "failed"]
        OBVIOUS
    <2>5. other.status = "failed" /\ other.target = runs[r].target
        BY <1>1, <1>2, <2>4 DEF Run
    <2>6. runs' \in {runs, [runs EXCEPT ![r] = failed], [runs EXCEPT ![r] = other]}
        BY <2>3, <2>4
    <2>7. \A s \in Revisions : /\ runs'[s].status = "none" => runs[s].status = "none"
                               /\ runs'[s].target = NoTarget \/ runs'[s].target = runs[s].target
        BY <1>1, <1>2, <2>3, <2>5, <2>6
    <2> QED
        BY <1>1, <1>3, <2>1, <2>2, <2>7 DEF TargetsAgree, Queued
<1>7. CASE FailToQueue(q) /\ CreateRun(r, "open", Digest(mem, "clean"), target) /\ orphaned' = orphaned \cup {r}
    <2>1. UNCHANGED <<outbox, jobTarget>>
        BY <1>7 DEF FailToQueue
    <2>2. runs' = IF runs[r].status = "none" THEN [runs EXCEPT ![r] = new] ELSE runs
        BY <1>7 DEF CreateRun
    <2>3. new.status = "open"
        OBVIOUS
    <2> HIDE DEF new, r, mem
    <2>4. /\ \A s \in Revisions : s # r => runs'[s] = runs[s]
          /\ runs'[r].status = "none" => runs[r].status = "none"
        BY <1>1, <1>2, <2>2, <2>3
    <2> QED
        BY <1>1, <1>2, <1>3, <1>7, <2>1, <2>4 DEF TargetsAgree, Queued
<1> QED
    BY <1>4, <1>5, <1>6, <1>7 DEF ApprovePlan, FailToQueue, Marks

LEMMA ApprovePlanKeeps == ASSUME IInv, NEW q \in Planners, ApprovePlan(q) PROVE IInv'
<1> DEFINE edit == snap[q].edit
<1>1. /\ Becomes(edit) /\ outbox' \in [Commands -> {"none", "pending", "sent"}]
      /\ jobTarget' \in [Revisions -> Targets \cup {NoTarget}] /\ faults' \in 0 .. MaxFaults
    BY ApprovePlanStep DEF IInv
<1>2. plan' \in Plan /\ plan'.revision = plan.revision
    BY StoredFacts DEF IInv, ApprovePlan
<1>3. /\ snap' \in [Planners -> Plan \cup {NotLoaded}] /\ consent' = consent
      /\ \A p \in Planners : snap'[p].revision <= edits + 1
    BY RespondFacts DEF IInv, Sound, ApprovePlan
<1>4. UNCHANGED <<edits, target, connects, result, cost, fresh, approval, accepted, queue, planJobs, events, applied>>
    BY DEF ApprovePlan, targetVars, evidenceVars, brokerVars
<1>13. TargetsAgree' /\ orphaned' \subseteq Revisions
    BY ApprovePlanTargets DEF IInv, Sound
<1>5. reviewed' = reviewed \cup {edit} /\ edit \in 0 .. MaxEdits
    BY DEF IInv, TypeOK, ApprovePlan, Plan
<1>6. TypeOK'
    BY <1>1, <1>2, <1>3, <1>4, <1>5, <1>13 DEF IInv, TypeOK, Becomes
<1>7. RevisionsAreCounted'
    BY <1>2, <1>3, <1>4 DEF IInv, Sound, RevisionsAreCounted
<1>8. ASSUME NEW r \in Revisions
      PROVE  /\ runs'[r].status # "none"
                => runs'[r].digest.edit \in reviewed'
             /\ runs'[r].status = "none" => runs'[r].target = NoTarget
             /\ runs'[r].status = "completed" => runs[r].status = "completed"
             /\ runs[r].target # NoTarget => runs'[r].target = runs[r].target
    <2>1. /\ runs[r].status # "none" => runs[r].digest.edit \in reviewed
          /\ runs[r].status = "none" => runs[r].target = NoTarget
        BY DEF IInv, Sound, RunsAreReviewed
    <2>2. CASE Kept(r)
        BY <1>5, <2>1, <2>2 DEF Kept
    <2>3. CASE Created(r, edit)
        BY <1>5, <2>1, <2>3 DEF Created
    <2>4. CASE Failed(r)
        BY <1>5, <2>1, <2>4 DEF Failed
    <2> QED
        BY <1>1, <2>2, <2>3, <2>4 DEF Becomes
<1> HIDE DEF edit
<1>9. RunsAreReviewed'
    BY <1>8 DEF RunsAreReviewed
<1>10. ConsentsHold' /\ OneConsent'
    <2>1. ASSUME NEW p \in Approvers PROVE consent'[p] = NoConsent \/ Consents(p)'
        <3>1. CASE consent[p] = NoConsent
            BY <1>3, <3>1
        <3>2. CASE consent[p] # NoConsent
            <4>1. Consents(p) /\ consent[p].revision \in Revisions
                BY <3>2 DEF IInv, Sound, ConsentsHold, TypeOK
            <4> QED
                BY <1>3, <1>4, <1>8, <4>1 DEF Consents
        <3> QED
            BY <3>1, <3>2
    <2> QED
        BY <1>3, <2>1 DEF IInv, Sound, ConsentsHold, OneConsent
<1>11. ApprovalsStand'
    BY <1>4, <1>8 DEF IInv, Sound, ApprovalsStand
<1>12. AppliesHappened'
    BY <1>4, <1>8 DEF IInv, Sound, AppliesHappened, Reported, Happened
<1> QED
    BY <1>6, <1>7, <1>9, <1>10, <1>11, <1>12, <1>13 DEF IInv, Sound

-----------------------------------------------------------------------------
(* Evidence and approvals. *)

\* Nobody who refreshes evidence holds up an approval of the same run.
LEMMA RefreshCostStep == ASSUME IInv, NEW r \in Revisions, RefreshCost(r) PROVE IInv'
<1>1. /\ cost' = [cost EXCEPT ![r] = cost[r] + 1] /\ fresh' = fresh \cup {r}
      /\ cost[r] < MaxEvidence /\ approval[r].status = "none" /\ ~Locked(r)
    BY DEF RefreshCost
<1>2. UNCHANGED <<planVars, targetVars, requestVars, runs, result, approval, jobVars, outbox, brokerVars, applied, faults>>
    BY DEF RefreshCost
<1>3. cost[r] + 1 \in 0 .. MaxEvidence
    BY <1>1, BoundsAssumption DEF IInv, TypeOK
<1>4. TypeOK'
    BY <1>1, <1>2, <1>3 DEF IInv, TypeOK, planVars, targetVars, requestVars, jobVars, brokerVars
<1>5. RevisionsAreCounted' /\ TargetsAgree' /\ AppliesHappened'
    BY <1>2, PlanFrame, TargetsFrame, AppliedFrame DEF IInv, Sound, Queued, requestVars, brokerVars
<1>6. ApprovalsStand'
    BY <1>1, <1>2 DEF IInv, TypeOK, Sound, ApprovalsStand
<1>7. ConsentsHold'
    <2>1. ASSUME NEW p \in Approvers PROVE consent'[p] = NoConsent \/ Consents(p)'
        <3>1. CASE consent[p] = NoConsent
            BY <1>2, <3>1 DEF requestVars
        <3>2. CASE consent[p] # NoConsent
            <4>1. Consents(p) /\ consent[p].revision \in Revisions
                BY <3>2 DEF IInv, Sound, ConsentsHold, TypeOK
            <4>2. consent[p].revision # r
                BY <1>1, <4>1 DEF Locked, Consents
            <4> QED
                BY <1>1, <1>2, <4>1, <4>2 DEF IInv, TypeOK, Consents, requestVars
        <3> QED
            BY <3>1, <3>2
    <2> QED
        BY <2>1 DEF ConsentsHold
<1>8. RunsAreReviewed' /\ OneConsent'
    BY <1>2 DEF IInv, Sound, RunsAreReviewed, OneConsent, planVars, requestVars
<1> QED
    BY <1>4, <1>5, <1>6, <1>7, <1>8 DEF IInv, Sound

LEMMA AgeStep == ASSUME IInv, NEW r \in Revisions, Age(r) PROVE IInv'
<1>1. UNCHANGED <<planVars, targetVars, requestVars, runs, result, cost, jobVars, outbox, brokerVars, applied, faults>>
    BY DEF Age
<1>2. CASE fresh' = fresh \ {r} /\ UNCHANGED approval
    <2>1. TypeOK'
        BY <1>1, <1>2 DEF IInv, TypeOK, planVars, targetVars, requestVars, jobVars, brokerVars
    <2> QED
        BY <1>1, <1>2, <2>1, PlanFrame, RecordFrame, TargetsFrame, AppliedFrame
           DEF IInv, Sound, Queued, planVars, requestVars, brokerVars
<1>3. CASE approval[r].status = "valid" /\ approval' = [approval EXCEPT ![r].status = "expired"] /\ UNCHANGED fresh
    <2>1. PICK new : new = [approval[r] EXCEPT !.status = "expired"]
        OBVIOUS
    <2>2. /\ new \in [status : {"none", "valid", "expired"}, evidence : 0 .. MaxEvidence, target : Targets \cup {NoTarget}]
          /\ new.status = "expired" /\ new.evidence = approval[r].evidence /\ new.target = approval[r].target
        BY <2>1 DEF IInv, TypeOK
    <2>3. approval' = [approval EXCEPT ![r] = new]
        BY <1>3, <2>1
    <2>4. TypeOK'
        <3>1. approval' \in [Revisions -> [status : {"none", "valid", "expired"}, evidence : 0 .. MaxEvidence,
                                          target : Targets \cup {NoTarget}]]
            BY <2>2, <2>3 DEF IInv, TypeOK
        <3>2. UNCHANGED fresh
            BY <1>3
        <3> QED
            BY <1>1, <3>1, <3>2 DEF IInv, TypeOK, planVars, targetVars, requestVars, jobVars, brokerVars
    <2>5. \A s \in Revisions : /\ approval'[s].status = "none" <=> approval[s].status = "none"
                               /\ approval'[s].evidence = approval[s].evidence
                               /\ approval'[s].target = approval[s].target
        BY <1>3, <2>2, <2>3 DEF IInv, TypeOK
    <2>6. RunsAreReviewed' /\ OneConsent' /\ RevisionsAreCounted'
        BY <1>1 DEF IInv, Sound, RunsAreReviewed, OneConsent, RevisionsAreCounted, planVars, requestVars
    <2>7. ConsentsHold'
        BY <1>1, <2>5 DEF IInv, TypeOK, Sound, ConsentsHold, Consents, requestVars
    <2>8. ApprovalsStand'
        BY <1>1, <2>5 DEF IInv, Sound, ApprovalsStand
    <2>9. AppliesHappened'
        BY <1>1, <2>5 DEF IInv, Sound, AppliesHappened, Reported, Happened, brokerVars
    <2>10. TargetsAgree'
        BY <1>1, TargetsFrame DEF IInv, Sound, Queued
    <2> QED
        BY <2>4, <2>6, <2>7, <2>8, <2>9, <2>10 DEF IInv, Sound
<1> QED
    BY <1>2, <1>3 DEF Age

LEMMA CheckApplyStep ==
    ASSUME IInv, NEW q \in Approvers, NEW r \in Revisions, CheckApply(q, r)
    PROVE  IInv'
<1> DEFINE new == [revision |-> r, evidence |-> cost[r], target |-> target]
<1>1. /\ consent' = [consent EXCEPT ![q] = new] /\ consent[q] = NoConsent /\ ~Locked(r)
      /\ target # NoTarget /\ runs[r].target = target /\ approval[r].status = "none"
      /\ result[r] # NoTarget
    BY DEF CheckApply, Approvable
<1>2. UNCHANGED <<planVars, targetVars, snap, recordVars, outbox, brokerVars, applied, faults>>
    BY DEF CheckApply
<1>3. /\ new \in [revision : Revisions, evidence : 0 .. MaxEvidence, target : Targets \cup {NoTarget}]
      /\ new.revision = r /\ new.evidence = cost[r] /\ new.target = target
    BY DEF IInv, TypeOK
<1> HIDE DEF new
<1>4. TypeOK'
    BY <1>1, <1>2, <1>3 DEF IInv, TypeOK, planVars, targetVars, recordVars, evidenceVars, jobVars, brokerVars
<1>5. consent'[q] = new /\ \A p \in Approvers \ {q} : consent'[p] = consent[p]
    BY <1>1 DEF IInv, TypeOK
<1>6. UNCHANGED <<reviewed, runs, result, approval, cost, jobVars, outbox, events, applied>>
    BY <1>2 DEF planVars, recordVars, evidenceVars, brokerVars
<1>7. ConsentsHold'
    <2>1. Consents(q)'
        BY <1>1, <1>3, <1>5, <1>6 DEF Consents
    <2>2. \A p \in Approvers \ {q} : consent'[p] = NoConsent \/ Consents(p)'
        BY <1>5, <1>6 DEF IInv, Sound, ConsentsHold, Consents
    <2> QED
        BY <2>1, <2>2 DEF ConsentsHold
<1>8. OneConsent'
    <2>1. \A p \in Approvers : consent[p].target # NoTarget => consent[p].revision # r
        BY <1>1 DEF Locked
    <2> QED
        BY <1>3, <1>5, <2>1 DEF IInv, Sound, OneConsent
<1>9. RunsAreReviewed' /\ ApprovalsStand'
    BY <1>6 DEF IInv, Sound, RunsAreReviewed, ApprovalsStand
<1> QED
    BY <1>2, <1>4, <1>6, <1>7, <1>8, <1>9, PlanFrame, TargetsFrame, AppliedFrame DEF IInv, Sound, Queued

LEMMA CommitApplyStep == ASSUME IInv, NEW q \in Approvers, CommitApply(q) PROVE IInv'
<1> DEFINE c == consent[q]
           new == [status |-> "valid", evidence |-> c.evidence, target |-> c.target]
<1>1. /\ c # NoConsent /\ approval' = [approval EXCEPT ![c.revision] = new]
      /\ outbox' = [outbox EXCEPT ![<<"apply", c.revision>>] = "pending"]
      /\ consent' = [consent EXCEPT ![q] = NoConsent]
    BY DEF CommitApply
<1>2. UNCHANGED <<planVars, targetVars, snap, runs, result, evidenceVars, jobVars, brokerVars, applied, faults>>
    BY DEF CommitApply
<1>3. /\ c.revision \in Revisions /\ c.evidence \in 0 .. MaxEvidence /\ c.target \in Targets
      /\ runs[c.revision].target = c.target /\ approval[c.revision].status = "none"
      /\ c.evidence = cost[c.revision] /\ result[c.revision] # NoTarget
    BY <1>1 DEF IInv, Sound, ConsentsHold, Consents, TypeOK
<1>4. /\ new \in [status : {"none", "valid", "expired"}, evidence : 0 .. MaxEvidence, target : Targets \cup {NoTarget}]
      /\ new.status = "valid" /\ new.evidence = c.evidence /\ new.target = c.target
    BY <1>3
<1> HIDE DEF new
<1>5. /\ NoConsent \in [revision : Revisions, evidence : 0 .. MaxEvidence, target : Targets \cup {NoTarget}]
      /\ NoConsent.target = NoTarget
    BY FirstValues, BoundsAssumption DEF NoConsent
<1>6. <<"apply", c.revision>> \in Commands
    BY <1>3 DEF Commands
<1>7. /\ consent' \in [Approvers -> [revision : Revisions, evidence : 0 .. MaxEvidence, target : Targets \cup {NoTarget}]]
      /\ approval' \in [Revisions -> [status : {"none", "valid", "expired"}, evidence : 0 .. MaxEvidence, target : Targets \cup {NoTarget}]]
      /\ outbox' \in [Commands -> {"none", "pending", "sent"}]
    BY <1>1, <1>3, <1>4, <1>5, <1>6 DEF IInv, TypeOK
<1>8. TypeOK'
    BY <1>2, <1>7 DEF IInv, TypeOK, planVars, targetVars, evidenceVars, jobVars, brokerVars
<1>9. consent'[q] = NoConsent /\ \A p \in Approvers \ {q} : consent'[p] = consent[p]
    BY <1>1 DEF IInv, TypeOK
<1>10. /\ approval'[c.revision] = new
       /\ \A r \in Revisions \ {c.revision} : approval'[r] = approval[r]
    BY <1>1, <1>3 DEF IInv, TypeOK
<1>11. c.target # NoTarget
    BY <1>3, TargetsAssumption
<1> HIDE DEF c
<1>12. ConsentsHold'
    <2>1. ASSUME NEW p \in Approvers \ {q}, consent[p] # NoConsent PROVE Consents(p)'
        <3>1. Consents(p) /\ consent[p].revision \in Revisions
            BY <2>1 DEF IInv, Sound, ConsentsHold, TypeOK
        <3>2. consent[p].revision # c.revision
            BY <1>11, <3>1 DEF IInv, Sound, OneConsent, Consents, c
        <3> QED
            BY <1>2, <1>9, <1>10, <3>1, <3>2 DEF Consents, evidenceVars
    <2> QED
        BY <1>9, <2>1 DEF ConsentsHold
<1>13. OneConsent'
    BY <1>5, <1>9 DEF IInv, Sound, OneConsent
<1>14. ApprovalsStand'
    BY <1>2, <1>3, <1>4, <1>10, <1>11 DEF IInv, Sound, ApprovalsStand, evidenceVars
<1>15. AppliesHappened'
    <2>1. \A r \in Revisions : Happened(r) => Happened(r)'
        BY <1>2, <1>3, <1>10 DEF Happened
    <2> QED
        BY <1>2, <2>1 DEF IInv, Sound, AppliesHappened, Reported, brokerVars
<1>16. RunsAreReviewed' /\ RevisionsAreCounted'
    BY <1>2 DEF IInv, Sound, RunsAreReviewed, RevisionsAreCounted, planVars
<1>17. TargetsAgree'
    <2>1. \A r \in Revisions : <<"generation", r>> \in Commands /\ <<"generation", r>> # <<"apply", c.revision>>
        BY DEF Commands
    <2>2. \A r \in Revisions : Queued(r)' <=> Queued(r)
        BY <1>1, <2>1 DEF IInv, TypeOK, Queued
    <2> QED
        BY <1>2, <2>2, TargetsFrame DEF IInv, Sound
<1> QED
    BY <1>8, <1>12, <1>13, <1>14, <1>15, <1>16, <1>17 DEF IInv, Sound

-----------------------------------------------------------------------------
(* Commands, jobs, events. *)

\* Steps of broker and functions change nothing that a record of the run says.
LEMMA BrokerFrame ==
    ASSUME IInv, TypeOK', AppliesHappened',
           UNCHANGED <<planVars, targetVars, requestVars, recordVars>>,
           UNCHANGED outbox \/ \A r \in Revisions : Queued(r)' <=> Queued(r)
    PROVE  IInv'
<1>1. \A r \in Revisions : Queued(r)' <=> Queued(r)
    BY DEF Queued
<1> QED
    BY <1>1, PlanFrame, RecordFrame, TargetsFrame DEF IInv, Sound, planVars, requestVars, recordVars, evidenceVars

LEMMA FaultFacts == ASSUME TypeOK, Fault PROVE faults' \in 0 .. MaxFaults
BY BoundsAssumption DEF TypeOK, Fault

LEMMA SettleFacts ==
    ASSUME TypeOK, NEW kind \in {"generation", "apply"}, NEW r \in Revisions, Settle(kind, r)
    PROVE  queue' \in [Commands -> 0 .. MaxDeliveries]
BY BoundsAssumption DEF TypeOK, Settle, Commands

LEMMA DispatchStep == ASSUME IInv, NEW c \in Commands, Dispatch(c) PROVE IInv'
<1>1. outbox' \in [Commands -> {"none", "pending", "sent"}]
    BY DEF IInv, TypeOK, Dispatch
<1>2. faults' \in 0 .. MaxFaults
    <2>1. UNCHANGED faults \/ Fault
        BY DEF Dispatch
    <2> QED
        BY <2>1, FaultFacts DEF IInv, TypeOK
<1>3. queue' \in [Commands -> 0 .. MaxDeliveries] /\ accepted' \subseteq Commands
    <2>1. /\ accepted' = accepted \cup {c}
          /\ queue' = [queue EXCEPT ![c] = MaxDeliveries] \/ queue' = queue
        BY DEF Dispatch
    <2>2. MaxDeliveries \in 0 .. MaxDeliveries
        BY BoundsAssumption
    <2> QED
        BY <2>1, <2>2 DEF IInv, TypeOK
<1>4. UNCHANGED <<planVars, targetVars, requestVars, recordVars, planJobs, events, applied>>
    BY DEF Dispatch
<1>5. TypeOK'
    BY <1>1, <1>2, <1>3, <1>4 DEF IInv, TypeOK, planVars, targetVars, requestVars, recordVars, evidenceVars, jobVars
<1>6. AppliesHappened'
    BY <1>4, AppliedFrame DEF IInv, Sound, recordVars
<1>7. \A r \in Revisions : Queued(r)' <=> Queued(r)
    <2>1. outbox[c] = "pending" /\ (outbox' = [outbox EXCEPT ![c] = "sent"] \/ outbox' = outbox)
        BY DEF Dispatch
    <2>2. \A r \in Revisions : <<"generation", r>> \in Commands
        BY DEF Commands
    <2> QED
        BY <2>1, <2>2 DEF IInv, TypeOK, Queued
<1> QED
    BY <1>4, <1>5, <1>6, <1>7, BrokerFrame

LEMMA GenerationPlansStep == ASSUME IInv, NEW r \in Revisions, GenerationPlans(r) PROVE IInv'
<1>1. queue' \in [Commands -> 0 .. MaxDeliveries] /\ planJobs' \subseteq Revisions
    BY SettleFacts DEF IInv, TypeOK, GenerationPlans
<1>2. UNCHANGED <<accepted, events, planVars, targetVars, requestVars, recordVars, outbox, applied, faults>>
    BY DEF GenerationPlans
<1>3. TypeOK'
    BY <1>1, <1>2 DEF IInv, TypeOK, planVars, targetVars, requestVars, recordVars, evidenceVars, jobVars
<1>4. AppliesHappened'
    BY <1>2, AppliedFrame DEF IInv, Sound, recordVars
<1> QED
    BY <1>2, <1>3, <1>4, BrokerFrame

LEMMA GenerationBlockedStep == ASSUME IInv, NEW r \in Revisions, GenerationBlocked(r) PROVE IInv'
<1>1. queue' \in [Commands -> 0 .. MaxDeliveries] /\ faults' \in 0 .. MaxFaults
    BY SettleFacts, FaultFacts DEF IInv, GenerationBlocked
<1>2. UNCHANGED <<accepted, planJobs, planVars, targetVars, requestVars, recordVars, outbox, applied>>
    BY DEF GenerationBlocked
<1>3. AppliesHappened' /\ events' \in [Revisions -> Seq({"planned", "applied", "failed"})]
    BY <1>2, FailureFrame DEF IInv, Sound, GenerationBlocked, recordVars
<1>4. TypeOK'
    BY <1>1, <1>2, <1>3 DEF IInv, TypeOK, planVars, targetVars, requestVars, recordVars, evidenceVars, jobVars
<1> QED
    BY <1>2, <1>3, <1>4, BrokerFrame

LEMMA GenerationFailsStep == ASSUME IInv, NEW r \in Revisions, GenerationFails(r) PROVE IInv'
<1>1. queue' \in [Commands -> 0 .. MaxDeliveries]
    <2>1. /\ queue' = [queue EXCEPT ![<<"generation", r>>] = queue[<<"generation", r>>] - 1]
          /\ queue[<<"generation", r>>] > 0
        BY DEF GenerationFails, Held
    <2>2. <<"generation", r>> \in Commands
        BY DEF Commands
    <2>3. queue[<<"generation", r>>] - 1 \in 0 .. MaxDeliveries
        BY <2>1, <2>2, BoundsAssumption DEF IInv, TypeOK
    <2> QED
        BY <2>1, <2>2, <2>3 DEF IInv, TypeOK
<1>2. planJobs' \subseteq Revisions /\ faults' \in 0 .. MaxFaults
    <2>1. Fault /\ planJobs' \in {planJobs, planJobs \cup {r}}
        BY DEF GenerationFails
    <2> QED
        BY <2>1, FaultFacts DEF IInv, TypeOK
<1>3. UNCHANGED <<accepted, planVars, targetVars, requestVars, recordVars, outbox, applied>>
    BY DEF GenerationFails
<1>4. AppliesHappened' /\ events' \in [Revisions -> Seq({"planned", "applied", "failed"})]
    BY <1>3, FailureFrame DEF IInv, Sound, GenerationFails, recordVars
<1>5. TypeOK'
    BY <1>1, <1>2, <1>3, <1>4 DEF IInv, TypeOK, planVars, targetVars, requestVars, recordVars, evidenceVars, jobVars
<1> QED
    BY <1>3, <1>4, <1>5, BrokerFrame

LEMMA PlanEndsStep == ASSUME IInv, NEW r \in Revisions, PlanEnds(r) PROVE IInv'
<1>1. planJobs' \subseteq Revisions /\ faults' \in 0 .. MaxFaults
    BY FaultFacts DEF IInv, TypeOK, PlanEnds
<1>2. UNCHANGED <<accepted, queue, planVars, targetVars, requestVars, recordVars, outbox, applied>>
    BY DEF PlanEnds
<1>3. Emit(r, "planned") \/ Emit(r, "failed")
    BY DEF PlanEnds
<1>4. AppliesHappened' /\ events' \in [Revisions -> Seq({"planned", "applied", "failed"})]
    BY <1>2, <1>3, FailureFrame DEF IInv, Sound, recordVars
<1>5. TypeOK'
    BY <1>1, <1>2, <1>4 DEF IInv, TypeOK, planVars, targetVars, requestVars, recordVars, evidenceVars, jobVars
<1> QED
    BY <1>2, <1>4, <1>5, BrokerFrame

\* The report of an apply follows the apply, and a report of failure may too.
LEMMA ApplyEndsStep == ASSUME IInv, NEW r \in Revisions, ApplyEnds(r) PROVE IInv'
<1>1. queue' \in [Commands -> 0 .. MaxDeliveries]
    BY SettleFacts DEF IInv, ApplyEnds
<1>2. UNCHANGED <<accepted, planJobs, planVars, targetVars, requestVars, recordVars, outbox>>
    BY DEF ApplyEnds
<1>3. PICK event \in {"planned", "applied", "failed"} : Emit(r, event) /\ (event = "applied" => Happened(r)')
    <2>1. CASE Emit(r, "failed")
        BY <2>1
    <2>2. CASE ~Emit(r, "failed")
        <3>1. /\ Emit(r, "applied") /\ approval[r].status = "valid"
              /\ applied' = applied \cup {[run |-> r, target |-> result[r]]}
            BY <2>2 DEF ApplyEnds
        <3>2. Happened(r)'
            BY <1>2, <3>1 DEF Happened, recordVars
        <3> QED
            BY <3>1, <3>2
    <2> QED
        BY <2>1, <2>2
<1>4. applied \subseteq applied' /\ applied' \subseteq [run : Revisions, target : Targets] /\ faults' \in 0 .. MaxFaults
    <2>1. CASE /\ approval[r].status = "valid"
               /\ applied' = applied \cup {[run |-> r, target |-> result[r]]}
               /\ UNCHANGED faults \/ Fault
        <3>1. result[r] \in Targets
            BY <2>1 DEF IInv, TypeOK, Sound, ApprovalsStand
        <3>2. [run |-> r, target |-> result[r]] \in [run : Revisions, target : Targets]
            BY <3>1
        <3>3. faults' \in 0 .. MaxFaults
            BY <2>1, FaultFacts DEF IInv, TypeOK
        <3> QED
            BY <2>1, <3>2, <3>3 DEF IInv, TypeOK
    <2>2. CASE UNCHANGED applied /\ (UNCHANGED faults \/ Fault)
        BY <2>2, FaultFacts DEF IInv, TypeOK
    <2> QED
        BY <2>1, <2>2 DEF ApplyEnds
<1>5. /\ events' \in [Revisions -> Seq({"planned", "applied", "failed"})]
      /\ \A s \in Revisions : Reported(s)' => Reported(s) \/ (s = r /\ event = "applied")
    BY <1>3, EmitFacts DEF IInv, TypeOK
<1>6. TypeOK'
    BY <1>1, <1>2, <1>4, <1>5 DEF IInv, TypeOK, planVars, targetVars, requestVars, recordVars, evidenceVars, jobVars
<1>7. AppliesHappened'
    <2>1. \A s \in Revisions : Happened(s) => Happened(s)'
        BY <1>2, <1>4 DEF Happened, recordVars
    <2> QED
        BY <1>2, <1>3, <1>5, <2>1 DEF IInv, Sound, AppliesHappened, recordVars
<1> QED
    BY <1>2, <1>6, <1>7, BrokerFrame

\* What is left of the events after the first.
LEMMA TailFacts ==
    ASSUME NEW r \in Revisions, events \in [Revisions -> Seq({"planned", "applied", "failed"})],
           events[r] # <<>>, events' = [events EXCEPT ![r] = Tail(events[r])]
    PROVE  /\ events' \in [Revisions -> Seq({"planned", "applied", "failed"})]
           /\ Head(events[r]) \in {"planned", "applied", "failed"}
           /\ Head(events[r]) = "applied" => Reported(r)
           /\ \A s \in Revisions : Reported(s)' => Reported(s)
<1> DEFINE Events == {"planned", "applied", "failed"}
<1> HIDE DEF Events
<1>1. events \in [Revisions -> Seq(Events)] /\ events[r] \in Seq(Events)
    BY DEF Events
<1>2. /\ Tail(events[r]) \in Seq(Events) /\ Len(Tail(events[r])) = Len(events[r]) - 1
      /\ \A i \in 1 .. Len(Tail(events[r])) : Tail(events[r])[i] = events[r][i + 1]
      /\ Head(events[r]) \in Events /\ Head(events[r]) = events[r][1] /\ 1 \in 1 .. Len(events[r])
    BY <1>1
<1>3. events' \in [Revisions -> Seq(Events)]
    BY <1>1, <1>2
<1>4. ASSUME NEW s \in Revisions, Reported(s)' PROVE Reported(s)
    <2>1. PICK i \in 1 .. Len(events'[s]) : events'[s][i] = "applied"
        BY <1>4 DEF Reported
    <2>2. CASE s # r
        BY <1>1, <2>1, <2>2 DEF Reported
    <2>3. CASE s = r
        <3>1. events'[r] = Tail(events[r])
            BY <1>1
        <3>2. i + 1 \in 1 .. Len(events[r]) /\ events[r][i + 1] = "applied"
            BY <1>1, <1>2, <2>1, <2>3, <3>1
        <3> QED
            BY <2>3, <3>2 DEF Reported
    <2> QED
        BY <2>2, <2>3
<1> QED
    BY <1>2, <1>3, <1>4 DEF Events, Reported

LEMMA ProjectStep == ASSUME IInv, NEW r \in Revisions, Project(r) PROVE IInv'
<1>1. PICK event : event = Head(events[r])
    OBVIOUS
<1>2. /\ events[r] # <<>> /\ events' = [events EXCEPT ![r] = Tail(events[r])]
      /\ runs' = IF runs[r].status = "open" /\ event # "planned"
                 THEN [runs EXCEPT ![r].status = IF event = "applied" THEN "completed" ELSE "failed"]
                 ELSE runs
      /\ result' = IF event = "planned" /\ result[r] = NoTarget
                   THEN [result EXCEPT ![r] = jobTarget[r]] ELSE result
    BY <1>1 DEF Project
<1>3. UNCHANGED <<evidenceVars, approval, jobVars, accepted, queue, planJobs, planVars, targetVars, requestVars, outbox, applied, faults>>
    BY DEF Project
<1>4. /\ events' \in [Revisions -> Seq({"planned", "applied", "failed"})]
      /\ event \in {"planned", "applied", "failed"} /\ (event = "applied" => Reported(r))
      /\ \A s \in Revisions : Reported(s)' => Reported(s)
    BY <1>1, <1>2, TailFacts DEF IInv, TypeOK
<1>5. PICK new : new = [runs[r] EXCEPT !.status = IF event = "applied" THEN "completed" ELSE "failed"]
    OBVIOUS
<1>6. /\ runs[r].status = "open" /\ event # "planned" => runs' = [runs EXCEPT ![r] = new]
      /\ ~(runs[r].status = "open" /\ event # "planned") => runs' = runs
    BY <1>2, <1>5
<1>7. /\ new \in Run /\ new.digest = runs[r].digest /\ new.target = runs[r].target
      /\ new.status \in {"completed", "failed"} /\ (new.status = "completed" => event = "applied")
    BY <1>5 DEF IInv, TypeOK, Run
<1>8. /\ runs' \in [Revisions -> Run]
      /\ \A s \in Revisions : /\ runs'[s].digest = runs[s].digest /\ runs'[s].target = runs[s].target
                              /\ (runs'[s].status = "none" <=> runs[s].status = "none")
                              /\ runs'[s].status = "completed" => runs[s].status = "completed" \/ Reported(s)
    <2>1. CASE runs[r].status = "open" /\ event # "planned"
        BY <1>4, <1>6, <1>7, <2>1 DEF IInv, TypeOK
    <2>2. CASE ~(runs[r].status = "open" /\ event # "planned")
        BY <1>6, <2>2 DEF IInv, TypeOK
    <2> QED
        BY <2>1, <2>2
<1>9. /\ result' \in [Revisions -> Targets \cup {NoTarget}]
      /\ \A s \in Revisions : result'[s] = result[s] \/ (result[s] = NoTarget /\ result'[s] = jobTarget[s])
    BY <1>2 DEF IInv, TypeOK
<1>10. TypeOK'
    BY <1>3, <1>4, <1>8, <1>9 DEF IInv, TypeOK, planVars, targetVars, requestVars, evidenceVars, jobVars
<1>11. RevisionsAreCounted' /\ OneConsent'
    BY <1>3 DEF IInv, Sound, RevisionsAreCounted, OneConsent, planVars, requestVars
<1>12. RunsAreReviewed'
    BY <1>3, <1>8 DEF IInv, Sound, RunsAreReviewed, planVars
<1>13. ConsentsHold'
    BY <1>3, <1>8, <1>9 DEF IInv, TypeOK, Sound, ConsentsHold, Consents, requestVars, evidenceVars
<1>14. ApprovalsStand'
    BY <1>3, <1>8, <1>9 DEF IInv, Sound, ApprovalsStand, evidenceVars
<1>15. AppliesHappened'
    BY <1>3, <1>4, <1>8, <1>9 DEF IInv, Sound, ApprovalsStand, AppliesHappened, Happened
<1>16. TargetsAgree'
    BY <1>3, <1>8, <1>9 DEF IInv, Sound, TargetsAgree, Queued, jobVars
<1> QED
    BY <1>10, <1>11, <1>12, <1>13, <1>14, <1>15, <1>16 DEF IInv, Sound

-----------------------------------------------------------------------------
(* Theorems. *)

LEMMA Initially == Init => IInv
<1> SUFFICES ASSUME Init PROVE IInv
    OBVIOUS
<1> USE DEF Init
<1>1. /\ plan \in Plan /\ edits \in 0 .. MaxEdits /\ reviewed \subseteq 0 .. MaxEdits
      /\ target \in Targets \cup {NoTarget} /\ connects \in 0 .. MaxConnects
      /\ snap \in [Planners -> Plan \cup {NotLoaded}] /\ runs \in [Revisions -> Run]
    BY FirstValues, BoundsAssumption
<1>2. consent \in [Approvers -> [revision : Revisions, evidence : 0 .. MaxEvidence, target : Targets \cup {NoTarget}]]
    BY FirstValues, BoundsAssumption DEF NoConsent
<1>3. /\ approval \in [Revisions -> [status : {"none", "valid", "expired"}, evidence : 0 .. MaxEvidence, target : Targets \cup {NoTarget}]]
      /\ cost \in [Revisions -> 0 .. MaxEvidence] /\ fresh \subseteq Revisions
    BY BoundsAssumption DEF NoApproval
<1>4. /\ result \in [Revisions -> Targets \cup {NoTarget}] /\ jobTarget \in [Revisions -> Targets \cup {NoTarget}]
      /\ orphaned \subseteq Revisions
      /\ outbox \in [Commands -> {"none", "pending", "sent"}] /\ accepted \subseteq Commands
      /\ queue \in [Commands -> 0 .. MaxDeliveries] /\ planJobs \subseteq Revisions
      /\ applied \subseteq [run : Revisions, target : Targets] /\ faults \in 0 .. MaxFaults
    BY BoundsAssumption
<1>5. events \in [Revisions -> Seq({"planned", "applied", "failed"})]
    OBVIOUS
<1>6. TypeOK
    BY <1>1, <1>2, <1>3, <1>4, <1>5 DEF TypeOK
<1>7. RevisionsAreCounted
    BY FirstValues DEF RevisionsAreCounted, FirstPlan
<1>8. RunsAreReviewed /\ ApprovalsStand
    BY FirstValues DEF RunsAreReviewed, ApprovalsStand
<1>9. ConsentsHold /\ OneConsent
    BY FirstValues DEF ConsentsHold, OneConsent
<1>10. AppliesHappened
    BY FirstValues DEF AppliesHappened, Reported
<1>11. TargetsAgree
    BY FirstValues DEF TargetsAgree, Queued, Commands
<1> QED
    BY <1>6, <1>7, <1>8, <1>9, <1>10, <1>11 DEF IInv, Sound

LEMMA Stutter == IInv /\ UNCHANGED vars => IInv'
<1> SUFFICES ASSUME IInv, UNCHANGED vars PROVE IInv'
    OBVIOUS
<1>1. UNCHANGED <<planVars, targetVars, requestVars, recordVars, outbox, accepted, queue, planJobs, events, applied, faults>>
    BY DEF vars, brokerVars
<1>2. TypeOK'
    BY <1>1 DEF IInv, TypeOK, planVars, targetVars, requestVars, recordVars, evidenceVars, jobVars
<1>3. AppliesHappened'
    BY <1>1, AppliedFrame DEF IInv, Sound, recordVars
<1> QED
    BY <1>1, <1>2, <1>3, BrokerFrame

LEMMA StageStep == ASSUME IInv, NEW r \in Revisions, Stage(r) PROVE IInv'
<1>1. CASE RefreshCost(r) \/ Age(r)
    BY <1>1, RefreshCostStep, AgeStep
<1>2. CASE GenerationPlans(r) \/ GenerationBlocked(r) \/ GenerationFails(r)
    BY <1>2, GenerationPlansStep, GenerationBlockedStep, GenerationFailsStep
<1>3. CASE PlanEnds(r) \/ ApplyEnds(r) \/ Project(r)
    BY <1>3, PlanEndsStep, ApplyEndsStep, ProjectStep
<1> QED
    BY <1>1, <1>2, <1>3 DEF Stage

LEMMA Steps == IInv /\ [Next]_vars => IInv'
<1> SUFFICES ASSUME IInv, [Next]_vars PROVE IInv'
    OBVIOUS
<1>1. CASE Connect
    BY <1>1, ConnectStep
<1>2. CASE \E q \in Planners : LoadPlan(q) \/ SaveEdit(q) \/ ApprovePlan(q)
    BY <1>2, LoadPlanStep, SaveEditStep, ApprovePlanKeeps
<1>3. CASE \E q \in Approvers : CommitApply(q) \/ (\E r \in Revisions : CheckApply(q, r))
    BY <1>3, CommitApplyStep, CheckApplyStep
<1>4. CASE \E r \in Revisions : Stage(r)
    BY <1>4, StageStep
<1>5. CASE \E c \in Commands : Dispatch(c)
    BY <1>5, DispatchStep
<1>6. CASE UNCHANGED vars
    BY <1>6, Stutter
<1> QED
    BY <1>1, <1>2, <1>3, <1>4, <1>5, <1>6 DEF Next

\* The inductive invariant: runs are bound to reviewed data, an approval under way
\* holds its run's rows, a given approval is of the run's target and last evidence,
\* what is reported applied was approved and is the saved plan, and that plan is for
\* the run's target unless the run was committed without its command
\* (enqueue_approved_plan, approve_and_enqueue_apply, HistoryStore.project).
THEOREM WorkflowInvariance == Spec => []IInv
<1>1. Init => IInv
    BY Initially
<1>2. IInv /\ [Next]_vars => IInv'
    BY Steps
<1> QED
    BY <1>1, <1>2, PTL DEF Spec

\* Cost evidence cannot change after approve_and_enqueue_apply has stored an approval,
\* for any number of requests that refresh it or approve at the same time.
THEOREM ApprovalsStandFor == Spec => []ApprovalsAreSound
<1>1. IInv => ApprovalsAreSound
    BY DEF IInv, Sound, ApprovalsStand, ApprovalsAreSound, EvidenceIsFrozen
<1> QED
    BY <1>1, WorkflowInvariance, PTL

\* find_completed_apply_for_plan proves an apply to a release only if it happened, of
\* the run's saved plan, on its last evidence, under an approval of the connected target
\* and of data that was approved; the plan is for another target than the connected one
\* only if the run was committed without its command.
THEOREM ProofHolds == Spec => []ProofIsExact
<1>1. IInv => ProofIsExact
    <2> DEFINE r == plan.revision
    <2> SUFFICES ASSUME IInv, Proof
                 PROVE  /\ [run |-> r, target |-> result[r]] \in applied
                        /\ result[r] = target \/ r \in orphaned
                        /\ approval[r].target = target /\ approval[r].evidence = cost[r]
                        /\ plan.edit \in reviewed
        BY DEF ProofIsExact
    <2>1. r \in Revisions /\ plan \in Plan
        BY DEF IInv, TypeOK, Plan
    <2>2. /\ runs[r].status = "completed" /\ runs[r].digest = Digest(plan, "clean")
          /\ target # NoTarget /\ runs[r].target = target
          /\ result[r] # NoTarget /\ approval[r].status # "none"
        BY DEF Proof
    <2> HIDE DEF r
    <2>3. approval[r].target = runs[r].target /\ approval[r].evidence = cost[r]
        BY <2>1, <2>2 DEF IInv, Sound, ApprovalsStand
    <2>4. Happened(r)
        BY <2>1, <2>2 DEF IInv, Sound, AppliesHappened
    <2>5. result[r] = target \/ r \in orphaned
        BY <2>1, <2>2 DEF IInv, Sound, TargetsAgree
    <2>6. runs[r].digest.edit \in reviewed
        BY <2>1, <2>2 DEF IInv, Sound, RunsAreReviewed
    <2>7. runs[r].digest.edit = plan.edit
        BY <2>1, <2>2, DigestFacts DEF Marks
    <2> QED
        BY <2>2, <2>3, <2>4, <2>5, <2>6, <2>7 DEF Happened
<1> QED
    BY <1>1, WorkflowInvariance, PTL

=============================================================================
