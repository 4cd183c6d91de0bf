-------------------------- MODULE TerraformWorkflow --------------------------
(***************************************************************************)
(* The plan-bound Terraform workflow of one project: the architecture plan *)
(* and the Azure target in the API (backend/main.py), the operation run,   *)
(* cost evidence and approval (services/terraform_workflow.py), the        *)
(* generation function (functions/terraform_generation), and what the      *)
(* outbox (WorkflowOutbox), the worker (TerraformExecutor) and the history *)
(* (HistoryProjection) do to them.                                         *)
(*                                                                         *)
(* A plan's digest covers its revision, region and data; of the data the   *)
(* model keeps which edit it stems from, the application's hosting tier    *)
(* and the error mark that a failed approval leaves in memory.  API        *)
(* requests load the plan, wait, and write back the columns they changed:  *)
(* SQLAlchemy leaves a column alone that is assigned the value it had.     *)
(***************************************************************************)
EXTENDS Naturals, Sequences, FiniteSets

CONSTANTS
    Planners,       \* API requests on the plan that can be open at the same time
    Approvers,      \* API requests that approve an apply
    Targets,        \* verified App Service targets (fingerprints)
    NoTarget,       \* disconnected
    RegionOf,       \* region of a target
    HostingOf,      \* its existing App Service plan
    Unplanned,      \* the tier of a plan made without a target
    DefaultRegion,
    MaxEdits,       \* bound: edits of the plan
    MaxConnects,    \* bound: changes of the target
    MaxChanges,     \* bound: edits and changes of the target together
    MaxEvidence,    \* bound: cost evidence issued for a run
    MaxDeliveries,  \* max_delivery_count of the queues
    MaxFaults       \* bound: failed sends, crashes, a store or a job that fails

ASSUME TargetsAssumption ==
    /\ NoTarget \notin Targets
    /\ \A t \in Targets : HostingOf[t] # Unplanned
ASSUME BoundsAssumption ==
    /\ MaxEdits \in Nat /\ MaxConnects \in Nat /\ MaxChanges \in Nat /\ MaxEvidence \in Nat \ {0}
    /\ MaxDeliveries \in Nat \ {0} /\ MaxFaults \in Nat

Revisions == 1 .. MaxEdits + 1
Regions == {RegionOf[t] : t \in Targets} \cup {DefaultRegion}
Tiers == {HostingOf[t] : t \in Targets} \cup {Unplanned}
Marks == {"clean", "store", "tier"}
Commands == {"generation", "apply"} \X Revisions

Plan == [revision : Revisions, edit : 0 .. MaxEdits, region : Regions, tier : Tiers, status : {"draft", "approved"}]
Digest(p, mark) == [revision |-> p.revision, edit |-> p.edit, region |-> p.region, tier |-> p.tier, mark |-> mark]
Digests == [revision : Revisions, edit : 0 .. MaxEdits, region : Regions, tier : Tiers, mark : Marks]

VARIABLES
    plan,        \* infrastructure_plans
    target,      \* the active user_azure_connections row
    edits, connects,
    reviewed,    \* edits of the plan that an approval was given to
    snap,        \* the plan that each plan request has loaded
    consent,     \* each apply approval under way: its run, evidence and target
    runs,        \* operation_runs by revision: the idempotency key is plan:revision
    result,      \* terraform_plan_results: the target its saved plan is for, NoTarget: no row
    cost,        \* number of a run's last cost evidence, 0: none
    fresh,       \* runs whose last cost evidence is within its age
    approval,    \* terraform_apply_approvals: status, the evidence's number, the target
    jobTarget,   \* the target that the generation command's input variables name
    orphaned,    \* runs committed without their generation command
    outbox,      \* workflow_outbox_messages
    accepted,    \* commands the broker has accepted before
    queue,       \* deliveries left of the commands that the broker holds
    planJobs,    \* plan jobs waiting for the worker
    events,      \* workflow events of each run not projected yet
    applied,     \* what really happened in Azure: the run applied and its target
    faults

planVars    == <<plan, edits, reviewed>>
targetVars  == <<target, connects>>
requestVars == <<snap, consent>>
evidenceVars == <<cost, fresh>>
jobVars     == <<jobTarget, orphaned>>
recordVars  == <<runs, result, evidenceVars, approval, jobVars>>
brokerVars  == <<accepted, queue, planJobs, events>>
vars == <<planVars, targetVars, requestVars, recordVars, outbox, brokerVars, applied, faults>>

FirstPlan == [revision |-> 1, edit |-> 0, region |-> DefaultRegion, tier |-> Unplanned, status |-> "draft"]
NoRun == [status |-> "none", digest |-> Digest(FirstPlan, "clean"), target |-> NoTarget]
Run == [status : {"none", "open", "failed", "completed"}, digest : Digests, target : Targets \cup {NoTarget}]
NotLoaded == [FirstPlan EXCEPT !.status = "none"]
NoConsent == [revision |-> 1, evidence |-> 0, target |-> NoTarget]
NoApproval == [status |-> "none", evidence |-> 0, target |-> NoTarget]

\* generate_infrastructure_plan made revision 1 before a target was connected.
Init ==
    /\ plan = FirstPlan
    /\ edits = 0 /\ reviewed = {}
    /\ target = NoTarget /\ connects = 0
    /\ snap = [q \in Planners |-> NotLoaded]
    /\ consent = [q \in Approvers |-> NoConsent]
    /\ runs = [r \in Revisions |-> NoRun]
    /\ result = [r \in Revisions |-> NoTarget]
    /\ cost = [r \in Revisions |-> 0] /\ fresh = {}
    /\ approval = [r \in Revisions |-> NoApproval]
    /\ jobTarget = [r \in Revisions |-> NoTarget] /\ orphaned = {}
    /\ outbox = [c \in Commands |-> "none"]
    /\ accepted = {}
    /\ queue = [c \in Commands |-> 0]
    /\ planJobs = {}
    /\ events = [r \in Revisions |-> <<>>]
    /\ applied = {}
    /\ faults = 0

Fault == faults < MaxFaults /\ faults' = faults + 1

-----------------------------------------------------------------------------
\* connect_azure, upsert_azure_connection, disconnect_azure
Connect ==
    /\ connects < MaxConnects /\ edits + connects < MaxChanges
    /\ connects' = connects + 1
    /\ \E t \in (Targets \cup {NoTarget}) \ {target} : target' = t
    /\ UNCHANGED <<planVars, requestVars, recordVars, outbox, brokerVars, applied, faults>>

\* A request that changes the plan or approves it loads it first.
LoadPlan(q) ==
    /\ snap[q] = NotLoaded
    /\ snap' = [snap EXCEPT ![q] = plan]
    /\ UNCHANGED <<planVars, targetVars, consent, recordVars, outbox, brokerVars, applied, faults>>

Respond(q) == snap' = [snap EXCEPT ![q] = NotLoaded] /\ UNCHANGED consent

\* What an assignment does to a column of the row: nothing if the value loaded
\* with the row is assigned.
Flush(column, loaded, assigned) == IF assigned = loaded THEN column ELSE assigned

\* generate_infrastructure_plan, update_infrastructure_plan and both chats: the data
\* changes, the revision counts from the loaded one and the status becomes draft.  Of
\* the regions and tiers an owner may name the model keeps the loaded ones and the
\* target's.
SaveEdit(q) ==
    /\ snap[q] # NotLoaded
    /\ edits < MaxEdits /\ edits + connects < MaxChanges
    /\ edits' = edits + 1
    /\ \E region \in Regions, tier \in Tiers :
          /\ \/ region = snap[q].region /\ tier = snap[q].tier
             \/ target # NoTarget /\ region = RegionOf[target] /\ tier = HostingOf[target]
          /\ plan' = [revision |-> snap[q].revision + 1,
                      edit     |-> edits',
                      region   |-> Flush(plan.region, snap[q].region, region),
                      tier     |-> tier,
                      status   |-> Flush(plan.status, snap[q].status, "draft")]
    /\ Respond(q)
    /\ UNCHANGED <<reviewed, targetVars, recordVars, outbox, brokerVars, applied, faults>>

-----------------------------------------------------------------------------
\* approve_infrastructure_plan aligns the plan with the verified target in memory.
Aligned(p) ==
    IF target = NoTarget THEN [p EXCEPT !.status = "approved"]
    ELSE [p EXCEPT !.status = "approved",
                   !.region = RegionOf[target],
                   !.tier   = IF p.tier = Unplanned THEN HostingOf[target] ELSE p.tier]

\* What the flushes make of the row.  The tier is filled into a dictionary that
\* the loaded value shares, so it is stored only along with another region.
Stored(q) ==
    LET mem   == Aligned(snap[q])
        moved == mem.region # snap[q].region
    IN  [plan EXCEPT !.status = Flush(@, snap[q].status, "approved"),
                     !.region = Flush(@, snap[q].region, mem.region),
                     !.edit   = IF moved THEN mem.edit ELSE @,
                     !.tier   = IF moved THEN mem.tier ELSE @]

\* create_operation_run under the key of the plan's revision: a new run, or the
\* existing one if it is bound to the same digest.
Bindable(r, digest) == runs[r].status = "none" \/ runs[r].digest = digest

CreateRun(r, status, digest, t) ==
    runs' = IF runs[r].status = "none"
            THEN [runs EXCEPT ![r] = [status |-> status, digest |-> digest, target |-> t]]
            ELSE runs

\* The command is enqueued once per run, with the current target in its payload.
EnqueueGeneration(r) ==
    IF outbox[<<"generation", r>>] = "none"
    THEN /\ outbox' = [outbox EXCEPT ![<<"generation", r>>] = "pending"]
         /\ jobTarget' = [jobTarget EXCEPT ![r] = target]
    ELSE UNCHANGED <<outbox, jobTarget>>

\* _approved_components: the plan names the target's hosting plan.
Renderable(p) == p.tier = HostingOf[target]

\* The except branch marks the plan data in memory, looks a run up by that digest
\* and marks it failed, or creates a failed one unless the key is bound.
RecordFailure(p, mark) ==
    LET r == p.revision
        digest == Digest(p, mark)
    IN  runs' = IF runs[r].status = "none"
                THEN [runs EXCEPT ![r] = [status |-> "failed", digest |-> digest, target |-> NoTarget]]
                ELSE IF runs[r].digest = digest THEN [runs EXCEPT ![r].status = "failed"] ELSE runs

\* The approval is one transaction.  Without a target it only marks the plan.
ApproveOnly(q) ==
    /\ target = NoTarget
    /\ UNCHANGED <<runs, outbox, jobVars, faults>>

QueueGeneration(q) ==
    LET mem == Aligned(snap[q]) IN
    /\ target # NoTarget /\ Renderable(mem)
    /\ Bindable(mem.revision, Digest(mem, "clean"))
    /\ CreateRun(mem.revision, "open", Digest(mem, "clean"), target)
    /\ EnqueueGeneration(mem.revision)
    /\ UNCHANGED <<orphaned, faults>>

\* The artifact store is not configured, or the tier names another plan: the failure
\* is recorded.  A bound key is recorded nowhere, nor is an upload that fails after
\* the run was created: the run is committed, bound to the target, without a command,
\* and a later approval of the revision queues the command for its own target.
FailToQueue(q) ==
    LET mem == Aligned(snap[q]) IN
    /\ target # NoTarget
    /\ \/ /\ \/ Fault /\ RecordFailure(mem, "store")
             \/ ~Renderable(mem) /\ RecordFailure(mem, "tier") /\ UNCHANGED faults
             \/ /\ Renderable(mem) /\ ~Bindable(mem.revision, Digest(mem, "clean"))
                /\ UNCHANGED <<runs, faults>>
          /\ UNCHANGED orphaned
       \/ /\ Renderable(mem) /\ Bindable(mem.revision, Digest(mem, "clean"))
          /\ outbox[<<"generation", mem.revision>>] = "none"
          /\ Fault /\ CreateRun(mem.revision, "open", Digest(mem, "clean"), target)
          /\ orphaned' = orphaned \cup {mem.revision}
    /\ UNCHANGED <<outbox, jobTarget>>

ApprovePlan(q) ==
    /\ snap[q] # NotLoaded
    /\ plan' = Stored(q)
    /\ reviewed' = reviewed \cup {snap[q].edit}
    /\ ApproveOnly(q) \/ QueueGeneration(q) \/ FailToQueue(q)
    /\ Respond(q)
    /\ UNCHANGED <<edits, targetVars, result, evidenceVars, approval, brokerVars, applied>>

-----------------------------------------------------------------------------
\* Rows of a run that a transaction of approve_and_enqueue_apply holds FOR UPDATE.
Locked(r) == \E q \in Approvers : consent[q].target # NoTarget /\ consent[q].revision = r

\* Mutant of RefreshCost: it reads the rows without FOR UPDATE.
RefreshCostUnlocked(r) ==
    /\ result[r] # NoTarget /\ approval[r].status = "none"
    /\ r \notin fresh /\ cost[r] < MaxEvidence
    /\ cost' = [cost EXCEPT ![r] = @ + 1] /\ fresh' = fresh \cup {r}
    /\ UNCHANGED <<planVars, targetVars, requestVars, runs, result, approval, jobVars, outbox, brokerVars, applied, faults>>

\* issue_verified_cost_evidence: new evidence unless the stored one is fresh enough.
RefreshCost(r) ==
    /\ ~Locked(r)
    /\ result[r] # NoTarget /\ approval[r].status = "none"
    /\ r \notin fresh /\ cost[r] < MaxEvidence
    /\ cost' = [cost EXCEPT ![r] = @ + 1] /\ fresh' = fresh \cup {r}
    /\ UNCHANGED <<planVars, targetVars, requestVars, runs, result, approval, jobVars, outbox, brokerVars, applied, faults>>

\* Evidence outlives TERRAFORM_COST_EVIDENCE_MAX_AGE_MINUTES, an approval its TTL.
Age(r) ==
    /\ \/ r \in fresh /\ fresh' = fresh \ {r} /\ UNCHANGED approval
       \/ approval[r].status = "valid" /\ approval' = [approval EXCEPT ![r].status = "expired"] /\ UNCHANGED fresh
    /\ UNCHANGED <<planVars, targetVars, requestVars, runs, result, cost, jobVars, outbox, brokerVars, applied, faults>>

\* The conditions of approve_and_enqueue_apply on the plan, the target and the
\* evidence.  An approval that exists already is returned as it is.
Approvable(r) ==
    /\ plan.status = "approved" /\ plan.revision = r
    /\ Digest(plan, "clean") = runs[r].digest
    /\ target # NoTarget /\ runs[r].target = target
    /\ result[r] # NoTarget /\ r \in fresh
    /\ approval[r].status = "none"

\* The run's rows are locked; plan and target are read without a lock, and the
\* evidence must be the one that the owner has reviewed.
CheckApply(q, r) ==
    /\ consent[q] = NoConsent /\ ~Locked(r)
    /\ Approvable(r)
    /\ consent' = [consent EXCEPT ![q] = [revision |-> r, evidence |-> cost[r], target |-> target]]
    /\ UNCHANGED <<planVars, targetVars, snap, recordVars, outbox, brokerVars, applied, faults>>

\* Approval, apply command and activity event are committed together.
CommitApply(q) ==
    LET c == consent[q] IN
    /\ c # NoConsent
    /\ approval' = [approval EXCEPT ![c.revision] = [status |-> "valid", evidence |-> c.evidence, target |-> c.target]]
    /\ outbox' = [outbox EXCEPT ![<<"apply", c.revision>>] = "pending"]
    /\ consent' = [consent EXCEPT ![q] = NoConsent]
    /\ UNCHANGED <<planVars, targetVars, snap, runs, result, evidenceVars, jobVars, brokerVars, applied, faults>>

-----------------------------------------------------------------------------
\* What WorkflowOutbox does with a pending command: the broker gets it and the row is
\* marked, or the API dies before the commit and the command will be sent again.  The
\* broker drops a message id it has seen within its detection window.
Dispatch(c) ==
    /\ outbox[c] = "pending"
    /\ \/ outbox' = [outbox EXCEPT ![c] = "sent"] /\ UNCHANGED faults
       \/ Fault /\ UNCHANGED outbox
    /\ accepted' = accepted \cup {c}
    /\ \/ queue' = [queue EXCEPT ![c] = MaxDeliveries]
       \/ c \in accepted /\ UNCHANGED queue
    /\ UNCHANGED <<planVars, targetVars, requestVars, recordVars, planJobs, events, applied>>

-----------------------------------------------------------------------------
Emit(r, event) == events' = [events EXCEPT ![r] = Append(@, event)]

\* Mutant of Held: a message whose deliveries are used up is still handled.
HeldForEver(kind, r) == <<kind, r>> \in accepted

Held(kind, r) == queue[<<kind, r>>] > 0

Settle(kind, r) == queue' = [queue EXCEPT ![<<kind, r>>] = 0]

\* handle_terraform_generation: the plan job is sent before the completion event,
\* which changes no status of the run.
GenerationPlans(r) ==
    /\ Held("generation", r)
    /\ Settle("generation", r)
    /\ planJobs' = planJobs \cup {r}
    /\ UNCHANGED <<accepted, events, planVars, targetVars, requestVars, recordVars, outbox, applied, faults>>

GenerationBlocked(r) ==
    /\ Held("generation", r) /\ Fault
    /\ Settle("generation", r)
    /\ Emit(r, "failed")
    /\ UNCHANGED <<accepted, planJobs, planVars, targetVars, requestVars, recordVars, outbox, applied>>

\* An exception before or after the plan job was sent: the failure is reported and
\* raised, so the message is delivered again.
GenerationFails(r) ==
    /\ Held("generation", r) /\ Fault
    /\ queue' = [queue EXCEPT ![<<"generation", r>>] = @ - 1]
    /\ planJobs' \in {planJobs, planJobs \cup {r}}
    /\ Emit(r, "failed")
    /\ UNCHANGED <<accepted, planVars, targetVars, requestVars, recordVars, outbox, applied>>

\* What TerraformExecutor sends for a plan job.
PlanEnds(r) ==
    /\ r \in planJobs
    /\ planJobs' = planJobs \ {r}
    /\ \/ Emit(r, "planned") /\ UNCHANGED faults
       \/ Emit(r, "failed") /\ Fault
    /\ UNCHANGED <<accepted, queue, planVars, targetVars, requestVars, recordVars, outbox, applied>>

\* What TerraformExecutor does with an apply job: within the approval's time it applies
\* the plan that was saved with its bundle and inputs, for the target they name, and
\* reports it, or it reports a failure although it applied, or it refuses.
ApplyEnds(r) ==
    /\ Held("apply", r)
    /\ Settle("apply", r)
    /\ \/ /\ approval[r].status = "valid"
          /\ applied' = applied \cup {[run |-> r, target |-> result[r]]}
          /\ \/ Emit(r, "applied") /\ UNCHANGED faults
             \/ Emit(r, "failed") /\ Fault
       \/ Emit(r, "failed") /\ Fault /\ UNCHANGED applied
       \/ approval[r].status = "expired" /\ Emit(r, "failed") /\ UNCHANGED <<applied, faults>>
    /\ UNCHANGED <<accepted, planJobs, planVars, targetVars, requestVars, recordVars, outbox>>

\* HistoryStore.project, event by event of a run's session.  All jobs are attempt 1:
\* a run that failed stays failed, yet its first plan is still recorded.
Project(r) ==
    /\ events[r] # <<>> /\ ~Locked(r)
    /\ LET event == Head(events[r]) IN
       /\ runs' = IF runs[r].status = "open" /\ event # "planned"
                  THEN [runs EXCEPT ![r].status = IF event = "applied" THEN "completed" ELSE "failed"]
                  ELSE runs
       /\ result' = IF event = "planned" /\ result[r] = NoTarget
                    THEN [result EXCEPT ![r] = jobTarget[r]] ELSE result
    /\ events' = [events EXCEPT ![r] = Tail(@)]
    /\ UNCHANGED <<evidenceVars, approval, jobVars, accepted, queue, planJobs, planVars, targetVars, requestVars, outbox, applied, faults>>

-----------------------------------------------------------------------------
Stage(r) ==
    \/ RefreshCost(r) \/ Age(r)
    \/ GenerationPlans(r) \/ GenerationBlocked(r) \/ GenerationFails(r)
    \/ PlanEnds(r) \/ ApplyEnds(r) \/ Project(r)

Next ==
    \/ Connect
    \/ \E q \in Planners : LoadPlan(q) \/ SaveEdit(q) \/ ApprovePlan(q)
    \/ \E q \in Approvers : CommitApply(q) \/ (\E r \in Revisions : CheckApply(q, r))
    \/ \E r \in Revisions : Stage(r)
    \/ \E c \in Commands : Dispatch(c)

Spec == Init /\ [][Next]_vars

-----------------------------------------------------------------------------
\* Mutant of Proof: the run is looked up by the plan's digest alone.
ProofOfDigest ==
    LET r == plan.revision IN
    /\ plan.status = "approved" /\ target # NoTarget
    /\ runs[r].status = "completed" /\ runs[r].digest = Digest(plan, "clean")
    /\ result[r] # NoTarget /\ approval[r].status # "none"

\* find_completed_apply_for_plan: the proof a release of this project needs.
Proof ==
    LET r == plan.revision IN
    /\ plan.status = "approved" /\ target # NoTarget
    /\ runs[r].status = "completed" /\ runs[r].digest = Digest(plan, "clean")
    /\ runs[r].target = target
    /\ result[r] # NoTarget /\ approval[r].status # "none"

\* Types.
TypeOK ==
    /\ plan \in Plan /\ edits \in 0 .. MaxEdits /\ reviewed \subseteq 0 .. MaxEdits
    /\ target \in Targets \cup {NoTarget} /\ connects \in 0 .. MaxConnects
    /\ snap \in [Planners -> Plan \cup {NotLoaded}]
    /\ consent \in [Approvers -> [revision : Revisions, evidence : 0 .. MaxEvidence, target : Targets \cup {NoTarget}]]
    /\ runs \in [Revisions -> Run]
    /\ result \in [Revisions -> Targets \cup {NoTarget}]
    /\ cost \in [Revisions -> 0 .. MaxEvidence] /\ fresh \subseteq Revisions
    /\ approval \in [Revisions -> [status : {"none", "valid", "expired"}, evidence : 0 .. MaxEvidence, target : Targets \cup {NoTarget}]]
    /\ jobTarget \in [Revisions -> Targets \cup {NoTarget}] /\ orphaned \subseteq Revisions
    /\ outbox \in [Commands -> {"none", "pending", "sent"}]
    /\ accepted \subseteq Commands /\ queue \in [Commands -> 0 .. MaxDeliveries]
    /\ planJobs \subseteq Revisions
    /\ events \in [Revisions -> Seq({"planned", "applied", "failed"})]
    /\ applied \subseteq [run : Revisions, target : Targets]
    /\ faults \in 0 .. MaxFaults

\* A release gets its proof only of an apply that happened, of the plan saved for the
\* run, under an approval of the run's last evidence and of the target connected now,
\* and of plan data an owner approved: whatever was edited, reconnected, redelivered
\* or retried since.  What was applied is for the connected target as well, except
\* under a run that was committed without its command: its command may have been
\* queued for another target, which neither the approval nor the proof compares.
ProofIsExact ==
    LET r == plan.revision IN
    Proof => /\ [run |-> r, target |-> result[r]] \in applied
             /\ result[r] = target \/ r \in orphaned
             /\ approval[r].target = target /\ approval[r].evidence = cost[r]
             /\ plan.edit \in reviewed

\* Cost evidence cannot change after the saved plan has been approved, although the
\* evidence is refreshed while approvals are under way.
EvidenceIsFrozen ==
    \A r \in Revisions : approval[r].status # "none" => approval[r].evidence = cost[r]

\* What an owner saw when he approved is what the approval goes on to stand for.
ApprovalsAreSound == TypeOK /\ EvidenceIsFrozen
=============================================================================
