----------------------------- MODULE PipelineRun -----------------------------
(***************************************************************************)
(* One pipeline run: the stage graph (services/pipeline_state.py), its     *)
(* durable records (services/pipeline_records.py), the program that works  *)
(* through it (services/pipeline.py) and the owner's decision on a run     *)
(* that waits for approval (routes/devsecops.py).                          *)
(*                                                                         *)
(* A stage is named by its stage_order, which never changes.  Every step   *)
(* below is one commit, or one exception.  Stage evidence, log lines,      *)
(* notifications and investigations are left out.  So is the AKS branch:   *)
(* run_deployment_pipeline always asks for "azure-app-service".            *)
(***************************************************************************)
EXTENDS Naturals, ReleaseVocabulary

CONSTANTS
    Configurations,  \* a project configuration version and the worker that meets it:
                     \* [mode, enabled, demo], demo: ZEROOPS_DEMO_EXECUTOR is set
    Sources,         \* what the worker can find in the source: [infra, relevant]
    MaxFaults        \* bound: crashes and handler outages of the worker

-----------------------------------------------------------------------------
(* The stage graph. *)

Source == 1
ChangeDetection == 2
RepositoryAnalysis == 3
DependencyInstallation == 4
CodeQuality == 5
UnitTests == 6
Sast == 7
DependencySecurity == 8
SecretScan == 9
Build == 10
ContainerBuild == 11
ContainerSecurity == 12
Sbom == 13
KubernetesValidation == 14
InfrastructureValidation == 15
IacSecurity == 16
TerraformPlan == 17
Approval == 18
InfrastructureProvisioning == 19
ApplicationDeployment == 20
HealthCheck == 21
SmokeTest == 22
MonitoringRegistration == 23
DeploymentComplete == 24

Stages == Source .. DeploymentComplete

\* current_stage_key is NULL.
NoStage == 0

RepositoryChecks == {DependencyInstallation, CodeQuality, UnitTests, Build}
SecurityScans == {Sast, DependencySecurity, SecretScan, ContainerSecurity, Sbom, KubernetesValidation, IacSecurity}

\* Stages that depend on the configuration or the requested target, and those
\* the source can make unnecessary besides.
Switchable == (RepositoryChecks \ {Build}) \cup SecurityScans
Checks == {RepositoryAnalysis} \cup RepositoryChecks \cup SecurityScans

\* Stages the release worker has no means of performing.
RefusedStages == {InfrastructureValidation, TerraformPlan, InfrastructureProvisioning}

DeploymentModes == {"validate_only", "deploy_after_checks", "require_approval"}
InfraEvidence   == {"none", "present", "changed"}

ASSUME InputsAssumption ==
    /\ Configurations \subseteq [mode : DeploymentModes, enabled : SUBSET Switchable, demo : BOOLEAN]
    /\ Sources \subseteq [infra : InfraEvidence, relevant : SUBSET Checks]
ASSUME SettingsAssumption == MaxFaults \in Nat

\* context_from_configuration as a request calls it, before anybody saw the source.
RequestContext(c, infra) ==
    [mode |-> c.mode, infra |-> infra, checks |-> c.enabled \cup {RepositoryAnalysis, Build},
     container |-> TRUE, monitoring |-> TRUE]

\* The context the worker plans with: a validation builds no image, the target
\* is never AKS and no telemetry collector exists.
WorkerContext(c, found) ==
    [mode |-> c.mode, infra |-> found.infra,
     checks |-> ((c.enabled \cup {RepositoryAnalysis, Build}) \cap found.relevant) \ {KubernetesValidation},
     container |-> c.mode # "validate_only", monitoring |-> FALSE]

PerformsDeployment(c) == c.mode # "validate_only"

\* Mutated form of NeedsApproval: only infrastructure asks for the owner.
NeedsApprovalForInfrastructure(c) == PerformsDeployment(c) /\ c.infra = "changed"

NeedsApproval(c) == PerformsDeployment(c) /\ (c.infra = "changed" \/ c.mode = "require_approval")

\* initialize_stages.
Applies(c, s) ==
    /\ s \in Checks => s \in c.checks
    /\ s \in {ContainerBuild, ContainerSecurity, Sbom} => c.container
    /\ s \in {InfrastructureValidation, IacSecurity} => c.infra # "none"
    /\ s \in {TerraformPlan, InfrastructureProvisioning} => c.infra = "changed"
    /\ s \in {InfrastructureProvisioning, ApplicationDeployment, HealthCheck, SmokeTest, MonitoringRegistration}
           => PerformsDeployment(c)
    /\ s = MonitoringRegistration => c.monitoring
    /\ s = Approval => NeedsApproval(c)

PlannedStatus(c, s) == IF Applies(c, s) THEN "queued" ELSE "skipped"

-----------------------------------------------------------------------------
VARIABLES
    config,       \* the configuration version the run is bound to, and its worker
    evidence,     \* whether the signed approval attached to the release verifies
    decision,     \* deployments.infrastructure_metadata.pipeline_approval_decision:
                  \* "pending" also where none is required, "consumed" on the run that
                  \* was approved, "approved" on its successor
    stage,        \* pipeline_stage_attempts.status
    run,          \* pipeline_runs.status (and failure_code)
    current,      \* pipeline_runs.current_stage_key
    release,      \* deployments.status
    pc,           \* where run_deployment_pipeline stands
    leaseLost,    \* what the lease guard answers
    stopAs,       \* how the raised exception will be recorded
    rollouts,     \* calls of app_service.deploy_image
    faults,       \* crashes and handler outages so far
    selected,     \* the API's start-up has loaded the release as active, and will write
    overridden    \* history: it wrote "failed" over a release that had stopped meanwhile

bindings == <<config, evidence>>
records  == <<stage, run, current, release, decision>>
program  == <<pc, leaseLost, stopAs, rollouts, faults>>
startUp  == <<selected, overridden>>
vars == <<bindings, records, program, startUp>>

\* Where the program can stand.
Working == {"enter", "plan", "quality", "stages", "announce", "deploy", "conclude"}
Ended   == {"returned", "raised", "dead"}

\* A run that ended or waits for its owner.
Settled == RunStates \ {"queued", "running"}

\* The run as start_deploy, the push webhook or approve_pipeline_run created it
\* (only the last attaches evidence and records a decision), its release moved
\* to "building" by the worker that enters the program.
Init ==
    /\ config \in Configurations
    /\ \E infra \in {"none", "present"} :
          stage = [s \in Stages |-> PlannedStatus(RequestContext(config, infra), s)]
    /\ decision \in {"pending", "approved"}
    /\ decision = "approved" => config.mode = "require_approval"
    /\ evidence \in BOOLEAN
    /\ evidence => decision = "approved"
    /\ run = "queued"
    /\ current = NoStage
    /\ release = "building"
    /\ pc = "enter"
    /\ leaseLost = FALSE
    /\ stopAs = "failed"
    /\ rollouts = 0
    /\ faults = 0
    /\ selected = FALSE
    /\ overridden = FALSE

-----------------------------------------------------------------------------
(* The durable runtime. *)

Goto(place) == pc' = place /\ UNCHANGED stopAs

\* A PipelineExecutionError, or any other exception, reaches the handler.
Raise(how) == pc' = "failing" /\ stopAs' = how

\* A guarded stage transition and its commit (_DurableRuntime.transition).
Commit(s, status) ==
    /\ ~leaseLost
    /\ stage' = [stage EXCEPT ![s] = status]

\* Mutated form of PredecessorsComplete: unavailable work does not hold it up.
PredecessorsFinished(s) == \A t \in Stages : t < s => stage[t] \notin {"queued", "running"}

\* ensure_predecessors_complete.
PredecessorsComplete(s) == \A t \in Stages : t < s => stage[t] \in {"succeeded", "skipped"}

\* transition_pipeline_stage to running.
StartStage(s) ==
    /\ Commit(s, "running")
    /\ run' = IF run = "queued" THEN "running" ELSE run
    /\ current' = s

\* The stage the program has in hand.
InHand(s) == pc = "stages" /\ s = current /\ stage[s] = "running"

\* The next stage it turns to: it walks the graph in order, asks of each stage
\* whether it is queued, and has no code for monitoring.
Due(s) ==
    LET Walked == {t \in Stages \ {MonitoringRegistration} : current < t /\ stage[t] = "queued"} IN
    /\ pc = "stages"
    /\ stage[current] # "running"
    /\ s \in Walked
    /\ \A t \in Walked : s <= t

-----------------------------------------------------------------------------
(* run_deployment_pipeline. *)

\* Source starts, unless the release left "building" before the program looked.
EnterPipeline ==
    /\ pc = "enter"
    /\ \/ /\ release = "building"
          /\ StartStage(Source)
          /\ Goto("stages")
       \/ /\ release # "building"
          /\ Raise("blocked")
          /\ UNCHANGED <<stage, run, current>>
    /\ UNCHANGED <<bindings, release, decision, leaseLost, rollouts, faults>>

\* The configuration is disabled.
BlockDisabled ==
    /\ pc = "enter"
    /\ release = "building"
    /\ Commit(Source, "blocked")
    /\ Raise("blocked")
    /\ UNCHANGED <<bindings, run, current, release, decision, leaseLost, rollouts, faults>>

\* A stage starts, or its predecessors refuse it.
RunStage(s) ==
    /\ Due(s)
    /\ s \notin RefusedStages
    /\ \/ /\ PredecessorsComplete(s)
          /\ StartStage(s)
          /\ Goto(IF s = ApplicationDeployment THEN "announce" ELSE "stages")
       \/ /\ ~PredecessorsComplete(s)
          /\ Raise("failed")
          /\ UNCHANGED <<stage, run, current>>
    /\ UNCHANGED <<bindings, release, decision, leaseLost, rollouts, faults>>

\* Terraform work is recorded as unavailable without ever being started.
RefuseStage(s) ==
    /\ Due(s)
    /\ s \in RefusedStages
    /\ Commit(s, "unavailable")
    /\ Raise("unavailable")
    /\ UNCHANGED <<bindings, run, current, release, decision, leaseLost, rollouts, faults>>

PassStage(s) ==
    /\ InHand(s)
    /\ s = Approval => evidence
    /\ Commit(s, "succeeded")
    /\ Goto(CASE s = ChangeDetection -> "plan" [] s = DeploymentComplete -> "conclude" [] OTHER -> "stages")
    /\ UNCHANGED <<bindings, run, current, release, decision, leaseLost, rollouts, faults>>

\* A check's own verdict.  An unavailable scanner does not stop a demo.
Verdicts(s) ==
    IF s \in RepositoryChecks THEN {"failed", "unavailable"}
    ELSE IF s \in SecurityScans THEN {"failed", "blocked"} \cup (IF config.demo THEN {} ELSE {"unavailable"})
    ELSE {}

StopStage(s) ==
    /\ InHand(s)
    /\ \E verdict \in Verdicts(s) : Commit(s, verdict) /\ Raise(verdict)
    /\ UNCHANGED <<bindings, run, current, release, decision, leaseLost, rollouts, faults>>

ContinueDemo(s) ==
    /\ InHand(s)
    /\ config.demo
    /\ s \in SecurityScans
    /\ Commit(s, "unavailable")
    /\ Goto("stages")
    /\ UNCHANGED <<bindings, run, current, release, decision, leaseLost, rollouts, faults>>

AwaitApproval ==
    /\ InHand(Approval)
    /\ ~evidence
    /\ Commit(Approval, "blocked")
    /\ Raise("awaiting_approval")
    /\ UNCHANGED <<bindings, run, current, release, decision, leaseLost, rollouts, faults>>

\* Anything else that ends the work: the lease was seen lost, a command or the
\* database raised, the target drifted, a credential or endpoint is missing.
Abort ==
    /\ pc \in Working \ {"deploy"}
    /\ \/ Raise("failed")
       \/ pc = "enter" /\ Raise("unavailable")
       \/ current = Source /\ InHand(Source) /\ Raise("blocked")
       \/ pc = "stages" /\ current \in {ContainerBuild, HealthCheck} /\ Raise("unavailable")
    /\ UNCHANGED <<bindings, records, leaseLost, rollouts, faults>>

\* Mutated form of Reconcile: re-plans the stages that already ran as well.
ReconcileEverything ==
    /\ pc = "plan"
    /\ ~leaseLost
    /\ \E found \in Sources :
          stage' = [s \in Stages |-> PlannedStatus(WorkerContext(config, found), s)]
    /\ Goto("quality")
    /\ UNCHANGED <<bindings, run, current, release, decision, leaseLost, rollouts, faults>>

\* reconcile_pipeline_plan: only rows that never started are planned again.
Reconcile ==
    /\ pc = "plan"
    /\ ~leaseLost
    /\ \E found \in Sources :
          stage' = [s \in Stages |->
              IF stage[s] \in {"queued", "skipped"} THEN PlannedStatus(WorkerContext(config, found), s) ELSE stage[s]]
    /\ Goto("quality")
    /\ UNCHANGED <<bindings, run, current, release, decision, leaseLost, rollouts, faults>>

\* The source may have no quality command.
SettleCodeQuality ==
    /\ pc = "quality"
    /\ \/ UNCHANGED stage
       \/ stage[CodeQuality] = "queued" /\ Commit(CodeQuality, "skipped")
    /\ Goto("stages")
    /\ UNCHANGED <<bindings, run, current, release, decision, leaseLost, rollouts, faults>>

\* Mutated form of AnnounceRollout: reports the release before rolling it out.
AnnounceRolloutOptimistic ==
    /\ pc = "announce"
    /\ release' = "running"
    /\ Goto("deploy")
    /\ UNCHANGED <<bindings, stage, run, current, decision, leaseLost, rollouts, faults>>

\* A commit of its own after the stage's, by primary key and without the lease.
AnnounceRollout ==
    /\ pc = "announce"
    /\ release' = "deploying"
    /\ Goto("deploy")
    /\ UNCHANGED <<bindings, stage, run, current, decision, leaseLost, rollouts, faults>>

\* Mutated form of DeployImage: a failed call is tried again.
DeployImageRetrying ==
    /\ pc = "deploy"
    /\ rollouts' = rollouts + 1
    /\ \/ Goto("stages")
       \/ Goto("deploy")
    /\ UNCHANGED <<bindings, records, leaseLost, faults>>

DeployImage ==
    /\ pc = "deploy"
    /\ rollouts' = rollouts + 1
    /\ \/ Goto("stages")
       \/ \E how \in {"failed", "unavailable"} : Raise(how)
    /\ UNCHANGED <<bindings, records, leaseLost, faults>>

\* A validation ends with nothing published, a release with what it rolled out.
FinalStatus == IF config.mode = "validate_only" THEN "stopped" ELSE "running"

\* The last commit.  The log flush that follows it may still raise.
Conclude ==
    /\ pc = "conclude"
    /\ run' = "succeeded"
    /\ current' = NoStage
    /\ release' = FinalStatus
    /\ Goto("returned") \/ Raise("failed")
    /\ UNCHANGED <<bindings, stage, decision, leaseLost, rollouts, faults>>

\* Mutated form of HandlerAccepts: records the stage's failure a second time.
HandlerAcceptsTwice ==
    /\ CanTransition(StatusOf(run), StatusOf(stopAs))
    /\ current # NoStage => CanTransition(stage[current], StatusOf(stopAs))

\* guard_transition, asked for the run.
HandlerAccepts == CanTransition(StatusOf(run), StatusOf(stopAs))

\* Mutated form of AfterFailure: forgets the stages that were never reached.
AfterFailureOpen(s) == IF s = current /\ stage[s] = "running" THEN StatusOf(stopAs) ELSE stage[s]

AfterFailure(s) ==
    IF s = current /\ stage[s] = "running" THEN StatusOf(stopAs)
    ELSE IF s > current /\ stage[s] = "queued" THEN "cancelled" ELSE stage[s]

\* The failure handler: one transaction, without the lease.  An illegal run
\* transition undoes all of it and escapes; so does a failed log flush, after
\* the commit.  A failure always names the stage in hand, or one before which
\* nothing is queued, so the stage it names and the current one act alike.
HandleFailure ==
    /\ pc = "failing"
    /\ \/ /\ HandlerAccepts
          /\ stage' = [s \in Stages |-> AfterFailure(s)]
          /\ run' = stopAs
          /\ current' = NoStage
          /\ release' = IF stopAs = "awaiting_approval" THEN "stopped" ELSE "failed"
          /\ Goto("returned") \/ Goto("raised")
       \/ /\ ~HandlerAccepts
          /\ Goto("raised")
          /\ UNCHANGED <<stage, run, current, release>>
    /\ UNCHANGED <<bindings, decision, leaseLost, rollouts, faults>>

\* The database refuses the handler's transaction.
FailureHandlerFails ==
    /\ pc = "failing"
    /\ faults < MaxFaults
    /\ faults' = faults + 1
    /\ Goto("raised")
    /\ UNCHANGED <<bindings, records, leaseLost, rollouts>>

Crash ==
    /\ pc \in Working \cup {"failing"}
    /\ faults < MaxFaults
    /\ faults' = faults + 1
    /\ Goto("dead")
    /\ UNCHANGED <<bindings, records, leaseLost, rollouts>>

-----------------------------------------------------------------------------
(* What the rest of the system does to the run. *)

\* The heartbeat reports the lease lost, for good.
LoseLease ==
    /\ ~leaseLost
    /\ leaseLost' = TRUE
    /\ UNCHANGED <<bindings, records, pc, stopAs, rollouts, faults>>

\* Mutated form of FailRelease: whatever the release says by now.
FailReleaseUnchecked ==
    /\ release' = "failed"
    /\ UNCHANGED <<bindings, stage, run, current, decision, program>>

\* A worker's reconciliation, or the worker that called the program, gives the
\* release up: both test the status that they overwrite.
FailRelease ==
    /\ release \in ActiveReleases
    /\ release' = "failed"
    /\ UNCHANGED <<bindings, stage, run, current, decision, program>>

\* The API's start-up selects the expired claim and loads its release.
ApiStart ==
    /\ ~selected
    /\ release \in ActiveReleases
    /\ selected' = TRUE
    /\ UNCHANGED <<bindings, records, program, overridden>>

\* recover_interrupted_deployments decides on what it loaded and writes by
\* primary key, whatever the release says by now; or it does not get to commit.
RecoverInterruptedDeployments ==
    /\ selected
    /\ selected' = FALSE
    /\ \/ /\ release' = "failed"
          /\ overridden' = (overridden \/ release = "stopped")
       \/ UNCHANGED <<release, overridden>>
    /\ UNCHANGED <<bindings, stage, run, current, decision, program>>

\* _approval_ready_stages.  A run's approval_required says that its
\* configuration asks for approval.
ApprovalReady ==
    /\ run = "awaiting_approval"
    /\ config.mode = "require_approval"
    /\ stage[Approval] = "blocked"
    /\ PredecessorsComplete(Approval)

\* approve_pipeline_run: the decision is consumed by a new release and run,
\* this one stays as it is.
ApprovePipelineRun ==
    /\ decision = "pending"
    /\ ApprovalReady
    /\ release = "stopped"
    /\ decision' = "consumed"
    /\ UNCHANGED <<bindings, stage, run, current, release, program>>

RejectPipelineRun ==
    /\ decision = "pending"
    /\ ApprovalReady
    /\ stage' = [s \in Stages |->
           IF s >= Approval /\ stage[s] \in {"queued", "blocked"} THEN "cancelled" ELSE stage[s]]
    /\ run' = "cancelled"
    /\ current' = NoStage
    /\ release' = "stopped"
    /\ decision' = "rejected"
    /\ UNCHANGED <<bindings, program>>

-----------------------------------------------------------------------------
ProgramStep ==
    \/ EnterPipeline
    \/ BlockDisabled
    \/ \E s \in Stages :
          RunStage(s) \/ RefuseStage(s) \/ PassStage(s) \/ StopStage(s) \/ ContinueDemo(s)
    \/ AwaitApproval
    \/ Abort
    \/ Reconcile
    \/ SettleCodeQuality
    \/ AnnounceRollout
    \/ DeployImage
    \/ Conclude
    \/ HandleFailure

RunStep ==
    \/ ProgramStep
    \/ FailureHandlerFails
    \/ Crash
    \/ LoseLease
    \/ FailRelease
    \/ ApprovePipelineRun
    \/ RejectPipelineRun

Next ==
    \/ RunStep /\ UNCHANGED startUp
    \/ ApiStart
    \/ RecoverInterruptedDeployments

Spec == Init /\ [][Next]_vars

\* A program that is not dead keeps running; nobody has to decide anything.
FairSpec == Spec /\ WF_vars(ProgramStep /\ UNCHANGED startUp)

-----------------------------------------------------------------------------
(* Properties. *)

\* The values the tables' CHECK constraints and the program's text allow.
TypeOK ==
    /\ config \in Configurations
    /\ evidence \in BOOLEAN
    /\ decision \in {"pending", "approved", "consumed", "rejected"}
    /\ stage \in [Stages -> ExecutionStatuses]
    /\ run \in RunStates
    /\ current \in Stages \cup {NoStage}
    /\ release \in ReleaseStatuses
    /\ pc \in Working \cup Ended \cup {"failing"}
    /\ leaseLost \in BOOLEAN
    /\ stopAs \in StopOutcomes
    /\ rollouts \in {0, 1}
    /\ faults \in 0 .. MaxFaults
    /\ selected \in BOOLEAN
    /\ overridden \in BOOLEAN

\* Work never happens on top of a gap: whatever the worker re-plans, skips or
\* continues past, everything before a stage that runs or succeeded did succeed
\* or was skipped (docs/pipeline.md, lifecycle rules).
NothingRunsOverAGap ==
    \A s, t \in Stages :
        t < s /\ stage[s] \in {"running", "succeeded"} => stage[t] \in {"succeeded", "skipped"}

\* The cloud is reached only with everything the mode asks for: an image built
\* in this run, no infrastructure change left undone and, where the
\* configuration requires it, an approval that verified.
RolloutIsAuthorised ==
    rollouts > 0 =>
        /\ config.mode # "validate_only"
        /\ stage[ContainerBuild] = "succeeded"
        /\ stage[TerraformPlan] = "skipped"
        /\ config.mode = "require_approval" => evidence /\ stage[Approval] = "succeeded"

\* A validation publishes nothing: from the moment the source is known its
\* image and its cloud stages never run.
ValidationPublishesNothing ==
    config.mode = "validate_only" =>
        \A s \in {ContainerBuild, ContainerSecurity, ApplicationDeployment, HealthCheck, SmokeTest} :
            stage[s] \in {"queued", "skipped", "cancelled"}

\* A release that is reported running was rolled out by this run, which
\* verified it and completed every stage.
RunningReleaseIsComplete ==
    release = "running" =>
        /\ run = "succeeded"
        /\ rollouts = 1
        /\ stage[HealthCheck] = "succeeded" /\ stage[SmokeTest] = "succeeded"
        /\ \A s \in Stages : stage[s] \in {"succeeded", "skipped"}

\* A run that ended leaves no stage that seems to be still going on.
SettledRunIsQuiet ==
    run \in Settled => current = NoStage /\ \A s \in Stages : stage[s] \notin {"queued", "running"}

\* A run that waits for its owner, or was turned down, passed everything before
\* the gate and nothing after it, and never reached the cloud.  Its release has
\* stopped, and only a start-up that read it before takes that away.
GateHolds ==
    run \in {"awaiting_approval", "cancelled"} =>
        /\ release = "stopped" \/ (overridden /\ release = "failed")
        /\ rollouts = 0
        /\ \A s \in Stages :
              /\ s < Approval => stage[s] \in {"succeeded", "skipped"}
              /\ s > Approval => stage[s] \in {"cancelled", "skipped"}

\* The rows of a run, its stages and its deployment tell one story.
RunIsConsistent ==
    TypeOK /\ NothingRunsOverAGap /\ RunningReleaseIsComplete /\ SettledRunIsQuiet /\ GateHolds

\* Execution history is immutable (reconcile_pipeline_plan): a stage or run
\* that ended keeps its outcome, whoever writes.
HistoryIsImmutable ==
    [][/\ \A s \in Stages :
             stage[s] \in {"succeeded", "failed", "unavailable", "cancelled"} => stage'[s] = stage[s]
       /\ run \in {"succeeded", "failed", "unavailable", "cancelled"} => run' = run]_vars

\* A run that started is settled in the end, unless its worker crashed or the
\* database refused the failure handler.
StartedRunSettles == run = "running" ~> run \in Settled \/ faults > 0

=============================================================================
