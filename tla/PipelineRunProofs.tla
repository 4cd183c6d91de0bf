-------------------------- MODULE PipelineRunProofs --------------------------
(***************************************************************************)
(* What a pipeline run guarantees, proved for every set of configurations  *)
(* and sources, with and without the demo setting, and any number of       *)
(* faults.  The second half is about the evidence that a run decides by    *)
(* (SourceEvidence): for any number of runs and commits, what is reused    *)
(* fits and what changed is seen; for every tree of manifests, a check     *)
(* that passed left nothing out and no container behind; and of any number *)
(* of findings the worst decides.                                          *)
(***************************************************************************)
EXTENDS PipelineInQueue, SourceEvidence, WellFoundedInduction, FiniteSetTheorems, TLAPS

USE DEF Source, ChangeDetection, RepositoryAnalysis, DependencyInstallation, CodeQuality, UnitTests,
        Sast, DependencySecurity, SecretScan, Build, ContainerBuild, ContainerSecurity, Sbom,
        KubernetesValidation, InfrastructureValidation, IacSecurity, TerraformPlan, Approval,
        InfrastructureProvisioning, ApplicationDeployment, HealthCheck, SmokeTest,
        MonitoringRegistration, DeploymentComplete, Stages, NoStage

-----------------------------------------------------------------------------
(* The inductive invariant. *)

\* Before source starts nothing has happened.
EntryIsFresh ==
    pc = "enter" =>
        /\ run = "queued" /\ rollouts = 0
        /\ \A s \in Stages : stage[s] \in {"queued", "skipped"}

\* The run's status and current stage tell where the program can stand.
RunMatchesProgram ==
    /\ current = NoStage <=> run # "running"
    /\ pc \in Working \ {"enter"} => run = "running"
    /\ run = "queued" => \A s \in Stages : stage[s] \notin {"running", "succeeded"}
    /\ run \in Settled => pc \in Ended \cup {"failing"}
    /\ run \in Settled \ {"succeeded"} => pc # "failing"
    /\ run = "succeeded" => stage[DeploymentComplete] = "succeeded"
    /\ pc = "conclude" => stage[DeploymentComplete] = "succeeded"

\* Everything behind the current stage is done, nothing beyond it was started.
Frontier ==
    run = "running" =>
        /\ current \in Stages
        /\ stage[current] # "queued"
        /\ \A s \in Stages :
              /\ s < current => stage[s] \in {"succeeded", "skipped"}
              /\ s > current => stage[s] \in {"queued", "skipped", "unavailable"}
              /\ s > current /\ stage[s] = "unavailable" => pc \in {"failing", "dead", "raised"}

\* The plan is made again between change detection and the stages it plans.
PlanningIsEarly ==
    pc \in {"plan", "quality"} => current = ChangeDetection /\ stage[ChangeDetection] = "succeeded"

\* What a plan may call irrelevant, under every configuration and source.
SkipsFitTheMode ==
    /\ stage[Source] # "skipped" /\ stage[ChangeDetection] # "skipped"
    /\ stage[ContainerBuild] = "skipped" => config.mode = "validate_only"
    /\ stage[Approval] = "skipped" => config.mode # "require_approval"
    /\ config.mode = "validate_only" <=> stage[ApplicationDeployment] = "skipped"
    /\ config.mode = "validate_only" <=> stage[HealthCheck] = "skipped"
    /\ config.mode = "validate_only" <=> stage[SmokeTest] = "skipped"

\* Stages that are refused or need evidence do not pass without it.
NothingPassesUnproven ==
    /\ \A s \in RefusedStages : stage[s] \notin {"running", "succeeded"}
    /\ stage[Approval] = "succeeded" => evidence

\* The rollout happens once, while application deployment runs.
RolloutFitsTheStage ==
    /\ pc \in {"announce", "deploy"} =>
          /\ rollouts = 0
          /\ current = ApplicationDeployment
          /\ stage[ApplicationDeployment] = "running"
    /\ rollouts = 1 =>
          /\ stage[ApplicationDeployment] \in {"running", "succeeded", "failed", "blocked", "unavailable"}
          /\ PredecessorsComplete(ApplicationDeployment)
          /\ pc \notin {"enter", "plan", "quality"}
    /\ stage[ApplicationDeployment] = "succeeded" => rollouts = 1
    /\ pc = "stages" /\ stage[ApplicationDeployment] = "running" => rollouts = 1

\* A validation's image is planned away before anything could build it.
ValidationIsPlannedAway ==
    config.mode = "validate_only" =>
        \A s \in {ContainerBuild, ContainerSecurity} :
            /\ stage[s] \in {"queued", "skipped", "cancelled"}
            /\ stage[s] = "queued" /\ stage[ChangeDetection] = "succeeded" => pc \in {"plan", "failing", "raised", "dead"}

\* Only the approval stage stops a run to wait for its owner.
WaitsOnlyAtTheGate ==
    /\ pc = "failing" /\ stopAs = "awaiting_approval" =>
           /\ run = "running" /\ current = Approval /\ stage[Approval] = "blocked"
           /\ \A s \in Stages : s > Approval => stage[s] \in {"queued", "skipped"}
    /\ run = "awaiting_approval" => stage[Approval] = "blocked"
    /\ run = "cancelled" => stage[Approval] = "cancelled"

Safe ==
    /\ TypeOK
    /\ NothingRunsOverAGap
    /\ EntryIsFresh
    /\ RunMatchesProgram
    /\ Frontier
    /\ PlanningIsEarly
    /\ SkipsFitTheMode
    /\ NothingPassesUnproven
    /\ RolloutFitsTheStage
    /\ ValidationIsPlannedAway
    /\ WaitsOnlyAtTheGate
    /\ SettledRunIsQuiet
    /\ RunningReleaseIsComplete
    /\ GateHolds

-----------------------------------------------------------------------------
(* What the plans have in common. *)

\* The plan a request makes: everything queued that the mode may need.
LEMMA RequestPlan ==
    ASSUME NEW c \in Configurations, NEW infra \in InfraEvidence,
           NEW plan, plan = [s \in Stages |-> PlannedStatus(RequestContext(c, infra), s)]
    PROVE  /\ plan \in [Stages -> {"queued", "skipped"}]
           /\ plan[Source] = "queued" /\ plan[ChangeDetection] = "queued"
           /\ plan[ContainerBuild] = "queued"
           /\ plan[Approval] = "skipped" => c.mode # "require_approval"
           /\ \A s \in {ApplicationDeployment, HealthCheck, SmokeTest} :
                 c.mode = "validate_only" <=> plan[s] = "skipped"
<1>1. plan \in [Stages -> {"queued", "skipped"}]
  BY DEF PlannedStatus
<1>2. \A s \in {Source, ChangeDetection, ContainerBuild} : Applies(RequestContext(c, infra), s)
  BY DEF Applies, RequestContext, Checks, RepositoryChecks, SecurityScans
<1>3. ~Applies(RequestContext(c, infra), Approval) => c.mode # "require_approval"
  BY DEF Applies, RequestContext, Checks, RepositoryChecks, SecurityScans, NeedsApproval, PerformsDeployment
<1>4. \A s \in {ApplicationDeployment, HealthCheck, SmokeTest} :
          c.mode # "validate_only" <=> Applies(RequestContext(c, infra), s)
  BY DEF Applies, RequestContext, Checks, RepositoryChecks, SecurityScans, PerformsDeployment
<1> QED
  BY <1>1, <1>2, <1>3, <1>4 DEF PlannedStatus

\* The plan the worker makes once it has seen the source.
LEMMA WorkerPlan ==
    ASSUME NEW c \in Configurations, NEW found \in Sources,
           NEW plan, plan = [s \in Stages |-> PlannedStatus(WorkerContext(c, found), s)]
    PROVE  /\ plan \in [Stages -> {"queued", "skipped"}]
           /\ plan[ContainerBuild] = "skipped" => c.mode = "validate_only"
           /\ \A s \in {ContainerBuild, ContainerSecurity} : c.mode = "validate_only" => plan[s] = "skipped"
           /\ plan[Approval] = "skipped" => c.mode # "require_approval"
           /\ \A s \in {ApplicationDeployment, HealthCheck, SmokeTest} :
                 c.mode = "validate_only" <=> plan[s] = "skipped"
<1>1. plan \in [Stages -> {"queued", "skipped"}]
  BY DEF PlannedStatus
<1>2. c.mode # "validate_only" <=> Applies(WorkerContext(c, found), ContainerBuild)
  <2>1. WorkerContext(c, found).container <=> c.mode # "validate_only"
    BY DEF WorkerContext
  <2>2. ContainerBuild \notin Checks
    BY DEF Checks, RepositoryChecks, SecurityScans
  <2> QED
    BY <2>1, <2>2 DEF Applies
<1>3. c.mode = "validate_only" => ~Applies(WorkerContext(c, found), ContainerSecurity)
  BY DEF Applies, WorkerContext
<1>4. ~Applies(WorkerContext(c, found), Approval) => c.mode # "require_approval"
  BY DEF Applies, WorkerContext, Checks, RepositoryChecks, SecurityScans, NeedsApproval, PerformsDeployment
<1>5. \A s \in {ApplicationDeployment, HealthCheck, SmokeTest} :
          c.mode # "validate_only" <=> Applies(WorkerContext(c, found), s)
  BY DEF Applies, WorkerContext, Checks, RepositoryChecks, SecurityScans, PerformsDeployment
<1> QED
  BY <1>1, <1>2, <1>3, <1>4, <1>5 DEF PlannedStatus

\* A freshly created run satisfies the invariant.
LEMMA SafeInit == Init => Safe
<1> SUFFICES ASSUME Init PROVE Safe
  OBVIOUS
<1>1. PICK infra \in {"none", "present"} :
          stage = [s \in Stages |-> PlannedStatus(RequestContext(config, infra), s)]
  BY DEF Init
<1>2. config \in Configurations /\ infra \in InfraEvidence
  BY DEF Init, InfraEvidence
<1>3. /\ stage \in [Stages -> {"queued", "skipped"}]
      /\ stage[Source] = "queued" /\ stage[ChangeDetection] = "queued"
      /\ stage[ContainerBuild] = "queued"
      /\ stage[Approval] = "skipped" => config.mode # "require_approval"
      /\ \A s \in {ApplicationDeployment, HealthCheck, SmokeTest} :
            config.mode = "validate_only" <=> stage[s] = "skipped"
  BY <1>1, <1>2, RequestPlan
<1>4. TypeOK
  <2>1. stage \in [Stages -> ExecutionStatuses]
    BY <1>3 DEF ExecutionStatuses
  <2>2. 0 \in 0 .. MaxFaults
    BY SettingsAssumption
  <2> QED
    BY <2>1, <2>2
       DEF Init, TypeOK, ExecutionStatuses, RunStates, ReleaseStatuses, Working, StopOutcomes
<1>5. NothingRunsOverAGap /\ EntryIsFresh /\ PlanningIsEarly /\ ValidationIsPlannedAway
  BY <1>3 DEF Init, NothingRunsOverAGap, EntryIsFresh, PlanningIsEarly, ValidationIsPlannedAway
<1>6. RunMatchesProgram /\ Frontier /\ WaitsOnlyAtTheGate /\ SettledRunIsQuiet
  BY <1>3 DEF Init, RunMatchesProgram, Frontier, WaitsOnlyAtTheGate, SettledRunIsQuiet, Settled, Working
<1>7. SkipsFitTheMode
  BY <1>3 DEF SkipsFitTheMode
<1>8. NothingPassesUnproven
  BY <1>3 DEF NothingPassesUnproven, RefusedStages
<1>9. RolloutFitsTheStage /\ RunningReleaseIsComplete /\ GateHolds
  BY <1>3 DEF Init, RolloutFitsTheStage, RunningReleaseIsComplete, GateHolds
<1> QED
  BY <1>4, <1>5, <1>6, <1>7, <1>8, <1>9 DEF Safe

-----------------------------------------------------------------------------
(* The steps of the program. *)

\* What every started stage has behind it, and a started run in front of it.
LEMMA StageInHand ==
    ASSUME Safe, NEW s \in Stages, InHand(s)
    PROVE  /\ run = "running" /\ current = s /\ stage[s] = "running"
           /\ \A t \in Stages : t < s => stage[t] \in {"succeeded", "skipped"}
           /\ \A t \in Stages : t > s => stage[t] \in {"queued", "skipped"}
           /\ release # "running"
<1>1. run = "running" /\ current = s /\ stage[s] = "running"
  BY DEF InHand, Safe, RunMatchesProgram, Working
<1> QED
  BY <1>1 DEF InHand, Safe, Frontier, RunningReleaseIsComplete

\* Raising an exception settles nothing yet.
LEMMA RaiseSafe ==
    ASSUME Safe, pc \in Working, NEW how \in {"failed", "blocked", "unavailable"}, Raise(how),
           UNCHANGED <<bindings, records, leaseLost, rollouts, faults>>,
           UNCHANGED startUp
    PROVE  Safe'
<1>1. /\ pc' = "failing" /\ stopAs' = how
      /\ UNCHANGED <<config, evidence, stage, run, current, release, decision, leaseLost, rollouts, faults, selected, overridden>>
  BY DEF Raise, bindings, startUp, records
<1>2. TypeOK'
  BY <1>1 DEF Safe, TypeOK, StopOutcomes
<1>3. NothingRunsOverAGap' /\ EntryIsFresh' /\ PlanningIsEarly' /\ SkipsFitTheMode' /\ NothingPassesUnproven'
  BY <1>1 DEF Safe, NothingRunsOverAGap, PredecessorsComplete, EntryIsFresh, PlanningIsEarly,
              SkipsFitTheMode, NothingPassesUnproven
<1>4. RunMatchesProgram' /\ Frontier' /\ SettledRunIsQuiet' /\ RunningReleaseIsComplete' /\ GateHolds'
  BY <1>1 DEF Safe, RunMatchesProgram, Frontier, SettledRunIsQuiet, RunningReleaseIsComplete, GateHolds,
              Settled, Working, Ended
<1>5. RolloutFitsTheStage' /\ ValidationIsPlannedAway' /\ WaitsOnlyAtTheGate'
  BY <1>1 DEF Safe, RolloutFitsTheStage, PredecessorsComplete, ValidationIsPlannedAway, WaitsOnlyAtTheGate
<1> QED
  BY <1>2, <1>3, <1>4, <1>5 DEF Safe

\* The stage in hand settles, and the program goes on or raises.
LEMMA SettleSafe ==
    ASSUME Safe, NEW s \in Stages, InHand(s), NEW status \in {"succeeded", "failed", "blocked", "unavailable"},
           stage' = [stage EXCEPT ![s] = status],
           UNCHANGED <<bindings, run, current, release, decision, leaseLost, rollouts, faults>>,
           s = Approval /\ status = "succeeded" => evidence,
           pc' \in {"stages", "plan", "conclude", "failing"},
           pc' = "plan" <=> s = ChangeDetection /\ status = "succeeded",
           pc' = "conclude" => s = DeploymentComplete /\ status = "succeeded",
           stopAs' \in StopOutcomes,
           pc' = "failing" /\ stopAs' = "awaiting_approval" => s = Approval /\ status = "blocked",
           UNCHANGED startUp
    PROVE  Safe'
<1>1. /\ run = "running" /\ current = s /\ stage[s] = "running" /\ pc = "stages"
      /\ \A t \in Stages : t < s => stage[t] \in {"succeeded", "skipped"}
      /\ \A t \in Stages : t > s => stage[t] \in {"queued", "skipped"}
      /\ release # "running"
  BY StageInHand DEF InHand
<1>2. /\ stage'[s] = status
      /\ \A t \in Stages : t # s => stage'[t] = stage[t]
      /\ UNCHANGED <<config, evidence, run, current, release, decision, leaseLost, rollouts, faults, selected, overridden>>
  BY DEF Safe, TypeOK, bindings, startUp
<1>3. TypeOK'
  BY <1>2 DEF Safe, TypeOK, ExecutionStatuses, Working
<1>4. NothingRunsOverAGap' /\ EntryIsFresh' /\ PlanningIsEarly'
  BY <1>1, <1>2 DEF NothingRunsOverAGap, PredecessorsComplete, EntryIsFresh, PlanningIsEarly
<1>5. RunMatchesProgram' /\ Frontier'
  BY <1>1, <1>2 DEF Safe, RunMatchesProgram, Frontier, Settled, Working, Ended
<1>6. SettledRunIsQuiet' /\ RunningReleaseIsComplete' /\ GateHolds'
  BY <1>1, <1>2 DEF SettledRunIsQuiet, RunningReleaseIsComplete, GateHolds, Settled
<1>7. SkipsFitTheMode'
  BY <1>1, <1>2 DEF Safe, SkipsFitTheMode
<1>8. NothingPassesUnproven'
  BY <1>1, <1>2 DEF Safe, NothingPassesUnproven, RefusedStages
<1>9. RolloutFitsTheStage'
  <2>1. rollouts = 1 => s >= ApplicationDeployment
    BY <1>1 DEF Safe, RolloutFitsTheStage
  <2>2. PredecessorsComplete(ApplicationDeployment) /\ rollouts = 1 => PredecessorsComplete(ApplicationDeployment)'
    BY <1>2, <2>1 DEF PredecessorsComplete
  <2>3. stage'[ApplicationDeployment] \in {"running", "succeeded"} => rollouts = 1
    BY <1>1, <1>2 DEF Safe, RolloutFitsTheStage
  <2>4. rollouts = 1 => stage'[ApplicationDeployment] \in {"running", "succeeded", "failed", "blocked", "unavailable"}
    BY <1>1, <1>2 DEF Safe, RolloutFitsTheStage
  <2>5. rollouts = 1 => pc' # "plan"
    BY <2>1
  <2> QED
    BY <1>2, <2>2, <2>3, <2>4, <2>5 DEF Safe, RolloutFitsTheStage
<1>10. ValidationIsPlannedAway'
  BY <1>1, <1>2 DEF Safe, ValidationIsPlannedAway
<1>11. WaitsOnlyAtTheGate'
  BY <1>1, <1>2 DEF WaitsOnlyAtTheGate
<1> QED
  BY <1>3, <1>4, <1>5, <1>6, <1>7, <1>8, <1>9, <1>10, <1>11 DEF Safe

\* A stage that passed.
LEMMA PassSafe == ASSUME Safe, NEW s \in Stages, PassStage(s), UNCHANGED startUp PROVE Safe'
<1>1. /\ InHand(s)
      /\ s = Approval => evidence
      /\ stage' = [stage EXCEPT ![s] = "succeeded"]
      /\ UNCHANGED <<bindings, run, current, release, decision, leaseLost, rollouts, faults>>
  BY DEF PassStage, Commit
<1>2. /\ pc' \in {"stages", "plan", "conclude"}
      /\ pc' = "plan" <=> s = ChangeDetection
      /\ pc' = "conclude" => s = DeploymentComplete
  BY DEF PassStage, Goto
<1>3. stopAs' \in StopOutcomes
  BY DEF PassStage, Goto, Safe, TypeOK
<1> QED
  BY <1>1, <1>2, <1>3, SettleSafe

\* A check that did not pass.
LEMMA StopSafe == ASSUME Safe, NEW s \in Stages, StopStage(s), UNCHANGED startUp PROVE Safe'
<1>1. PICK verdict \in {"failed", "blocked", "unavailable"} : Commit(s, verdict) /\ Raise(verdict)
  BY DEF StopStage, Verdicts
<1> QED
  BY <1>1, SettleSafe DEF StopStage, Commit, Raise, StopOutcomes

\* A scanner that is unavailable during a demo.
LEMMA ContinueSafe == ASSUME Safe, NEW s \in Stages, ContinueDemo(s), UNCHANGED startUp PROVE Safe'
  BY SettleSafe DEF ContinueDemo, Commit, Goto, Safe, TypeOK

\* The approval stage blocks for its owner.
LEMMA AwaitSafe == ASSUME Safe, AwaitApproval, UNCHANGED startUp PROVE Safe'
  BY SettleSafe DEF AwaitApproval, Commit, Raise, StopOutcomes

\* Any other exception.
LEMMA AbortSafe == ASSUME Safe, Abort, UNCHANGED startUp PROVE Safe'
<1>1. PICK how \in {"failed", "blocked", "unavailable"} : Raise(how)
  BY DEF Abort
<1> QED
  BY <1>1, RaiseSafe DEF Abort

\* Source starts, or the release has already left "building".
LEMMA EnterSafe == ASSUME Safe, EnterPipeline, UNCHANGED startUp PROVE Safe'
<1>1. CASE release = "building" /\ StartStage(Source) /\ Goto("stages")
  <2>1. /\ stage' = [stage EXCEPT ![Source] = "running"]
        /\ run = "queued" /\ run' = "running" /\ current' = Source
        /\ pc = "enter" /\ pc' = "stages" /\ stopAs' = stopAs
        /\ UNCHANGED <<bindings, release, decision, leaseLost, rollouts, faults>>
        /\ rollouts = 0 /\ \A s \in Stages : stage[s] \in {"queued", "skipped"}
    BY <1>1 DEF EnterPipeline, StartStage, Commit, Goto, Safe, EntryIsFresh
  <2>2. /\ stage'[Source] = "running"
        /\ \A s \in Stages : s # Source => stage'[s] = stage[s]
    BY <2>1 DEF Safe, TypeOK
  <2>3. TypeOK'
    BY <2>1 DEF Safe, TypeOK, bindings, startUp, ExecutionStatuses, RunStates, Working
  <2>4. NothingRunsOverAGap' /\ EntryIsFresh' /\ PlanningIsEarly' /\ ValidationIsPlannedAway'
    BY <2>1, <2>2 DEF NothingRunsOverAGap, PredecessorsComplete, EntryIsFresh, PlanningIsEarly, ValidationIsPlannedAway
  <2>5. RunMatchesProgram' /\ Frontier' /\ WaitsOnlyAtTheGate' /\ SettledRunIsQuiet'
    BY <2>1, <2>2 DEF RunMatchesProgram, Frontier, WaitsOnlyAtTheGate, SettledRunIsQuiet, Settled, Working, Ended
  <2>6. SkipsFitTheMode' /\ NothingPassesUnproven'
    BY <2>1, <2>2 DEF Safe, SkipsFitTheMode, NothingPassesUnproven, RefusedStages, bindings, startUp
  <2>7. RolloutFitsTheStage' /\ RunningReleaseIsComplete' /\ GateHolds'
    BY <1>1, <2>1, <2>2 DEF RolloutFitsTheStage, RunningReleaseIsComplete, GateHolds
  <2> QED
    BY <2>3, <2>4, <2>5, <2>6, <2>7 DEF Safe
<1>2. CASE Raise("blocked") /\ UNCHANGED <<stage, run, current>>
  BY <1>2, RaiseSafe DEF EnterPipeline, Working, records
<1> QED
  BY <1>1, <1>2 DEF EnterPipeline

\* A stage starts only on top of finished work; otherwise the run fails.
LEMMA RunSafe == ASSUME Safe, NEW s \in Stages, RunStage(s), UNCHANGED startUp PROVE Safe'
<1>1. CASE ~PredecessorsComplete(s)
  BY <1>1, RaiseSafe DEF RunStage, Due, Working, records
<1>2. CASE PredecessorsComplete(s)
  <2>1. /\ pc = "stages" /\ stage[s] = "queued" /\ current < s /\ s \notin RefusedStages
        /\ stage' = [stage EXCEPT ![s] = "running"]
        /\ current' = s /\ stopAs' = stopAs
        /\ pc' = IF s = ApplicationDeployment THEN "announce" ELSE "stages"
        /\ run' = IF run = "queued" THEN "running" ELSE run
        /\ UNCHANGED <<config, evidence, release, decision, leaseLost, rollouts, faults, selected, overridden>>
    BY <1>2 DEF RunStage, Due, StartStage, Commit, Goto, bindings, startUp
  <2>2. run = "running" /\ run' = "running"
    BY <2>1 DEF Safe, RunMatchesProgram, Working
  <2>3. /\ \A t \in Stages : t < s => stage[t] \in {"succeeded", "skipped"}
        /\ \A t \in Stages : t > s => stage[t] \in {"queued", "skipped"}
    BY <1>2, <2>1, <2>2 DEF Safe, Frontier, PredecessorsComplete, TypeOK
  <2>4. /\ stage'[s] = "running"
        /\ \A t \in Stages : t # s => stage'[t] = stage[t]
    BY <2>1 DEF Safe, TypeOK
  <2>5. rollouts = 0 \/ s > ApplicationDeployment
    BY <2>1, <2>3 DEF Safe, RolloutFitsTheStage, TypeOK
  <2>6. release # "running"
    BY <2>2 DEF Safe, RunningReleaseIsComplete
  <2>7. TypeOK'
    BY <2>1, <2>2, <2>4 DEF Safe, TypeOK, ExecutionStatuses, RunStates, Working
  <2>8. NothingRunsOverAGap' /\ EntryIsFresh' /\ PlanningIsEarly' /\ RunMatchesProgram' /\ Frontier'
    BY <2>1, <2>2, <2>3, <2>4
       DEF NothingRunsOverAGap, PredecessorsComplete, EntryIsFresh, PlanningIsEarly, RunMatchesProgram,
           Frontier, Settled, Working
  <2>9. SkipsFitTheMode' /\ NothingPassesUnproven'
    BY <2>1, <2>4 DEF Safe, SkipsFitTheMode, NothingPassesUnproven, RefusedStages
  <2>10. ValidationIsPlannedAway'
    <3>1. s > ChangeDetection => stage[ChangeDetection] = "succeeded"
      BY <2>3 DEF Safe, SkipsFitTheMode
    <3> QED
      BY <2>1, <2>4, <3>1 DEF Safe, ValidationIsPlannedAway
  <2>11. RolloutFitsTheStage'
    <3>1. rollouts = 1 => PredecessorsComplete(ApplicationDeployment)'
      BY <2>4, <2>5 DEF Safe, RolloutFitsTheStage, PredecessorsComplete
    <3>2. rollouts = 1 => stage'[ApplicationDeployment] = stage[ApplicationDeployment]
      BY <2>4, <2>5
    <3>3. s # ApplicationDeployment => stage'[ApplicationDeployment] = stage[ApplicationDeployment]
      BY <2>4
    <3>4. s = ApplicationDeployment => rollouts = 0
      BY <2>5 DEF Safe, TypeOK
    <3> QED
      BY <2>1, <2>4, <3>1, <3>2, <3>3, <3>4 DEF Safe, RolloutFitsTheStage
  <2>12. WaitsOnlyAtTheGate' /\ SettledRunIsQuiet' /\ RunningReleaseIsComplete' /\ GateHolds'
    BY <2>1, <2>2, <2>6 DEF WaitsOnlyAtTheGate, SettledRunIsQuiet, RunningReleaseIsComplete, GateHolds, Settled
  <2> QED
    BY <2>7, <2>8, <2>9, <2>10, <2>11, <2>12 DEF Safe
<1> QED
  BY <1>1, <1>2

\* A stage that is settled without having been started.
LEMMA RefuseSafe == ASSUME Safe, NEW s \in Stages, RefuseStage(s), UNCHANGED startUp PROVE Safe'
<1>1. /\ pc = "stages" /\ pc' = "failing" /\ stopAs' = "unavailable"
      /\ stage[s] = "queued" /\ current < s /\ s \in RefusedStages
      /\ stage' = [stage EXCEPT ![s] = "unavailable"]
      /\ UNCHANGED <<config, evidence, run, current, release, decision, leaseLost, rollouts, faults, selected, overridden>>
  BY DEF RefuseStage, Due, Commit, Raise, bindings, startUp
<1>2. run = "running" /\ current # NoStage /\ release # "running"
  BY <1>1 DEF Safe, RunMatchesProgram, RunningReleaseIsComplete, Working
<1>3. /\ stage'[s] = "unavailable"
      /\ \A t \in Stages : t # s => stage'[t] = stage[t]
      /\ s \in {15, 17, 19}
  BY <1>1 DEF Safe, TypeOK, RefusedStages
<1>4. \A t \in Stages : t >= s => stage[t] \notin {"running", "succeeded"}
  BY <1>1, <1>2 DEF Safe, Frontier, TypeOK
<1>5. TypeOK'
  BY <1>1, <1>3 DEF Safe, TypeOK, ExecutionStatuses, StopOutcomes
<1>6. NothingRunsOverAGap' /\ EntryIsFresh' /\ PlanningIsEarly'
  BY <1>1, <1>3, <1>4 DEF Safe, NothingRunsOverAGap, PredecessorsComplete, EntryIsFresh, PlanningIsEarly
<1>7. RunMatchesProgram' /\ Frontier'
  BY <1>1, <1>2, <1>3, <1>4 DEF Safe, RunMatchesProgram, Frontier, Settled, Working
<1>8. SkipsFitTheMode' /\ NothingPassesUnproven'
  BY <1>1, <1>3 DEF Safe, SkipsFitTheMode, NothingPassesUnproven
<1>9. RolloutFitsTheStage'
  <2>1. rollouts # 1
    BY <1>1, <1>3 DEF Safe, RolloutFitsTheStage, PredecessorsComplete
  <2> QED
    BY <1>1, <1>3, <2>1 DEF Safe, RolloutFitsTheStage
<1>10. ValidationIsPlannedAway' /\ WaitsOnlyAtTheGate'
  BY <1>1, <1>2, <1>3 DEF Safe, ValidationIsPlannedAway, WaitsOnlyAtTheGate
<1>11. SettledRunIsQuiet' /\ RunningReleaseIsComplete' /\ GateHolds'
  BY <1>1, <1>2 DEF SettledRunIsQuiet, RunningReleaseIsComplete, GateHolds, Settled
<1> QED
  BY <1>5, <1>6, <1>7, <1>8, <1>9, <1>10, <1>11 DEF Safe

\* A disabled configuration blocks source before anything starts.
LEMMA DisabledSafe == ASSUME Safe, BlockDisabled, UNCHANGED startUp PROVE Safe'
<1>1. /\ pc = "enter" /\ pc' = "failing" /\ stopAs' = "blocked"
      /\ run = "queued" /\ rollouts = 0 /\ release = "building"
      /\ \A t \in Stages : stage[t] \in {"queued", "skipped"}
      /\ stage' = [stage EXCEPT ![Source] = "blocked"]
      /\ UNCHANGED <<config, evidence, run, current, release, decision, leaseLost, rollouts, faults, selected, overridden>>
  BY DEF BlockDisabled, Commit, Raise, bindings, startUp, Safe, EntryIsFresh
<1>2. /\ stage'[Source] = "blocked"
      /\ \A t \in Stages : t # Source => stage'[t] = stage[t]
  BY <1>1 DEF Safe, TypeOK
<1>3. TypeOK'
  BY <1>1, <1>2 DEF Safe, TypeOK, ExecutionStatuses, StopOutcomes
<1>4. NothingRunsOverAGap' /\ EntryIsFresh' /\ PlanningIsEarly' /\ RunMatchesProgram' /\ Frontier'
  BY <1>1, <1>2 DEF Safe, NothingRunsOverAGap, EntryIsFresh, PlanningIsEarly, RunMatchesProgram, Frontier, Settled, Working
<1>5. SkipsFitTheMode' /\ NothingPassesUnproven' /\ ValidationIsPlannedAway' /\ WaitsOnlyAtTheGate'
  BY <1>1, <1>2 DEF Safe, SkipsFitTheMode, NothingPassesUnproven, RefusedStages, ValidationIsPlannedAway, WaitsOnlyAtTheGate
<1>6. RolloutFitsTheStage' /\ SettledRunIsQuiet' /\ RunningReleaseIsComplete' /\ GateHolds'
  BY <1>1, <1>2 DEF RolloutFitsTheStage, SettledRunIsQuiet, RunningReleaseIsComplete, GateHolds, Settled
<1> QED
  BY <1>3, <1>4, <1>5, <1>6 DEF Safe

\* Re-planning touches only what never started, and keeps what the mode needs.
LEMMA ReconcileSafe == ASSUME Safe, Reconcile, UNCHANGED startUp PROVE Safe'
<1>1. PICK found \in Sources :
          stage' = [s \in Stages |->
              IF stage[s] \in {"queued", "skipped"} THEN PlannedStatus(WorkerContext(config, found), s) ELSE stage[s]]
  BY DEF Reconcile
<1>plan. PICK plan : plan = [s \in Stages |-> PlannedStatus(WorkerContext(config, found), s)]
  OBVIOUS
<1>2. /\ plan \in [Stages -> {"queued", "skipped"}]
      /\ plan[ContainerBuild] = "skipped" => config.mode = "validate_only"
      /\ \A s \in {ContainerBuild, ContainerSecurity} : config.mode = "validate_only" => plan[s] = "skipped"
      /\ plan[Approval] = "skipped" => config.mode # "require_approval"
      /\ \A s \in {ApplicationDeployment, HealthCheck, SmokeTest} :
            config.mode = "validate_only" <=> plan[s] = "skipped"
  <2>1. config \in Configurations
    BY DEF Safe, TypeOK
  <2> QED
    BY <1>plan, <2>1, WorkerPlan
<1>3. \A s \in Stages : stage'[s] = IF stage[s] \in {"queued", "skipped"} THEN plan[s] ELSE stage[s]
  BY <1>1, <1>plan
<1>4. /\ pc = "plan" /\ pc' = "quality" /\ stopAs' = stopAs
      /\ UNCHANGED <<config, evidence, run, current, release, decision, leaseLost, rollouts, faults, selected, overridden>>
  BY DEF Reconcile, Goto, bindings, startUp
<1>5. /\ run = "running" /\ current = ChangeDetection /\ release # "running"
      /\ stage[Source] = "succeeded" /\ stage[ChangeDetection] = "succeeded"
      /\ \A t \in Stages : t > ChangeDetection => stage[t] \in {"queued", "skipped"}
      /\ rollouts = 0
  <2>1. /\ run = "running" /\ current = ChangeDetection /\ stage[ChangeDetection] = "succeeded"
        /\ rollouts = 0
    BY <1>4 DEF Safe, TypeOK, RunMatchesProgram, PlanningIsEarly, RolloutFitsTheStage, Working
  <2>2. release # "running"
    BY <2>1 DEF Safe, RunningReleaseIsComplete
  <2>3. /\ stage[Source] = "succeeded"
        /\ \A t \in Stages : t > ChangeDetection => stage[t] \in {"queued", "skipped"}
    BY <1>4, <2>1 DEF Safe, Frontier, SkipsFitTheMode
  <2> QED
    BY <2>1, <2>2, <2>3
<1>6. /\ stage'[Source] = "succeeded" /\ stage'[ChangeDetection] = "succeeded"
      /\ \A t \in Stages : t > ChangeDetection => stage'[t] = plan[t]
  BY <1>3, <1>5
<1>7. \A t \in Stages : t > ChangeDetection => stage'[t] \in {"queued", "skipped"}
  BY <1>2, <1>6
<1>8. TypeOK'
  <2>1. stage' \in [Stages -> ExecutionStatuses]
    <3>1. \A t \in Stages : stage'[t] \in ExecutionStatuses
      BY <1>2, <1>3 DEF Safe, TypeOK, ExecutionStatuses
    <3>2. stage' = [s \in Stages |-> stage'[s]]
      BY <1>1
    <3> QED
      BY <3>1, <3>2
  <2> QED
    BY <1>4, <2>1 DEF Safe, TypeOK, Working
<1>9. NothingRunsOverAGap' /\ EntryIsFresh' /\ PlanningIsEarly' /\ RunMatchesProgram' /\ Frontier'
  BY <1>4, <1>5, <1>6, <1>7
     DEF NothingRunsOverAGap, PredecessorsComplete, EntryIsFresh, PlanningIsEarly, RunMatchesProgram,
         Frontier, Settled, Working
<1>10. SkipsFitTheMode' /\ ValidationIsPlannedAway'
  BY <1>2, <1>4, <1>6 DEF SkipsFitTheMode, ValidationIsPlannedAway
<1>11. NothingPassesUnproven' /\ RolloutFitsTheStage' /\ WaitsOnlyAtTheGate'
  BY <1>4, <1>5, <1>7 DEF NothingPassesUnproven, RefusedStages, RolloutFitsTheStage, WaitsOnlyAtTheGate
<1>12. SettledRunIsQuiet' /\ RunningReleaseIsComplete' /\ GateHolds'
  BY <1>4, <1>5 DEF SettledRunIsQuiet, RunningReleaseIsComplete, GateHolds, Settled
<1> QED
  BY <1>8, <1>9, <1>10, <1>11, <1>12 DEF Safe

\* Code quality may be skipped before it was reached.
LEMMA QualitySafe == ASSUME Safe, SettleCodeQuality, UNCHANGED startUp PROVE Safe'
<1>1. /\ pc = "quality" /\ pc' = "stages" /\ stopAs' = stopAs
      /\ \A t \in Stages : t # CodeQuality => stage'[t] = stage[t]
      /\ stage'[CodeQuality] = stage[CodeQuality] \/ (stage[CodeQuality] = "queued" /\ stage'[CodeQuality] = "skipped")
      /\ stage' \in [Stages -> ExecutionStatuses]
      /\ UNCHANGED <<config, evidence, run, current, release, decision, leaseLost, rollouts, faults, selected, overridden>>
  BY DEF SettleCodeQuality, Commit, Goto, bindings, startUp, Safe, TypeOK, ExecutionStatuses
<1>2. run = "running" /\ current # NoStage /\ release # "running" /\ rollouts = 0
  BY <1>1 DEF Safe, TypeOK, RunMatchesProgram, RunningReleaseIsComplete, RolloutFitsTheStage, Working
<1>3. TypeOK'
  BY <1>1 DEF Safe, TypeOK, Working
<1>4. NothingRunsOverAGap' /\ EntryIsFresh' /\ PlanningIsEarly' /\ RunMatchesProgram' /\ Frontier'
  BY <1>1, <1>2 DEF Safe, NothingRunsOverAGap, PredecessorsComplete, EntryIsFresh, PlanningIsEarly,
                    RunMatchesProgram, Frontier, Settled, Working
<1>5. SkipsFitTheMode' /\ NothingPassesUnproven' /\ ValidationIsPlannedAway' /\ WaitsOnlyAtTheGate'
  BY <1>1, <1>2 DEF Safe, SkipsFitTheMode, NothingPassesUnproven, RefusedStages, ValidationIsPlannedAway, WaitsOnlyAtTheGate
<1>6. RolloutFitsTheStage'
  <2>1. stage[ApplicationDeployment] # "running"
    BY <1>1, <1>2 DEF Safe, PlanningIsEarly, Frontier
  <2> QED
    BY <1>1, <1>2, <2>1 DEF Safe, RolloutFitsTheStage
<1>7. SettledRunIsQuiet' /\ RunningReleaseIsComplete' /\ GateHolds'
  BY <1>1, <1>2 DEF SettledRunIsQuiet, RunningReleaseIsComplete, GateHolds, Settled
<1> QED
  BY <1>3, <1>4, <1>5, <1>6, <1>7 DEF Safe

\* Announcing the rollout touches no stage.
LEMMA AnnounceSafe == ASSUME Safe, AnnounceRollout, UNCHANGED startUp PROVE Safe'
<1>1. /\ pc = "announce" /\ pc' = "deploy" /\ stopAs' = stopAs /\ release' = "deploying"
      /\ UNCHANGED <<config, evidence, stage, run, current, decision, leaseLost, rollouts, faults, selected, overridden>>
  BY DEF AnnounceRollout, Goto, bindings, startUp
<1>2. run = "running"
  BY <1>1 DEF Safe, RunMatchesProgram, Working
<1>3. TypeOK'
  BY <1>1 DEF Safe, TypeOK, Working, ReleaseStatuses
<1>4. NothingRunsOverAGap' /\ EntryIsFresh' /\ PlanningIsEarly' /\ RunMatchesProgram' /\ Frontier'
  BY <1>1, <1>2 DEF Safe, NothingRunsOverAGap, PredecessorsComplete, EntryIsFresh, PlanningIsEarly,
                    RunMatchesProgram, Frontier, Settled, Working
<1>5. SkipsFitTheMode' /\ NothingPassesUnproven' /\ ValidationIsPlannedAway' /\ WaitsOnlyAtTheGate'
  BY <1>1, <1>2 DEF Safe, SkipsFitTheMode, NothingPassesUnproven, ValidationIsPlannedAway, WaitsOnlyAtTheGate
<1>6. RolloutFitsTheStage' /\ SettledRunIsQuiet' /\ RunningReleaseIsComplete' /\ GateHolds'
  BY <1>1, <1>2 DEF Safe, RolloutFitsTheStage, SettledRunIsQuiet, RunningReleaseIsComplete, GateHolds, Settled
<1> QED
  BY <1>3, <1>4, <1>5, <1>6 DEF Safe

\* The one call to the cloud is made while its stage runs.
LEMMA DeploySafe == ASSUME Safe, DeployImage, UNCHANGED startUp PROVE Safe'
<1>1. /\ pc = "deploy" /\ rollouts' = rollouts + 1
      /\ pc' \in {"stages", "failing"}
      /\ stopAs' \in StopOutcomes /\ (pc' = "failing" => stopAs' # "awaiting_approval")
      /\ UNCHANGED <<config, evidence, stage, run, current, release, decision, leaseLost, faults, selected, overridden>>
  BY DEF DeployImage, Goto, Raise, bindings, startUp, records, StopOutcomes, Safe, TypeOK
<1>2. /\ run = "running" /\ release # "running" /\ rollouts = 0 /\ rollouts' = 1
      /\ current = ApplicationDeployment /\ stage[ApplicationDeployment] = "running"
  BY <1>1 DEF Safe, RunMatchesProgram, RunningReleaseIsComplete, RolloutFitsTheStage, Working
<1>3. TypeOK'
  BY <1>1, <1>2 DEF Safe, TypeOK, Working
<1>4. NothingRunsOverAGap' /\ EntryIsFresh' /\ PlanningIsEarly' /\ RunMatchesProgram' /\ Frontier'
  BY <1>1, <1>2 DEF Safe, NothingRunsOverAGap, PredecessorsComplete, EntryIsFresh, PlanningIsEarly,
                    RunMatchesProgram, Frontier, Settled, Working
<1>5. SkipsFitTheMode' /\ NothingPassesUnproven' /\ WaitsOnlyAtTheGate'
  BY <1>1, <1>2 DEF Safe, SkipsFitTheMode, NothingPassesUnproven, WaitsOnlyAtTheGate
<1>6. ValidationIsPlannedAway'
  BY <1>1 DEF Safe, ValidationIsPlannedAway
<1>7. RolloutFitsTheStage'
  BY <1>1, <1>2 DEF Safe, RolloutFitsTheStage, NothingRunsOverAGap, PredecessorsComplete
<1>8. SettledRunIsQuiet' /\ RunningReleaseIsComplete' /\ GateHolds'
  BY <1>1, <1>2 DEF SettledRunIsQuiet, RunningReleaseIsComplete, GateHolds, Settled
<1> QED
  BY <1>3, <1>4, <1>5, <1>6, <1>7, <1>8 DEF Safe

\* The run succeeds only after its last stage did.
LEMMA ConcludeSafe == ASSUME Safe, Conclude, UNCHANGED startUp PROVE Safe'
<1>1. /\ pc = "conclude" /\ pc' \in {"returned", "failing"} /\ run' = "succeeded" /\ current' = NoStage
      /\ release' = IF config.mode = "validate_only" THEN "stopped" ELSE "running"
      /\ stopAs' \in StopOutcomes /\ (pc' = "failing" => stopAs' = "failed")
      /\ UNCHANGED <<config, evidence, stage, decision, leaseLost, rollouts, faults, selected, overridden>>
  BY DEF Conclude, FinalStatus, Goto, Raise, bindings, startUp, StopOutcomes, Safe, TypeOK
<1>2. /\ stage[DeploymentComplete] = "succeeded"
      /\ \A s \in Stages : stage[s] \in {"succeeded", "skipped"}
  BY <1>1 DEF Safe, RunMatchesProgram, NothingRunsOverAGap, PredecessorsComplete
<1>3. TypeOK'
  BY <1>1 DEF Safe, TypeOK, Ended, RunStates, ExecutionStatuses, ReleaseStatuses
<1>4. NothingRunsOverAGap' /\ EntryIsFresh' /\ PlanningIsEarly' /\ RunMatchesProgram' /\ Frontier'
  BY <1>1, <1>2 DEF Safe, NothingRunsOverAGap, PredecessorsComplete, EntryIsFresh, PlanningIsEarly,
                    RunMatchesProgram, Frontier, Settled, Working, Ended
<1>5. SkipsFitTheMode' /\ NothingPassesUnproven' /\ ValidationIsPlannedAway' /\ WaitsOnlyAtTheGate'
  BY <1>1, <1>2 DEF Safe, SkipsFitTheMode, NothingPassesUnproven, ValidationIsPlannedAway, WaitsOnlyAtTheGate
<1>6. RolloutFitsTheStage' /\ SettledRunIsQuiet' /\ GateHolds'
  BY <1>1, <1>2 DEF Safe, RolloutFitsTheStage, PredecessorsComplete, SettledRunIsQuiet, GateHolds
<1>7. RunningReleaseIsComplete'
  BY <1>1, <1>2 DEF Safe, RunningReleaseIsComplete, SkipsFitTheMode, RolloutFitsTheStage
<1> QED
  BY <1>3, <1>4, <1>5, <1>6, <1>7 DEF Safe

-----------------------------------------------------------------------------
(* The failure handler, faults and the rest of the system. *)

\* The failure handler closes every stage that is still open.
LEMMA HandlerSafe == ASSUME Safe, HandleFailure, UNCHANGED startUp PROVE Safe'
<1>1. CASE ~HandlerAccepts
  <2>1. /\ pc = "failing" /\ pc' = "raised" /\ stopAs' = stopAs
        /\ UNCHANGED <<config, evidence, stage, run, current, release, decision, leaseLost, rollouts, faults, selected, overridden>>
    BY <1>1 DEF HandleFailure, Goto, bindings, startUp
  <2>2. TypeOK'
    BY <2>1 DEF Safe, TypeOK, Ended
  <2>3. NothingRunsOverAGap' /\ EntryIsFresh' /\ PlanningIsEarly' /\ RunMatchesProgram' /\ Frontier'
    BY <2>1 DEF Safe, NothingRunsOverAGap, PredecessorsComplete, EntryIsFresh, PlanningIsEarly,
                RunMatchesProgram, Frontier, Working, Ended
  <2>4. SkipsFitTheMode' /\ NothingPassesUnproven' /\ ValidationIsPlannedAway' /\ WaitsOnlyAtTheGate'
    BY <2>1 DEF Safe, SkipsFitTheMode, NothingPassesUnproven, ValidationIsPlannedAway, WaitsOnlyAtTheGate
  <2>5. RolloutFitsTheStage' /\ SettledRunIsQuiet' /\ RunningReleaseIsComplete' /\ GateHolds'
    BY <2>1 DEF Safe, RolloutFitsTheStage, PredecessorsComplete, SettledRunIsQuiet, RunningReleaseIsComplete, GateHolds
  <2> QED
    BY <2>2, <2>3, <2>4, <2>5 DEF Safe
<1>2. CASE HandlerAccepts
  <2>1. /\ pc = "failing" /\ pc' \in {"returned", "raised"} /\ stopAs' = stopAs
        /\ run' = stopAs /\ current' = NoStage
        /\ release' = IF stopAs = "awaiting_approval" THEN "stopped" ELSE "failed"
        /\ stage' = [s \in Stages |-> AfterFailure(s)]
        /\ UNCHANGED <<config, evidence, decision, leaseLost, rollouts, faults, selected, overridden>>
    BY <1>2 DEF HandleFailure, Goto, bindings, startUp
  <2>2. run \in {"queued", "running"}
    <3>1. run # "succeeded"
      BY <1>2 DEF HandlerAccepts, CanTransition, AllowedTransitions, ExecutionStatuses, StatusOf, Safe, TypeOK, StopOutcomes
    <3> QED
      BY <2>1, <3>1 DEF Safe, TypeOK, RunMatchesProgram, Settled
  <2>3. stopAs \in StopOutcomes /\ StatusOf(stopAs) \in {"failed", "blocked", "unavailable"}
    BY DEF Safe, TypeOK, StopOutcomes, StatusOf
  <2>4. \A s \in Stages :
            /\ s = current /\ stage[s] = "running" => stage'[s] = StatusOf(stopAs)
            /\ s > current /\ stage[s] = "queued" => stage'[s] = "cancelled"
            /\ ~(s = current /\ stage[s] = "running") /\ ~(s > current /\ stage[s] = "queued") => stage'[s] = stage[s]
    BY <2>1 DEF AfterFailure
  <2>5. /\ run = "queued" => current = NoStage /\ \A s \in Stages : stage[s] \notin {"running", "succeeded"}
        /\ run = "running" =>
              /\ current \in Stages
              /\ \A s \in Stages :
                    /\ s < current => stage[s] \in {"succeeded", "skipped"}
                    /\ s > current => stage[s] \in {"queued", "skipped", "unavailable"}
              /\ stage[current] # "queued"
    BY <2>2 DEF Safe, RunMatchesProgram, Frontier
  <2>6. /\ \A s \in Stages : stage'[s] \notin {"queued", "running"}
        /\ \A s \in Stages : stage'[s] = "succeeded" <=> stage[s] = "succeeded"
        /\ \A s \in Stages : stage'[s] = "skipped" <=> stage[s] = "skipped"
        /\ \A s \in Stages : stage[s] = "running" => stage'[s] \in {"failed", "blocked", "unavailable"}
        /\ \A s \in Stages : stage[s] \notin {"queued", "running"} => stage'[s] = stage[s]
    <3>1. ASSUME NEW s \in Stages PROVE
              /\ stage'[s] \notin {"queued", "running"}
              /\ stage'[s] = "succeeded" <=> stage[s] = "succeeded"
              /\ stage'[s] = "skipped" <=> stage[s] = "skipped"
              /\ stage[s] = "running" => stage'[s] \in {"failed", "blocked", "unavailable"}
              /\ stage[s] \notin {"queued", "running"} => stage'[s] = stage[s]
      <4>1. stage[s] = "running" => s = current
        BY <2>2, <2>5
      <4>2. stage[s] = "queued" /\ s # current => s > current
        BY <2>2, <2>5
      <4>3. stage[s] = "queued" => s # current
        BY <2>2, <2>5
      <4> QED
        BY <2>3, <2>4, <4>1, <4>2, <4>3
    <3> QED
      BY <3>1
  <2>7. TypeOK'
    <3>1. stage' \in [Stages -> ExecutionStatuses]
      <4>1. \A s \in Stages : stage'[s] \in ExecutionStatuses
        BY <2>3, <2>4 DEF Safe, TypeOK, ExecutionStatuses
      <4> QED
        BY <2>1, <4>1
    <3>2. run' \in RunStates /\ release' \in ReleaseStatuses /\ pc' \in Ended
      BY <2>1, <2>3 DEF RunStates, ExecutionStatuses, StopOutcomes, ReleaseStatuses, Ended
    <3> QED
      BY <2>1, <3>1, <3>2 DEF Safe, TypeOK
  <2>8. NothingRunsOverAGap' /\ EntryIsFresh' /\ PlanningIsEarly' /\ RunMatchesProgram' /\ Frontier'
    BY <2>1, <2>3, <2>6
       DEF Safe, NothingRunsOverAGap, PredecessorsComplete, EntryIsFresh, PlanningIsEarly, RunMatchesProgram,
           Frontier, Working, Ended, StopOutcomes
  <2>9. SkipsFitTheMode' /\ NothingPassesUnproven'
    BY <2>1, <2>6 DEF Safe, SkipsFitTheMode, NothingPassesUnproven, RefusedStages
  <2>10. ValidationIsPlannedAway'
    <3>1. \A s \in Stages : stage[s] = "queued" => stage'[s] = "cancelled"
      BY <2>2, <2>4, <2>5
    <3> QED
      BY <2>1, <2>6, <3>1 DEF Safe, ValidationIsPlannedAway
  <2>11. WaitsOnlyAtTheGate'
    BY <2>1, <2>3, <2>6 DEF Safe, WaitsOnlyAtTheGate, StopOutcomes
  <2>12. RolloutFitsTheStage'
    BY <2>1, <2>6 DEF Safe, RolloutFitsTheStage, PredecessorsComplete, Working
  <2>13. SettledRunIsQuiet' /\ RunningReleaseIsComplete'
    BY <2>1, <2>6 DEF SettledRunIsQuiet, RunningReleaseIsComplete
  <2>14. GateHolds'
    <3> SUFFICES ASSUME stopAs = "awaiting_approval" PROVE GateHolds'
      BY <2>1, <2>3 DEF GateHolds, StopOutcomes
    <3>1. /\ run = "running" /\ current = Approval /\ stage[Approval] = "blocked"
          /\ \A s \in Stages : s > Approval => stage[s] \in {"queued", "skipped"}
          /\ \A s \in Stages : s < Approval => stage[s] \in {"succeeded", "skipped"}
      BY <2>1, <2>5 DEF Safe, WaitsOnlyAtTheGate
    <3>2. rollouts = 0
      BY <3>1 DEF Safe, TypeOK, RolloutFitsTheStage, PredecessorsComplete
    <3> QED
      BY <2>1, <2>4, <3>1, <3>2 DEF GateHolds
  <2> QED
    BY <2>7, <2>8, <2>9, <2>10, <2>11, <2>12, <2>13, <2>14 DEF Safe
<1> QED
  BY <1>1, <1>2

\* A step that only moves the program out of its work, or changes nothing the
\* invariant looks at.
LEMMA LeaveSafe ==
    ASSUME Safe, pc' = pc \/ pc' \in {"raised", "dead"},
           UNCHANGED <<bindings, stage, run, current, release, rollouts, stopAs>>,
           leaseLost' \in BOOLEAN, faults' \in 0 .. MaxFaults,
           decision' \in {"pending", "approved", "consumed", "rejected"},
           pc' # pc => run \notin Settled \/ pc = "failing",
           UNCHANGED startUp
    PROVE  Safe'
<1>1. UNCHANGED <<config, evidence, stage, run, current, release, rollouts, stopAs, selected, overridden>>
  BY DEF bindings, startUp
<1>2. TypeOK'
  BY <1>1 DEF Safe, TypeOK, Ended
<1>3. NothingRunsOverAGap' /\ EntryIsFresh' /\ PlanningIsEarly' /\ RunMatchesProgram' /\ Frontier'
  BY <1>1 DEF Safe, NothingRunsOverAGap, PredecessorsComplete, EntryIsFresh, PlanningIsEarly,
              RunMatchesProgram, Frontier, Working, Ended
<1>4. SkipsFitTheMode' /\ NothingPassesUnproven' /\ ValidationIsPlannedAway' /\ WaitsOnlyAtTheGate'
  BY <1>1 DEF Safe, SkipsFitTheMode, NothingPassesUnproven, ValidationIsPlannedAway, WaitsOnlyAtTheGate
<1>5. RolloutFitsTheStage' /\ SettledRunIsQuiet' /\ RunningReleaseIsComplete' /\ GateHolds'
  BY <1>1 DEF Safe, RolloutFitsTheStage, PredecessorsComplete, SettledRunIsQuiet, RunningReleaseIsComplete, GateHolds
<1> QED
  BY <1>2, <1>3, <1>4, <1>5 DEF Safe

\* A crash or an outage leaves the rows as the last commit left them.
LEMMA FaultSafe == ASSUME Safe, FailureHandlerFails \/ Crash, UNCHANGED startUp PROVE Safe'
<1>1. /\ pc \in Working \cup {"failing"} /\ pc' \in {"raised", "dead"}
      /\ stopAs' = stopAs /\ faults' = faults + 1 /\ faults < MaxFaults
      /\ UNCHANGED <<bindings, stage, run, current, release, decision, leaseLost, rollouts>>
  BY DEF FailureHandlerFails, Crash, Goto, records
<1>2. faults' \in 0 .. MaxFaults
  BY <1>1, SettingsAssumption DEF Safe, TypeOK
<1>3. run \notin Settled \/ pc = "failing"
  BY <1>1 DEF Safe, RunMatchesProgram, Working, Ended
<1>4. leaseLost' \in BOOLEAN /\ decision' \in {"pending", "approved", "consumed", "rejected"}
  BY <1>1 DEF Safe, TypeOK
<1> QED
  BY <1>1, <1>2, <1>3, <1>4, LeaveSafe

\* Neither a lost lease nor an approval touches the run.
LEMMA OwnerAndLeaseSafe == ASSUME Safe, LoseLease \/ ApprovePipelineRun, UNCHANGED startUp PROVE Safe'
<1>1. /\ UNCHANGED <<bindings, stage, run, current, release, rollouts, stopAs, pc, faults>>
      /\ leaseLost' \in BOOLEAN
      /\ decision' \in {"pending", "approved", "consumed", "rejected"}
  BY DEF LoseLease, ApprovePipelineRun, records, program, Safe, TypeOK
<1>2. faults' \in 0 .. MaxFaults
  BY <1>1 DEF Safe, TypeOK
<1> QED
  BY <1>1, <1>2, LeaveSafe

\* A reconciliation fails only a release that is still active.
LEMMA FailReleaseSafe == ASSUME Safe, FailRelease, UNCHANGED startUp PROVE Safe'
<1>1. /\ release \in {"queued", "building", "deploying"} /\ release' = "failed"
      /\ UNCHANGED <<config, evidence, stage, run, current, decision, pc, leaseLost, stopAs, rollouts, faults, selected, overridden>>
  BY DEF FailRelease, ActiveReleases, bindings, startUp, program
<1>2. TypeOK'
  BY <1>1 DEF Safe, TypeOK, ReleaseStatuses
<1>3. NothingRunsOverAGap' /\ EntryIsFresh' /\ PlanningIsEarly' /\ RunMatchesProgram' /\ Frontier'
  BY <1>1 DEF Safe, NothingRunsOverAGap, PredecessorsComplete, EntryIsFresh, PlanningIsEarly, RunMatchesProgram, Frontier
<1>4. SkipsFitTheMode' /\ NothingPassesUnproven' /\ ValidationIsPlannedAway' /\ WaitsOnlyAtTheGate'
  BY <1>1 DEF Safe, SkipsFitTheMode, NothingPassesUnproven, ValidationIsPlannedAway, WaitsOnlyAtTheGate
<1>5. RolloutFitsTheStage' /\ SettledRunIsQuiet' /\ RunningReleaseIsComplete' /\ GateHolds'
  BY <1>1 DEF Safe, RolloutFitsTheStage, PredecessorsComplete, SettledRunIsQuiet, RunningReleaseIsComplete, GateHolds
<1> QED
  BY <1>2, <1>3, <1>4, <1>5 DEF Safe

\* The start-up selects a release and leaves the run alone.
LEMMA ApiStartSafe == ASSUME Safe, ApiStart PROVE Safe'
<1>1. /\ selected' = TRUE
      /\ UNCHANGED <<config, evidence, stage, run, current, release, decision, pc, leaseLost, stopAs, rollouts, faults, overridden>>
  BY DEF ApiStart, bindings, records, program
<1>2. TypeOK'
  BY <1>1 DEF Safe, TypeOK
<1>3. NothingRunsOverAGap' /\ EntryIsFresh' /\ PlanningIsEarly' /\ RunMatchesProgram' /\ Frontier'
  BY <1>1 DEF Safe, NothingRunsOverAGap, PredecessorsComplete, EntryIsFresh, PlanningIsEarly, RunMatchesProgram, Frontier
<1>4. SkipsFitTheMode' /\ NothingPassesUnproven' /\ ValidationIsPlannedAway' /\ WaitsOnlyAtTheGate'
  BY <1>1 DEF Safe, SkipsFitTheMode, NothingPassesUnproven, ValidationIsPlannedAway, WaitsOnlyAtTheGate
<1>5. RolloutFitsTheStage' /\ SettledRunIsQuiet' /\ RunningReleaseIsComplete' /\ GateHolds'
  BY <1>1 DEF Safe, RolloutFitsTheStage, PredecessorsComplete, SettledRunIsQuiet, RunningReleaseIsComplete, GateHolds
<1> QED
  BY <1>2, <1>3, <1>4, <1>5 DEF Safe

\* Its stale write reaches the release alone: a run that waits keeps everything
\* but the "stopped", and that is recorded.
LEMMA RecoverSafe == ASSUME Safe, RecoverInterruptedDeployments PROVE Safe'
<1>1. /\ \/ release' = "failed" /\ overridden' = (overridden \/ release = "stopped")
         \/ UNCHANGED <<release, overridden>>
      /\ selected' = FALSE
      /\ UNCHANGED <<config, evidence, stage, run, current, decision, pc, leaseLost, stopAs, rollouts, faults>>
  BY DEF RecoverInterruptedDeployments, bindings, program
<1>2. TypeOK'
  <2>1. release' \in ReleaseStatuses /\ overridden' \in BOOLEAN
    BY <1>1 DEF Safe, TypeOK, ReleaseStatuses
  <2> QED
    BY <1>1, <2>1 DEF Safe, TypeOK
<1>3. NothingRunsOverAGap' /\ EntryIsFresh' /\ PlanningIsEarly' /\ RunMatchesProgram' /\ Frontier'
  BY <1>1 DEF Safe, NothingRunsOverAGap, PredecessorsComplete, EntryIsFresh, PlanningIsEarly, RunMatchesProgram, Frontier
<1>4. SkipsFitTheMode' /\ NothingPassesUnproven' /\ ValidationIsPlannedAway' /\ WaitsOnlyAtTheGate'
  BY <1>1 DEF Safe, SkipsFitTheMode, NothingPassesUnproven, ValidationIsPlannedAway, WaitsOnlyAtTheGate
<1>5. RolloutFitsTheStage' /\ SettledRunIsQuiet' /\ RunningReleaseIsComplete'
  BY <1>1 DEF Safe, RolloutFitsTheStage, PredecessorsComplete, SettledRunIsQuiet, RunningReleaseIsComplete
<1>6. GateHolds'
  BY <1>1 DEF Safe, GateHolds
<1> QED
  BY <1>2, <1>3, <1>4, <1>5, <1>6 DEF Safe

\* Turning a waiting run down cancels the gate and nothing before it.
LEMMA RejectSafe == ASSUME Safe, RejectPipelineRun, UNCHANGED startUp PROVE Safe'
<1>1. /\ run = "awaiting_approval" /\ stage[Approval] = "blocked" /\ PredecessorsComplete(Approval)
      /\ stage' = [s \in Stages |->
             IF s >= Approval /\ stage[s] \in {"queued", "blocked"} THEN "cancelled" ELSE stage[s]]
      /\ run' = "cancelled" /\ current' = NoStage /\ release' = "stopped" /\ decision' = "rejected"
      /\ UNCHANGED <<config, evidence, pc, leaseLost, stopAs, rollouts, faults, selected, overridden>>
  BY DEF RejectPipelineRun, ApprovalReady, bindings, startUp, program
<1>2. /\ rollouts = 0 /\ pc \in Ended \cup {"failing"} /\ pc # "failing"
      /\ \A s \in Stages : s < Approval => stage[s] \in {"succeeded", "skipped"}
      /\ \A s \in Stages : s > Approval => stage[s] \in {"cancelled", "skipped"}
  BY <1>1 DEF Safe, GateHolds, RunMatchesProgram, Settled, RunStates
<1>3. /\ \A s \in Stages : s # Approval => stage'[s] = stage[s]
      /\ stage'[Approval] = "cancelled"
  BY <1>1, <1>2
<1>4. TypeOK'
  <2>1. stage' \in [Stages -> ExecutionStatuses]
    <3>1. \A s \in Stages : stage'[s] \in ExecutionStatuses
      BY <1>3 DEF Safe, TypeOK, ExecutionStatuses
    <3> QED
      BY <1>1, <3>1
  <2> QED
    BY <1>1, <2>1 DEF Safe, TypeOK, RunStates, ExecutionStatuses, ReleaseStatuses
<1>5. NothingRunsOverAGap'
  BY <1>2, <1>3 DEF Safe, NothingRunsOverAGap, PredecessorsComplete
<1>6. EntryIsFresh' /\ PlanningIsEarly' /\ RunMatchesProgram' /\ Frontier'
  BY <1>1, <1>2, <1>3 DEF Safe, EntryIsFresh, PlanningIsEarly, RunMatchesProgram, Frontier, Working, Ended
<1>7. SkipsFitTheMode' /\ NothingPassesUnproven' /\ ValidationIsPlannedAway'
  BY <1>1, <1>2, <1>3 DEF Safe, SkipsFitTheMode, NothingPassesUnproven, RefusedStages, ValidationIsPlannedAway, Ended
<1>8. WaitsOnlyAtTheGate' /\ RunningReleaseIsComplete' /\ RolloutFitsTheStage'
  BY <1>1, <1>2, <1>3 DEF Safe, WaitsOnlyAtTheGate, RunningReleaseIsComplete, RolloutFitsTheStage, Ended
<1>9. SettledRunIsQuiet' /\ GateHolds'
  BY <1>1, <1>2, <1>3 DEF Safe, SettledRunIsQuiet, GateHolds, Settled, RunStates, ExecutionStatuses
<1> QED
  BY <1>4, <1>5, <1>6, <1>7, <1>8, <1>9 DEF Safe

-----------------------------------------------------------------------------
(* The theorems. *)

\* Every step of the program and of its surroundings keeps the invariant.
THEOREM StepSafe == Safe /\ [Next]_vars => Safe'
<1> SUFFICES ASSUME Safe, [Next]_vars PROVE Safe'
  OBVIOUS
<1>1. CASE ProgramStep /\ UNCHANGED startUp
  BY <1>1, EnterSafe, DisabledSafe, RunSafe, RefuseSafe, PassSafe, StopSafe, ContinueSafe, AwaitSafe,
     AbortSafe, ReconcileSafe, QualitySafe, AnnounceSafe, DeploySafe, ConcludeSafe, HandlerSafe
     DEF ProgramStep
<1>2. CASE (FailureHandlerFails \/ Crash) /\ UNCHANGED startUp
  BY <1>2, FaultSafe
<1>3. CASE (LoseLease \/ ApprovePipelineRun) /\ UNCHANGED startUp
  BY <1>3, OwnerAndLeaseSafe
<1>4. CASE FailRelease /\ UNCHANGED startUp
  BY <1>4, FailReleaseSafe
<1>5. CASE RejectPipelineRun /\ UNCHANGED startUp
  BY <1>5, RejectSafe
<1>api. CASE ApiStart
  BY <1>api, ApiStartSafe
<1>recover. CASE RecoverInterruptedDeployments
  BY <1>recover, RecoverSafe
<1>6. CASE UNCHANGED vars
  <2>1. UNCHANGED <<bindings, startUp, stage, run, current, release, rollouts, stopAs, pc, leaseLost, faults, decision>>
    BY <1>6 DEF vars, records, program
  <2>2. leaseLost' \in BOOLEAN /\ faults' \in 0 .. MaxFaults /\ decision' \in {"pending", "approved", "consumed", "rejected"}
    BY <2>1 DEF Safe, TypeOK
  <2> QED
    BY <2>1, <2>2, LeaveSafe
<1> QED
  BY <1>1, <1>2, <1>3, <1>4, <1>5, <1>6, <1>api, <1>recover DEF Next, RunStep

\* The inductive invariant holds of every reachable state.
THEOREM RunInvariance == Spec => []Safe
  BY SafeInit, StepSafe, PTL DEF Spec

\* The rows of a run hold only what their columns allow, and a run calls the
\* cloud at most once.
THEOREM RunTypeCorrect == Spec => []TypeOK
<1>1. Safe => TypeOK
  BY DEF Safe
<1> QED
  BY <1>1, RunInvariance, PTL

\* No stage runs or succeeds before everything in front of it, whatever the
\* source turned out to be and whoever ends the release meanwhile.
THEOREM NoGap == Spec => []NothingRunsOverAGap
<1>1. Safe => NothingRunsOverAGap
  BY DEF Safe
<1> QED
  BY <1>1, RunInvariance, PTL

\* A rollout always has the mode, the image, the plan and the approval that
\* its configuration asks for.
THEOREM AuthorisedRollout == Spec => []RolloutIsAuthorised
<1>1. Safe => RolloutIsAuthorised
  <2> SUFFICES ASSUME Safe, rollouts > 0 PROVE RolloutIsAuthorised
    BY DEF RolloutIsAuthorised
  <2>1. /\ stage[ApplicationDeployment] # "skipped"
        /\ \A s \in Stages : s < ApplicationDeployment => stage[s] \in {"succeeded", "skipped"}
    BY DEF Safe, TypeOK, RolloutFitsTheStage, PredecessorsComplete
  <2>2. config.mode # "validate_only"
    BY <2>1 DEF Safe, SkipsFitTheMode
  <2>3. stage[ContainerBuild] = "succeeded"
    BY <2>1, <2>2 DEF Safe, SkipsFitTheMode
  <2>4. stage[TerraformPlan] = "skipped"
    BY <2>1 DEF Safe, NothingPassesUnproven, RefusedStages
  <2>5. config.mode = "require_approval" => evidence /\ stage[Approval] = "succeeded"
    BY <2>1 DEF Safe, SkipsFitTheMode, NothingPassesUnproven
  <2> QED
    BY <2>2, <2>3, <2>4, <2>5 DEF RolloutIsAuthorised
<1> QED
  BY <1>1, RunInvariance, PTL

\* A validate-only run never builds or publishes an image, nor touches the cloud.
THEOREM ValidationIsHarmless == Spec => []ValidationPublishesNothing
<1>1. Safe => ValidationPublishesNothing
  BY DEF Safe, ValidationPublishesNothing, ValidationIsPlannedAway, SkipsFitTheMode
<1> QED
  BY <1>1, RunInvariance, PTL

\* A release reported running has a succeeded run with every stage done.
THEOREM RunningIsComplete == Spec => []RunningReleaseIsComplete
<1>1. Safe => RunningReleaseIsComplete
  BY DEF Safe
<1> QED
  BY <1>1, RunInvariance, PTL

\* A run that ended has no stage left open.
THEOREM SettledIsQuiet == Spec => []SettledRunIsQuiet
<1>1. Safe => SettledRunIsQuiet
  BY DEF Safe
<1> QED
  BY <1>1, RunInvariance, PTL

\* A run waits for its owner, or was turned down, only at the approval stage
\* and without having reached the cloud.
THEOREM GateIsClosed == Spec => []GateHolds
<1>1. Safe => GateHolds
  BY DEF Safe
<1> QED
  BY <1>1, RunInvariance, PTL

\* The rows of a run, its stages and its deployment tell one story.
THEOREM RunConsistency == Spec => []RunIsConsistent
<1>1. TypeOK /\ NothingRunsOverAGap /\ RunningReleaseIsComplete /\ SettledRunIsQuiet /\ GateHolds
        => RunIsConsistent
  BY DEF RunIsConsistent
<1> QED
  BY <1>1, RunTypeCorrect, NoGap, RunningIsComplete, SettledIsQuiet, GateIsClosed, PTL

-----------------------------------------------------------------------------
(* History. *)

\* Only queued, running, skipped and blocked rows are ever written again.
LEMMA StepKeepsHistory ==
    ASSUME Safe, Next
    PROVE  /\ \A s \in Stages :
                 stage[s] \in {"succeeded", "failed", "unavailable", "cancelled"} => stage'[s] = stage[s]
           /\ run \in {"succeeded", "failed", "unavailable", "cancelled"} => run' = run
<1> DEFINE Kept == /\ \A s \in Stages :
                         stage[s] \in {"succeeded", "failed", "unavailable", "cancelled"} => stage'[s] = stage[s]
                   /\ run \in {"succeeded", "failed", "unavailable", "cancelled"} => run' = run
<1> SUFFICES Kept
  OBVIOUS
<1> USE DEF Commit, StartStage
<1>1. ASSUME NEW s \in Stages, NEW status, stage[s] \in {"queued", "running"},
             stage' = [stage EXCEPT ![s] = status], run' = run \/ (run = "queued" /\ run' = "running")
      PROVE  Kept
  BY <1>1 DEF Safe, TypeOK
<1>2. ASSUME UNCHANGED <<stage, run>> PROVE Kept
  BY <1>2
<1>3. CASE EnterPipeline
  <2>1. stage[Source] \in {"queued", "skipped"} /\ stage[Source] # "skipped"
    BY <1>3 DEF EnterPipeline, Safe, EntryIsFresh, SkipsFitTheMode
  <2> QED
    BY <1>1, <1>2, <1>3, <2>1 DEF EnterPipeline
<1>4. CASE BlockDisabled
  <2>1. stage[Source] \in {"queued", "skipped"} /\ stage[Source] # "skipped"
    BY <1>4 DEF BlockDisabled, Safe, EntryIsFresh, SkipsFitTheMode
  <2> QED
    BY <1>1, <1>4, <2>1 DEF BlockDisabled
<1>5. ASSUME NEW s \in Stages,
             RunStage(s) \/ RefuseStage(s) \/ PassStage(s) \/ StopStage(s) \/ ContinueDemo(s)
      PROVE  Kept
  <2> HIDE DEF Kept
  <2>1. stage[s] \in {"queued", "running"}
    BY <1>5 DEF RunStage, RefuseStage, PassStage, StopStage, ContinueDemo, InHand, Due
  <2>2. CASE RunStage(s)
    <3>1. \/ stage' = [stage EXCEPT ![s] = "running"] /\ run' = IF run = "queued" THEN "running" ELSE run
          \/ UNCHANGED <<stage, run>>
      BY <2>2 DEF RunStage
    <3> QED
      BY <1>1, <1>2, <2>1, <3>1
  <2>3. CASE RefuseStage(s) \/ PassStage(s) \/ ContinueDemo(s)
    <3>1. PICK status \in {"unavailable", "succeeded"} : stage' = [stage EXCEPT ![s] = status] /\ run' = run
      BY <2>3 DEF RefuseStage, PassStage, ContinueDemo
    <3> QED
      BY <2>1, <3>1 DEF Kept, Safe, TypeOK
  <2>4. CASE StopStage(s)
    <3>1. PICK status \in Verdicts(s) : stage' = [stage EXCEPT ![s] = status] /\ run' = run
      BY <2>4 DEF StopStage
    <3> QED
      BY <2>1, <3>1 DEF Kept, Safe, TypeOK
  <2> QED
    BY <1>5, <2>2, <2>3, <2>4
<1>6. CASE AwaitApproval
  BY <1>1, <1>6 DEF AwaitApproval, InHand
<1>7. CASE Abort \/ AnnounceRollout \/ DeployImage \/ FailureHandlerFails \/ Crash \/ LoseLease \/ FailRelease
           \/ ApprovePipelineRun \/ ApiStart \/ RecoverInterruptedDeployments
  BY <1>2, <1>7 DEF Abort, AnnounceRollout, DeployImage, FailureHandlerFails, Crash, LoseLease, FailRelease,
                    ApprovePipelineRun, ApiStart, RecoverInterruptedDeployments, records
<1>8. CASE Reconcile
  BY <1>8 DEF Reconcile
<1>9. CASE SettleCodeQuality
  BY <1>1, <1>2, <1>9 DEF SettleCodeQuality
<1>10. CASE Conclude
  <2>1. run = "running"
    BY <1>10 DEF Conclude, FinalStatus, Safe, RunMatchesProgram, Working
  <2> QED
    BY <1>10, <2>1 DEF Conclude, FinalStatus
<1>11. CASE HandleFailure
  <2>1. CASE HandlerAccepts
    <3>1. run \in {"succeeded", "failed", "unavailable", "cancelled"} => run' = run
      BY <1>11, <2>1 DEF HandleFailure, HandlerAccepts, CanTransition, AllowedTransitions, ExecutionStatuses,
                         StatusOf, Safe, TypeOK, StopOutcomes, RunStates, RunMatchesProgram, Settled
    <3>2. stage' = [s \in Stages |-> AfterFailure(s)]
      BY <1>11, <2>1 DEF HandleFailure
    <3> QED
      BY <3>1, <3>2 DEF AfterFailure
  <2>2. CASE ~HandlerAccepts
    BY <1>2, <1>11, <2>2 DEF HandleFailure
  <2> QED
    BY <2>1, <2>2
<1>12. CASE RejectPipelineRun
  BY <1>12 DEF RejectPipelineRun, ApprovalReady
<1> QED
  BY <1>3, <1>4, <1>5, <1>6, <1>7, <1>8, <1>9, <1>10, <1>11, <1>12 DEF Next, RunStep, ProgramStep

\* Execution history is immutable: a stage or run that ended keeps its outcome.
THEOREM HistoryStays == Spec => HistoryIsImmutable
<1>1. Safe /\ [Next]_vars =>
          [/\ \A s \in Stages :
                 stage[s] \in {"succeeded", "failed", "unavailable", "cancelled"} => stage'[s] = stage[s]
           /\ run \in {"succeeded", "failed", "unavailable", "cancelled"} => run' = run]_vars
  BY StepKeepsHistory
<1> QED
  BY <1>1, RunInvariance, PTL DEF Spec, HistoryIsImmutable

-----------------------------------------------------------------------------
(* The program refines the outline that the queue knows. *)

\* What of the queue's outline a step of the program does not touch.
LEMMA Stutters ==
    ASSUME UNCHANGED <<release, run, rollouts, stopAs, faults>>,
           WorkerPhase' = WorkerPhase, pc # "dead", pc' # "dead"
    PROVE  UNCHANGED Queue!vars
BY DEF Queue!vars, Queue!rowVars, Queue!recordVars, Queue!workerVars, Queue!envVars

\* The program's one worker moves on.
LEMMA MovesOn ==
    ASSUME NEW phase, WorkerPhase' = phase
    PROVE  Queue!Goto("worker", phase)
BY DEF Queue!Goto

LEMMA StopsWith ==
    ASSUME NEW how, WorkerPhase' = "failing", pc # "dead", pc' # "dead", stopAs' = how
    PROVE  Queue!Stop("worker", how)
BY MovesOn DEF Queue!Stop

LEMMA QueueStops ==
    ASSUME WorkerPhase \in {"checks", "verify"}, NEW how \in StopOutcomes,
           how = "awaiting_approval" => WorkerPhase = "checks",
           WorkerPhase' = "failing", pc # "dead", pc' # "dead", stopAs' = how,
           UNCHANGED <<release, run, rollouts, faults>>
    PROVE  Queue!PipelineStops("worker")
BY StopsWith DEF Queue!PipelineStops, StopOutcomes, Queue!StopOutcomes,
   Queue!rowVars, Queue!recordVars, Queue!envVars

\* The program enters: the queue's worker enters or stops.
LEMMA QueueEnters ==
    ASSUME pc = "enter", release = "building", ~leaseLost, run' = "running",
           WorkerPhase' = "checks", pc' # "dead",
           UNCHANGED <<release, rollouts, stopAs, faults>>
    PROVE  Queue!EnterPipeline("worker")
<1>1. WorkerPhase = "enter"
  BY DEF WorkerPhase
<1>2. Queue!Goto("worker", "checks")
  BY MovesOn
<1> QED
  BY <1>1, <1>2 DEF Queue!EnterPipeline, Queue!rowVars, Queue!envVars

LEMMA QueueStopsAtTheDoor ==
    ASSUME pc = "enter", NEW how \in {"failed", "blocked", "unavailable"}, pc' = "failing", stopAs' = how,
           UNCHANGED <<release, run, rollouts, faults>>
    PROVE  Queue!EnterPipeline("worker")
<1>1. WorkerPhase = "enter" /\ WorkerPhase' = "failing"
  BY DEF WorkerPhase
<1>2. Queue!Stop("worker", how)
  BY <1>1, StopsWith
<1> QED
  BY <1>1, <1>2 DEF Queue!EnterPipeline, Queue!rowVars, Queue!envVars

\* The handler answers as the queue's does.
LEMMA SameTransitions ==
    /\ \A from, to : Queue!CanTransition(from, to) = CanTransition(from, to)
    /\ \A r : Queue!StatusOf(r) = StatusOf(r)
<1>1. Queue!ExecutionStatuses = ExecutionStatuses
  BY DEF Queue!ExecutionStatuses, ExecutionStatuses
<1>2. Queue!AllowedTransitions = AllowedTransitions
  BY <1>1 DEF Queue!AllowedTransitions, AllowedTransitions
<1>3. \A from, to : Queue!CanTransition(from, to) = CanTransition(from, to)
  BY <1>2 DEF Queue!CanTransition, CanTransition
<1>4. \A r : Queue!StatusOf(r) = StatusOf(r)
  BY DEF Queue!StatusOf, StatusOf
<1> QED
  BY <1>3, <1>4

\* Before the rollout the queue's worker checks, afterwards it verifies; a program
\* that concludes without a rollout is a validation.
LEMMA PhaseTells ==
    Safe /\ pc \in {"plan", "quality", "stages", "announce", "conclude"} =>
        WorkerPhase = IF rollouts = 0 THEN "checks" ELSE "verify"
<1> SUFFICES ASSUME Safe, pc \in {"plan", "quality", "stages", "announce", "conclude"}
             PROVE  WorkerPhase = IF rollouts = 0 THEN "checks" ELSE "verify"
  OBVIOUS
<1>1. CASE pc = "conclude"
  <2>1. stage[ApplicationDeployment] \in {"succeeded", "skipped"}
    <3>1. NothingRunsOverAGap /\ stage[DeploymentComplete] = "succeeded"
      BY <1>1 DEF Safe, RunMatchesProgram
    <3> QED
      BY <3>1 DEF NothingRunsOverAGap
  <2>2. config.mode = "validate_only" <=> rollouts = 0
    BY <2>1 DEF Safe, TypeOK, SkipsFitTheMode, RolloutFitsTheStage
  <2> QED
    BY <1>1, <2>2 DEF WorkerPhase
<1>2. CASE pc # "conclude"
  BY <1>2 DEF WorkerPhase
<1> QED
  BY <1>1, <1>2

LEMMA PhaseTellsNext ==
    (Safe /\ pc \in {"plan", "quality", "stages", "announce", "conclude"} =>
        WorkerPhase = IF rollouts = 0 THEN "checks" ELSE "verify")'
BY PhaseTells, PTL

LEMMA StepFollows ==
    ASSUME Safe, Safe', Next
    PROVE  Queue!Next \/ FailRelease \/ RecoverInterruptedDeployments \/ UNCHANGED Queue!vars
<1> DEFINE Follows == Queue!Next \/ FailRelease \/ RecoverInterruptedDeployments \/ UNCHANGED Queue!vars
<1> SUFFICES Follows
  OBVIOUS
<1> USE DEF bindings, records, program
<1>a. Queue!WorkerStep("worker") \/ Queue!FailureHandlerFails("worker") \/ Queue!Crash("worker") => Follows
  BY DEF Queue!Next
<1>b. Queue!EnterPipeline("worker") \/ Queue!PipelineStops("worker") \/ Queue!FinishValidation("worker")
      \/ Queue!StartRollout("worker") \/ Queue!RollOut("worker") \/ Queue!FinishRelease("worker")
      \/ Queue!HandlePipelineFailure("worker") => Follows
  BY <1>a DEF Queue!WorkerStep
<1>1. CASE EnterPipeline
  <2>1. CASE StartStage(Source) /\ Goto("stages")
    <3>1. WorkerPhase' = "checks"
      BY <1>1, <2>1 DEF Safe, EntryIsFresh, Goto, WorkerPhase, EnterPipeline
    <3>2. run' = "running" /\ ~leaseLost /\ release = "building"
      BY <1>1, <2>1 DEF EnterPipeline, Safe, EntryIsFresh, StartStage, Commit, Raise, Goto
    <3> QED
      BY <1>1, <2>1, <3>1, <3>2, <1>b, QueueEnters DEF EnterPipeline, Goto
  <2>2. CASE Raise("blocked") /\ UNCHANGED <<stage, run, current>>
    BY <1>1, <2>2, <1>b, QueueStopsAtTheDoor DEF EnterPipeline, Raise
  <2> QED
    BY <1>1, <2>1, <2>2 DEF EnterPipeline
<1>2. CASE BlockDisabled
  BY <1>2, <1>b, QueueStopsAtTheDoor DEF BlockDisabled, Raise
<1>3. CASE FailRelease \/ RecoverInterruptedDeployments
  BY <1>3
<1>4. CASE LoseLease \/ ApprovePipelineRun \/ ApiStart
  <2>1. WorkerPhase' = WorkerPhase /\ UNCHANGED <<pc, release, run, rollouts, stopAs, faults>>
    BY <1>4 DEF LoseLease, ApprovePipelineRun, ApiStart, WorkerPhase
  <2> QED
    BY <2>1 DEF Queue!vars, Queue!rowVars, Queue!recordVars, Queue!workerVars, Queue!envVars
<1>5. CASE FailureHandlerFails
  <2>1. WorkerPhase = "failing" /\ WorkerPhase' = "error"
    BY <1>5 DEF FailureHandlerFails, Goto, WorkerPhase
  <2>2. Queue!Goto("worker", "error")
    BY <2>1, MovesOn
  <2>3. Queue!FailureHandlerFails("worker")
    BY <1>5, <2>1, <2>2 DEF FailureHandlerFails, Goto, Queue!FailureHandlerFails, Queue!rowVars, Queue!recordVars
  <2> QED
    BY <2>3, <1>a
<1>6. CASE Crash
  <2>1. WorkerPhase # "idle" /\ WorkerPhase' = "idle"
    BY <1>6 DEF Crash, Goto, WorkerPhase, Working
  <2>2. Queue!Goto("worker", "idle")
    BY <2>1, MovesOn
  <2>3. Queue!Retire("worker")
    BY <1>6, <2>2 DEF Crash, Goto, Queue!Retire, Queue!NoClaim
  <2>4. Queue!Crash("worker")
    BY <1>6, <2>1, <2>3 DEF Crash, Queue!Crash, Queue!rowVars, Queue!recordVars, Queue!NotSelected
  <2> QED
    BY <2>4, <1>a
<1>7. CASE RejectPipelineRun
  <2>1. run = "awaiting_approval" /\ WorkerPhase' = WorkerPhase
    BY <1>7 DEF RejectPipelineRun, ApprovalReady, WorkerPhase
  <2>2. Queue!RejectPipelineRun("release")
    BY <1>7, <2>1 DEF RejectPipelineRun, Queue!RejectPipelineRun, Queue!rowVars, Queue!workerVars, Queue!envVars
  <2> QED
    BY <2>2 DEF Queue!Next
<1>8. ASSUME NEW how \in {"failed", "blocked", "unavailable"}, Raise(how),
             pc \in Working \ {"enter", "deploy"}, UNCHANGED <<release, run, rollouts, faults>>
      PROVE  Follows
  <2>1. WorkerPhase \in {"checks", "verify"} /\ pc # "dead"
    BY <1>8, PhaseTells DEF Working
  <2>2. WorkerPhase' = "failing" /\ pc' # "dead"
    BY <1>8 DEF Raise, WorkerPhase
  <2> QED
    BY <1>8, <2>1, <2>2, <1>b, QueueStops DEF Raise, StopOutcomes
<1>9. ASSUME pc \in {"plan", "quality", "stages"}, pc' \in {"plan", "quality", "stages", "announce", "conclude"},
             UNCHANGED <<release, run, rollouts, stopAs, faults>>
      PROVE  Follows
  <2>1. WorkerPhase' = WorkerPhase
    BY <1>9, PhaseTells, PhaseTellsNext
  <2> QED
    BY <1>9, <2>1, Stutters
<1>10. ASSUME NEW s \in Stages,
              RunStage(s) \/ RefuseStage(s) \/ PassStage(s) \/ StopStage(s) \/ ContinueDemo(s)
       PROVE  Follows
  <2>1. pc = "stages" /\ run = "running"
    BY <1>10 DEF RunStage, RefuseStage, PassStage, StopStage, ContinueDemo, InHand, Due, Safe,
                 RunMatchesProgram, Working
  <2>2. CASE RunStage(s)
    <3>1. CASE Raise("failed") /\ UNCHANGED <<stage, run, current>>
      BY <2>1, <2>2, <3>1, <1>8 DEF RunStage, Working
    <3>2. CASE StartStage(s) /\ Goto(IF s = ApplicationDeployment THEN "announce" ELSE "stages")
      BY <2>1, <2>2, <3>2, <1>9 DEF RunStage, StartStage, Goto
    <3> QED
      BY <2>2, <3>1, <3>2 DEF RunStage
  <2>3. CASE RefuseStage(s)
    BY <2>1, <2>3, <1>8 DEF RefuseStage, Working
  <2>4. CASE PassStage(s)
    <3>1. pc' \in {"plan", "conclude", "stages"}
      BY <2>4 DEF PassStage, Goto
    <3> QED
      BY <2>1, <2>4, <3>1, <1>9 DEF PassStage, Goto
  <2>5. CASE StopStage(s)
    <3>1. PICK verdict \in Verdicts(s) : Raise(verdict)
      BY <2>5 DEF StopStage
    <3>2. verdict \in {"failed", "blocked", "unavailable"}
      BY DEF Verdicts
    <3> QED
      BY <2>1, <2>5, <3>1, <3>2, <1>8 DEF StopStage, Working
  <2>6. CASE ContinueDemo(s)
    BY <2>1, <2>6, <1>9 DEF ContinueDemo, Goto
  <2> QED
    BY <1>10, <2>2, <2>3, <2>4, <2>5, <2>6
<1>11. CASE AwaitApproval
  <2>1. /\ pc = "stages" /\ run = "running" /\ current = Approval /\ stage[Approval] = "running"
        /\ pc' = "failing" /\ stopAs' = "awaiting_approval"
    <3>1. InHand(Approval) /\ Raise("awaiting_approval")
      BY <1>11 DEF AwaitApproval
    <3> QED
      BY <3>1 DEF InHand, Raise, Safe, RunMatchesProgram, Working
  <2>2. rollouts = 0
    <3>1. rollouts \in {0, 1} /\ (rollouts = 1 => PredecessorsComplete(ApplicationDeployment))
      BY DEF Safe, TypeOK, RolloutFitsTheStage
    <3>2. PredecessorsComplete(ApplicationDeployment) => stage[Approval] \in {"succeeded", "skipped"}
      BY DEF PredecessorsComplete
    <3> QED
      BY <2>1, <3>1, <3>2
  <2>3. WorkerPhase = "checks" /\ WorkerPhase' = "failing"
    BY <2>1, <2>2, PhaseTells DEF WorkerPhase
  <2> QED
    BY <1>11, <2>1, <2>3, <1>b, QueueStops DEF AwaitApproval, StopOutcomes
<1>12. CASE Abort
  <2>1. PICK how \in {"failed", "blocked", "unavailable"} : Raise(how)
    BY <1>12 DEF Abort
  <2>2. CASE pc = "enter"
    BY <1>12, <2>1, <2>2, <1>b, QueueStopsAtTheDoor DEF Abort, Raise
  <2>3. CASE pc # "enter"
    BY <1>12, <2>1, <2>3, <1>8 DEF Abort
  <2> QED
    BY <2>2, <2>3
<1>13. CASE Reconcile \/ SettleCodeQuality
  BY <1>13, <1>9 DEF Reconcile, SettleCodeQuality, Goto
<1>14. CASE AnnounceRollout
  <2>1. WorkerPhase = "checks" /\ WorkerPhase' = "rollout"
    BY <1>14, PhaseTells DEF AnnounceRollout, Goto, Safe, RolloutFitsTheStage, WorkerPhase
  <2>2. Queue!Goto("worker", "rollout")
    BY <2>1, MovesOn
  <2>3. Queue!StartRollout("worker")
    BY <1>14, <2>1, <2>2 DEF AnnounceRollout, Goto, Queue!StartRollout, Queue!rowVars, Queue!envVars
  <2> QED
    BY <2>3, <1>b
<1>15. CASE DeployImage
  <2>1. WorkerPhase = "rollout" /\ rollouts = 0 /\ rollouts' = rollouts + 1
    BY <1>15 DEF DeployImage, WorkerPhase, Safe, RolloutFitsTheStage
  <2>2. \/ Queue!Goto("worker", "verify") /\ UNCHANGED stopAs /\ pc' # "dead"
        \/ \E how \in {"failed", "unavailable"} : Queue!Stop("worker", how) /\ pc' # "dead"
    <3>1. CASE Goto("stages")
      <4>1. WorkerPhase' = "verify"
        BY <2>1, <3>1 DEF Goto, WorkerPhase
      <4> QED
        BY <3>1, <4>1, MovesOn DEF Goto
    <3>2. ASSUME NEW how \in {"failed", "unavailable"}, Raise(how) PROVE Queue!Stop("worker", how) /\ pc' # "dead"
      <4>1. WorkerPhase' = "failing" /\ pc # "dead" /\ pc' # "dead"
        BY <1>15, <3>2 DEF DeployImage, Raise, WorkerPhase
      <4> QED
        BY <3>2, <4>1, StopsWith DEF Raise
    <3> QED
      BY <1>15, <3>1, <3>2 DEF DeployImage
  <2>3. Queue!RollOut("worker")
    BY <1>15, <2>1, <2>2 DEF DeployImage, Queue!RollOut, Queue!rowVars, Queue!envVars
  <2> QED
    BY <2>3, <1>b
<1>16. CASE Conclude
  <2> DEFINE ending == IF config.mode = "validate_only" THEN "stopped" ELSE "running"
  <2>1. /\ WorkerPhase = IF config.mode = "validate_only" THEN "checks" ELSE "verify"
        /\ run' = "succeeded" /\ release' = ending /\ UNCHANGED <<rollouts, faults>>
    BY <1>16 DEF Conclude, FinalStatus, WorkerPhase
  <2>2. /\ pc # "dead" /\ pc' # "dead"
        /\ \/ Queue!Goto("worker", "finished") /\ UNCHANGED stopAs
           \/ Queue!Stop("worker", "failed")
    <3>1. CASE Goto("returned")
      <4>1. WorkerPhase' = "finished"
        BY <3>1 DEF Goto, WorkerPhase
      <4> QED
        BY <1>16, <3>1, <4>1, MovesOn DEF Conclude, FinalStatus, Goto
    <3>2. CASE Raise("failed")
      <4>1. WorkerPhase' = "failing" /\ pc # "dead" /\ pc' # "dead"
        BY <1>16, <3>2 DEF Conclude, FinalStatus, Raise, WorkerPhase
      <4> QED
        BY <3>2, <4>1, StopsWith DEF Raise
    <3> QED
      BY <1>16, <3>1, <3>2 DEF Conclude, FinalStatus
  <2>3. Queue!Conclude("worker", ending)
    BY <2>1, <2>2 DEF Queue!Conclude, Queue!rowVars, Queue!envVars
  <2>4. Queue!FinishValidation("worker") \/ Queue!FinishRelease("worker")
    BY <2>1, <2>3 DEF Queue!FinishValidation, Queue!FinishRelease
  <2> QED
    BY <2>4, <1>b
<1>17. CASE HandleFailure
  <2>1. /\ WorkerPhase = "failing" /\ pc # "dead" /\ UNCHANGED <<stopAs, rollouts, faults>>
        /\ pc' \in {"returned", "raised"}
    BY <1>17 DEF HandleFailure, Goto, WorkerPhase
  <2>2. Queue!CanTransition(Queue!StatusOf(run), Queue!StatusOf(stopAs)) <=> HandlerAccepts
    BY SameTransitions DEF HandlerAccepts
  <2>3. /\ pc' = "returned" => Queue!Goto("worker", "finished")
        /\ pc' = "raised" => Queue!Goto("worker", "error")
    <3>1. /\ pc' = "returned" => WorkerPhase' = "finished"
          /\ pc' = "raised" => WorkerPhase' = "error"
      BY DEF WorkerPhase
    <3> QED
      BY <3>1, MovesOn
  <2>4. Queue!HandlePipelineFailure("worker")
    <3>1. CASE HandlerAccepts
      <4>1. /\ run' = stopAs
            /\ release' = IF stopAs = "awaiting_approval" THEN "stopped" ELSE "failed"
        BY <1>17, <3>1 DEF HandleFailure
      <4> QED
        BY <2>1, <2>2, <2>3, <3>1, <4>1 DEF Queue!HandlePipelineFailure, Queue!rowVars, Queue!envVars
    <3>2. CASE ~HandlerAccepts
      <4>1. UNCHANGED <<run, release>> /\ pc' = "raised"
        BY <1>17, <3>2 DEF HandleFailure, Goto
      <4> QED
        BY <2>1, <2>2, <2>3, <3>2, <4>1 DEF Queue!HandlePipelineFailure, Queue!rowVars, Queue!envVars
    <3> QED
      BY <3>1, <3>2
  <2> QED
    BY <2>4, <1>b
<1> QED
  BY <1>1, <1>2, <1>3, <1>4, <1>5, <1>6, <1>7, <1>10, <1>11, <1>12, <1>13, <1>14, <1>15, <1>16, <1>17
     DEF Next, RunStep, ProgramStep

\* The 24-stage program refines the outline of the pipeline that the queue
\* composes with leases, reconciliations and other workers: each of its steps is
\* one that the queue's worker may take there, or one that the queue does not see.
THEOREM RefinesTheOutline == Spec => FollowsTheQueue
<1>1. Safe /\ Safe' /\ [Next]_vars => [Queue!Next \/ FailRelease \/ RecoverInterruptedDeployments]_(Queue!vars)
  <2> SUFFICES ASSUME Safe, Safe', [Next]_vars
               PROVE  Queue!Next \/ FailRelease \/ RecoverInterruptedDeployments \/ UNCHANGED Queue!vars
    OBVIOUS
  <2>1. CASE Next
    BY <2>1, StepFollows
  <2>2. CASE UNCHANGED vars
    <3>1. UNCHANGED <<release, run, rollouts, stopAs, faults, pc, config>>
      BY <2>2 DEF vars, bindings, records, program
    <3>2. WorkerPhase' = WorkerPhase
      BY <3>1 DEF WorkerPhase
    <3> QED
      BY <3>1, <3>2 DEF Queue!vars, Queue!rowVars, Queue!recordVars, Queue!workerVars, Queue!envVars
  <2> QED
    BY <2>1, <2>2
<1> QED
  BY <1>1, RunInvariance, PTL DEF Spec, FollowsTheQueue

-----------------------------------------------------------------------------
(* Induction over the natural numbers, for sets *)

\* Every set of natural numbers has a least member.
LEMMA LeastMember ==
    ASSUME NEW S \in SUBSET Nat, S # {}
    PROVE  \E n \in S : \A m \in S : n <= m
<1> DEFINE R == OpToRel(<, Nat)
<1>1. IsWellFoundedOn(R, Nat)
  BY NatLessThanWellFounded
<1>2. \A x, y \in Nat : <<x, y>> \in R <=> x < y
  BY DEF OpToRel
<1> HIDE DEF R
<1>3. PICK x \in S : \A y \in S : ~(<<y, x>> \in R)
  BY <1>1, WFMin
<1>4. \A y \in S : x <= y
  <2> SUFFICES ASSUME NEW y \in S PROVE x <= y
    OBVIOUS
  <2>1. ~(y < x)
    BY <1>2, <1>3
  <2> QED
    BY <2>1
<1> QED
  BY <1>4

\* A set that has 0, and n + 1 with every n, has every natural number.
LEMMA NaturalsByInduction ==
    ASSUME NEW S, 0 \in S, \A n \in Nat : n \in S => n + 1 \in S
    PROVE  Nat \subseteq S
<1> SUFFICES ASSUME Nat \ S # {} PROVE FALSE
  OBVIOUS
<1>1. PICK n \in Nat \ S : \A m \in Nat \ S : n <= m
  BY LeastMember
<1>2. n # 0 /\ n - 1 \in Nat
  BY <1>1
<1>3. n - 1 \in S
  <2>1. ~(n <= n - 1)
    BY <1>1
  <2> QED
    BY <1>1, <1>2, <2>1
<1> QED
  BY <1>1, <1>2, <1>3

-----------------------------------------------------------------------------
(* What fingerprints tell *)

Contents == [Kinds -> 0 .. 2]
Told     == Fields \ {"repository"}

\* A field of a fingerprint is a hash of some of the files, but for two.
LEMMA FingerprintFields ==
    ASSUME NEW files
    PROVE  /\ Fingerprint(files)["dependency"]     = HashFiles(files, InCategory(files, {"dependency"}))
           /\ Fingerprint(files)["dockerfile"]     = HashFiles(files, {"dockerfile"})
           /\ Fingerprint(files)["infrastructure"] = HashFiles(files, InCategory(files, {"infrastructure"}))
           /\ Fingerprint(files)["kubernetes"]     = HashFiles(files, InCategory(files, {"kubernetes"}))
           /\ Fingerprint(files)["configuration"]  =
                 HashFiles(files, InCategory(files, {"deployment", "security", "architecture"}) \ {"dockerfile", "env"})
           /\ Fingerprint(files)["framework"]      = files["entry"]
           /\ Fingerprint(files)["names"]          = Names(files)
BY DEF Fingerprint

\* Two hashes that are the same are of the same files.
LEMMA EqualHashes ==
    ASSUME NEW before \in Contents, NEW after \in Contents, NEW ks, NEW js, NEW k \in Kinds,
           HashFiles(before, ks) = HashFiles(after, js),
           (before[k] > 0 /\ k \in ks) \/ (after[k] > 0 /\ k \in js)
    PROVE  before[k] = after[k]
<1>1. DOMAIN HashFiles(before, ks) = ks \cap Present(before) /\ DOMAIN HashFiles(after, js) = js \cap Present(after)
  BY DEF HashFiles, Restrict
<1>2. k \in ks \cap Present(before) /\ k \in js \cap Present(after)
  BY <1>1 DEF Present
<1>3. HashFiles(before, ks)[k] = before[k] /\ HashFiles(after, js)[k] = after[k]
  BY <1>2 DEF HashFiles, Restrict
<1> QED
  BY <1>3

\* What each kind of file is filed under, as far as the proofs need it.
LEMMA KindsOfFiles ==
    /\ PathCategories["lockfile"] = {"dependency"} /\ PathCategories["dockerfile"] = {"deployment"}
    /\ PathCategories["workflow"] = {"deployment"} /\ PathCategories["compose"] = {"deployment", "architecture"}
    /\ PathCategories["auth"] = {"security", "application"}
    /\ PathCategories["terraform"] = {"infrastructure"} /\ PathCategories["chart"] = {"kubernetes"}
    /\ PathCategories["yaml"] = {}
BY DEF PathCategories

\* A file that is there and in one of the categories is among the files of the categories.
LEMMA CategoryMembers ==
    ASSUME NEW files \in Contents, NEW k \in Kinds \ {"yaml"}, NEW categories, files[k] > 0,
           PathCategories[k] \cap categories # {}
    PROVE  k \in InCategory(files, categories)
BY DEF InCategory, Present, FileCategories, ContentCategories


\* Equal fingerprints of the manifests: both commits have them or neither.
LEMMA ManifestsTell ==
    ASSUME NEW before \in Contents, NEW after \in Contents,
           Fingerprint(before)["kubernetes"] = Fingerprint(after)["kubernetes"]
    PROVE  before["yaml"] = 2 <=> after["yaml"] = 2
<1>0. "yaml" \in Kinds
  BY DEF Kinds
<1>1. ASSUME NEW a \in Contents, NEW b \in Contents, a["yaml"] = 2,
             HashFiles(a, InCategory(a, {"kubernetes"})) = HashFiles(b, InCategory(b, {"kubernetes"}))
      PROVE  b["yaml"] = 2
  <2>1. "yaml" \in InCategory(a, {"kubernetes"})
    BY <1>0, <1>1 DEF InCategory, Present, FileCategories, ContentCategories
  <2>2. a["yaml"] > 0
    BY <1>1
  <2>3. a["yaml"] = b["yaml"]
    BY <1>0, <1>1, <2>1, <2>2, EqualHashes
  <2> QED
    BY <1>1, <2>3
<1>2. HashFiles(before, InCategory(before, {"kubernetes"})) = HashFiles(after, InCategory(after, {"kubernetes"}))
  BY FingerprintFields
<1>3. ASSUME before["yaml"] = 2 PROVE after["yaml"] = 2
  BY <1>1, <1>2, <1>3
<1>4. ASSUME after["yaml"] = 2 PROVE before["yaml"] = 2
  BY <1>1, <1>2, <1>4
<1> QED
  BY <1>3, <1>4

\* A kind of files whose hash is a field: a change shows in the field.
LEMMA HashTells ==
    ASSUME NEW before \in Contents, NEW after \in Contents, NEW k \in Kinds \ {"yaml"}, NEW categories,
           NEW hidden, k \notin hidden, PathCategories[k] \cap categories # {},
           HashFiles(before, InCategory(before, categories) \ hidden)
             = HashFiles(after, InCategory(after, categories) \ hidden)
    PROVE  before[k] = after[k]
<1>1. before[k] \in 0 .. 2 /\ after[k] \in 0 .. 2
  BY DEF Contents
<1>2. CASE before[k] > 0
  <2>1. k \in InCategory(before, categories) \ hidden
    BY <1>2, CategoryMembers
  <2> QED
    BY <1>2, <2>1, EqualHashes
<1>3. CASE after[k] > 0
  <2>1. k \in InCategory(after, categories) \ hidden
    BY <1>3, CategoryMembers
  <2> QED
    BY <1>3, <2>1, EqualHashes
<1> QED
  BY <1>1, <1>2, <1>3

\* What deploys differently has another fingerprint.
LEMMA MattersTells ==
    ASSUME NEW before \in Contents, NEW after \in Contents, NEW k \in Kinds, before[k] # after[k],
           Matters(k, before[k], after[k])
    PROVE  /\ \E f \in Told : Fingerprint(before)[f] # Fingerprint(after)[f]
           /\ k = "terraform" => Fingerprint(before)["infrastructure"] # Fingerprint(after)["infrastructure"]
<1>0. {"dependency", "dockerfile", "infrastructure", "kubernetes", "configuration", "framework", "names"} \subseteq Told
  BY DEF Told, Fields
<1>a. ASSUME NEW categories, k \in Kinds \ {"yaml"}, PathCategories[k] \cap categories # {},
             HashFiles(before, InCategory(before, categories)) = HashFiles(after, InCategory(after, categories))
      PROVE  FALSE
  <2>1. /\ InCategory(before, categories) \ {} = InCategory(before, categories)
        /\ InCategory(after, categories) \ {} = InCategory(after, categories)
    OBVIOUS
  <2>2. HashFiles(before, InCategory(before, categories) \ {}) = HashFiles(after, InCategory(after, categories) \ {})
    BY <1>a, <2>1
  <2>3. k \notin {}
    OBVIOUS
  <2>4. before[k] = after[k]
    BY <1>a, <2>2, <2>3, HashTells
  <2> QED
    BY <2>4
<1>b. k \in {"entry", "auth", "lockfile", "dockerfile", "terraform", "chart", "yaml", "workflow", "compose", "env"}
  BY DEF Matters, Kinds
<1>1. CASE k = "entry"
  BY <1>0, <1>1, FingerprintFields
<1>2. CASE k \in {"auth", "workflow", "compose"}
  <2>1. /\ PathCategories[k] \cap {"deployment", "security", "architecture"} # {}
        /\ k \notin {"dockerfile", "env"} /\ k # "yaml"
    BY <1>2, KindsOfFiles
  <2>2. Fingerprint(before)["configuration"] # Fingerprint(after)["configuration"]
    <3> SUFFICES ASSUME Fingerprint(before)["configuration"] = Fingerprint(after)["configuration"] PROVE FALSE
      OBVIOUS
    <3> DEFINE categories == {"deployment", "security", "architecture"}
               hidden     == {"dockerfile", "env"}
    <3>1. /\ HashFiles(before, InCategory(before, categories) \ hidden) = HashFiles(after, InCategory(after, categories) \ hidden)
          /\ PathCategories[k] \cap categories # {} /\ k \notin hidden
      BY <2>1, FingerprintFields
    <3> HIDE DEF categories, hidden
    <3>2. before[k] = after[k]
      BY <2>1, <3>1, HashTells
    <3> QED
      BY <3>2
  <2> QED
    BY <1>0, <1>2, <2>2
<1>3. CASE k = "lockfile"
  <2>1. Fingerprint(before)["dependency"] # Fingerprint(after)["dependency"]
    <3> SUFFICES ASSUME Fingerprint(before)["dependency"] = Fingerprint(after)["dependency"] PROVE FALSE
      OBVIOUS
    <3> DEFINE categories == {"dependency"}
    <3>1. HashFiles(before, InCategory(before, categories)) = HashFiles(after, InCategory(after, categories))
      BY FingerprintFields
    <3>2. PathCategories[k] \cap categories # {} /\ k # "yaml"
      BY <1>3, KindsOfFiles
    <3> HIDE DEF categories
    <3> QED
      BY <1>a, <3>1, <3>2
  <2> QED
    BY <1>0, <1>3, <2>1
<1>4. CASE k = "terraform"
  <2>1. Fingerprint(before)["infrastructure"] # Fingerprint(after)["infrastructure"]
    <3> SUFFICES ASSUME Fingerprint(before)["infrastructure"] = Fingerprint(after)["infrastructure"] PROVE FALSE
      OBVIOUS
    <3> DEFINE categories == {"infrastructure"}
    <3>1. HashFiles(before, InCategory(before, categories)) = HashFiles(after, InCategory(after, categories))
      BY FingerprintFields
    <3>2. PathCategories[k] \cap categories # {} /\ k # "yaml"
      BY <1>4, KindsOfFiles
    <3> HIDE DEF categories
    <3> QED
      BY <1>a, <3>1, <3>2
  <2> QED
    BY <1>0, <2>1
<1>5. CASE k = "chart"
  <2>1. Fingerprint(before)["kubernetes"] # Fingerprint(after)["kubernetes"]
    <3> SUFFICES ASSUME Fingerprint(before)["kubernetes"] = Fingerprint(after)["kubernetes"] PROVE FALSE
      OBVIOUS
    <3> DEFINE categories == {"kubernetes"}
    <3>1. HashFiles(before, InCategory(before, categories)) = HashFiles(after, InCategory(after, categories))
      BY FingerprintFields
    <3>2. PathCategories[k] \cap categories # {} /\ k # "yaml"
      BY <1>5, KindsOfFiles
    <3> HIDE DEF categories
    <3> QED
      BY <1>a, <3>1, <3>2
  <2> QED
    BY <1>0, <1>5, <2>1
<1>6. CASE k = "yaml"
  <2>1. (before["yaml"] = 2) # (after["yaml"] = 2)
    BY <1>6 DEF Matters
  <2>2. Fingerprint(before)["kubernetes"] # Fingerprint(after)["kubernetes"]
    BY <2>1, ManifestsTell
  <2> QED
    BY <1>0, <1>6, <2>2
<1>7. CASE k = "dockerfile"
  <2>1. HashFiles(before, {"dockerfile"}) # HashFiles(after, {"dockerfile"})
    <3>1. before[k] \in 0 .. 2 /\ after[k] \in 0 .. 2
      BY DEF Contents
    <3>2. before[k] > 0 \/ after[k] > 0
      BY <3>1
    <3> QED
      BY <1>7, <3>2, EqualHashes
  <2>2. Fingerprint(before)["dockerfile"] # Fingerprint(after)["dockerfile"]
    BY <2>1, FingerprintFields
  <2> QED
    BY <1>0, <1>7, <2>2
<1>8. CASE k = "env"
  <2>1. before["env"] \in 0 .. 2 /\ after["env"] \in 0 .. 2
    BY <1>8 DEF Contents
  <2>2. Names(before) # Names(after)
    BY <1>8, <2>1 DEF Names, Matters
  <2>3. Fingerprint(before)["names"] # Fingerprint(after)["names"]
    BY <2>2, FingerprintFields
  <2> QED
    BY <1>0, <1>8, <2>3
<1> QED
  BY <1>b, <1>1, <1>2, <1>3, <1>4, <1>5, <1>6, <1>7, <1>8

\* Every field asks for a new analysis.
LEMMA FieldsTrigger == \A f \in Told : FieldCategory[f] \in TriggerCategories
BY DEF Told, Fields, FieldCategory, TriggerCategories

\* Two snapshots between which no field differs have the same architecture.
LEMMA NothingInferred ==
    ASSUME NEW before, NEW after, Inferred(before, after) \cap TriggerCategories = {}
    PROVE  Architecture(before) = Architecture(after)
<1>1. \A f \in Told : Fingerprint(before)[f] = Fingerprint(after)[f]
  BY FieldsTrigger DEF Inferred, Told
<1> QED
  BY <1>1 DEF Architecture, Restrict, Told

-----------------------------------------------------------------------------
(* The runs of a project.  What a run decided was decided for its commit and *)
(* the snapshot it names, however many snapshots were made since; and a      *)
(* snapshot that reuses another one's analysis names an older one.           *)

Categories == TriggerCategories \cup {"application"}

DecisionTypes == [required : BOOLEAN, categories : SUBSET Categories]
DetectionTypes == [at : {"new", "detect", "record", "recorded", "failed"}, revision : Nat, baseline : Nat,
                   decision : DecisionTypes]

\* A decision for two commits, whatever evidence there was of their difference.
DecidedFor(verdict, before, after) ==
    /\ verdict.required <=> verdict.categories \cap TriggerCategories # {}
    /\ Inferred(before, after) \subseteq verdict.categories

CommitsAre   == commits \in Seq(Contents)
SnapshotsAre == snapshots \in Seq([revision : Nat, reused : Nat])
RunsAre      == detection \in [Runs -> DetectionTypes]

CommitsOfSnapshots == \A s \in DOMAIN snapshots : snapshots[s].revision \in DOMAIN commits /\ snapshots[s].reused < s
CommitsOfRuns      == \A r \in Runs : detection[r].at # "new" => detection[r].revision \in DOMAIN commits
RevisionsOfNew     == \A r \in Runs : detection[r].at = "new" => detection[r].revision = 0
BaselinesAre       == \A r \in Runs : detection[r].baseline \in 0 .. Len(snapshots)

DecisionsStand == \A r \in Runs :
    detection[r].at \in {"record", "recorded"} /\ detection[r].baseline > 0 =>
        DecidedFor(detection[r].decision, commits[snapshots[detection[r].baseline].revision],
                   commits[detection[r].revision])

LinksAreSound == \A s \in DOMAIN snapshots :
    snapshots[s].reused > 0 =>
        Architecture(commits[snapshots[s].revision]) = Architecture(commits[snapshots[snapshots[s].reused].revision])

ChangesInv ==
    /\ CommitsAre /\ commits # <<>> /\ SnapshotsAre /\ RunsAre
    /\ CommitsOfSnapshots /\ CommitsOfRuns /\ RevisionsOfNew /\ BaselinesAre
    /\ DecisionsStand /\ LinksAreSound

\* A decision is one that stands for its two commits.
LEMMA Decides ==
    ASSUME NEW before, NEW after, NEW git
    PROVE  DecidedFor(Decision(before, after, git), before, after)
BY DEF DecidedFor, Decision

\* Files and fields are filed under categories that exist.
LEMMA CategoriesOfFiles ==
    /\ \A k \in Kinds : PathCategories[k] \subseteq Categories
    /\ \A f \in Told : FieldCategory[f] \in Categories
    /\ "kubernetes" \in Categories /\ "application" \in Categories
BY DEF Kinds, PathCategories, Told, Fields, FieldCategory, Categories, TriggerCategories

\* A decision names categories.
LEMMA DecisionIsTyped ==
    ASSUME NEW before, NEW after, NEW git \in BOOLEAN
    PROVE  Decision(before, after, git) \in DecisionTypes /\ FirstDecision(after) \in DecisionTypes
<1>1. RepositoryCategories(after) \subseteq Categories
  <2>1. ASSUME NEW k \in Present(after) PROVE FileCategories(after, k) \subseteq Categories
    BY CategoriesOfFiles DEF FileCategories, ContentCategories, Present
  <2> QED
    BY <2>1 DEF RepositoryCategories
<1>2. Inferred(before, after) \subseteq Categories
  BY CategoriesOfFiles DEF Inferred, Told
<1>3. DiffCategories(before, after, git) \subseteq Categories
  BY <1>1, CategoriesOfFiles DEF DiffCategories
<1>4. Unexplained(before, after, git) \subseteq Categories
  BY CategoriesOfFiles DEF Unexplained
<1> QED
  BY <1>1, <1>2, <1>3, <1>4 DEF Decision, FirstDecision, DecisionTypes

\* A sequence keeps what it had when something is appended.
LEMMA AtTheEnd ==
    ASSUME NEW S, NEW seq \in Seq(S), NEW e \in S
    PROVE  /\ Append(seq, e) \in Seq(S) /\ Len(Append(seq, e)) = Len(seq) + 1 /\ Len(seq) \in Nat
           /\ DOMAIN seq = 1 .. Len(seq) /\ DOMAIN Append(seq, e) = 1 .. Len(seq) + 1
           /\ \A i \in DOMAIN seq : Append(seq, e)[i] = seq[i]
           /\ Append(seq, e)[Len(seq) + 1] = e
OBVIOUS

\* The elements of a sequence over a set are in the set.
LEMMA MembersOf ==
    ASSUME NEW S, NEW seq \in Seq(S)
    PROVE  \A i \in DOMAIN seq : seq[i] \in S
OBVIOUS

\* A step of one run, which may add a commit or a snapshot.
LEMMA RunFrame ==
    ASSUME ChangesInv, CommitsAre', SnapshotsAre',
           \A c \in DOMAIN commits : c \in DOMAIN commits' /\ commits'[c] = commits[c],
           \A s \in DOMAIN snapshots : s \in DOMAIN snapshots' /\ snapshots'[s] = snapshots[s],
           \A s \in DOMAIN snapshots' \ DOMAIN snapshots :
              /\ snapshots'[s].revision \in DOMAIN commits' /\ snapshots'[s].reused < s
              /\ snapshots'[s].reused > 0 =>
                   Architecture(commits'[snapshots'[s].revision])
                     = Architecture(commits'[snapshots'[snapshots'[s].reused].revision]),
           NEW r \in Runs, NEW new \in DetectionTypes, detection' = [detection EXCEPT ![r] = new],
           new.at = "new" => new.revision = 0,
           new.at # "new" => new.revision \in DOMAIN commits',
           new.baseline \in 0 .. Len(snapshots),
           new.at \in {"record", "recorded"} /\ new.baseline > 0 =>
              DecidedFor(new.decision, commits'[snapshots'[new.baseline].revision], commits'[new.revision])
    PROVE  ChangesInv'
<1>0. /\ commits \in Seq(Contents) /\ commits' \in Seq(Contents)
      /\ snapshots \in Seq([revision : Nat, reused : Nat]) /\ snapshots' \in Seq([revision : Nat, reused : Nat])
      /\ detection \in [Runs -> DetectionTypes]
  BY DEF ChangesInv, CommitsAre, SnapshotsAre, RunsAre
<1>d. /\ DOMAIN commits = 1 .. Len(commits) /\ Len(commits) \in Nat
      /\ DOMAIN snapshots = 1 .. Len(snapshots) /\ DOMAIN snapshots' = 1 .. Len(snapshots')
      /\ Len(snapshots) \in Nat /\ Len(snapshots') \in Nat
  BY <1>0
<1>l. Len(snapshots) <= Len(snapshots')
  <2>1. CASE Len(snapshots) = 0
    BY <1>d, <2>1
  <2>2. CASE Len(snapshots) # 0
    <3>1. Len(snapshots) \in DOMAIN snapshots
      BY <1>d, <2>2
    <3>2. Len(snapshots) \in DOMAIN snapshots'
      BY <3>1
    <3> QED
      BY <1>d, <3>2
  <2> QED
    BY <2>1, <2>2
<1>1. /\ detection' \in [Runs -> DetectionTypes] /\ detection'[r] = new
      /\ \A q \in Runs : q # r => detection'[q] = detection[q]
  BY <1>0
<1>s. \A s \in DOMAIN snapshots : /\ snapshots[s].revision \in DOMAIN commits
                                  /\ snapshots[s].reused \in Nat /\ snapshots[s].reused < s
  <2>1. \A s \in DOMAIN snapshots : snapshots[s] \in [revision : Nat, reused : Nat]
    BY <1>0, MembersOf
  <2>2. \A s \in DOMAIN snapshots : snapshots[s].revision \in DOMAIN commits /\ snapshots[s].reused < s
    BY DEF ChangesInv, CommitsOfSnapshots
  <2> QED
    BY <2>1, <2>2
<1>2. commits' # <<>>
  <2>1. 1 \in DOMAIN commits
    BY <1>0, <1>d DEF ChangesInv
  <2>2. 1 \in DOMAIN commits'
    BY <2>1
  <2> QED
    BY <1>0, <2>2
<1>3. CommitsOfSnapshots'
  <2> SUFFICES ASSUME NEW s \in DOMAIN snapshots'
               PROVE  snapshots'[s].revision \in DOMAIN commits' /\ snapshots'[s].reused < s
    BY DEF CommitsOfSnapshots
  <2>1. CASE s \in DOMAIN snapshots
    BY <1>s, <2>1
  <2>2. CASE s \notin DOMAIN snapshots
    BY <2>2
  <2> QED
    BY <2>1, <2>2
<1>4. CommitsOfRuns' /\ RevisionsOfNew'
  <2> SUFFICES ASSUME NEW q \in Runs
               PROVE  /\ detection'[q].at # "new" => detection'[q].revision \in DOMAIN commits'
                      /\ detection'[q].at = "new" => detection'[q].revision = 0
    BY DEF CommitsOfRuns, RevisionsOfNew
  <2>1. CASE q = r
    BY <1>1, <2>1
  <2>2. CASE q # r
    BY <1>1, <2>2 DEF ChangesInv, CommitsOfRuns, RevisionsOfNew
  <2> QED
    BY <2>1, <2>2
<1>5. BaselinesAre'
  <2> SUFFICES ASSUME NEW q \in Runs PROVE detection'[q].baseline \in 0 .. Len(snapshots')
    BY DEF BaselinesAre
  <2>1. detection'[q].baseline \in 0 .. Len(snapshots)
    BY <1>1 DEF ChangesInv, BaselinesAre
  <2> QED
    BY <1>d, <1>l, <2>1
<1>6. DecisionsStand'
  <2> SUFFICES ASSUME NEW q \in Runs, detection'[q].at \in {"record", "recorded"}, detection'[q].baseline > 0
               PROVE  DecidedFor(detection'[q].decision, commits'[snapshots'[detection'[q].baseline].revision],
                                 commits'[detection'[q].revision])
    BY DEF DecisionsStand, DecidedFor
  <2>1. CASE q = r
    BY <1>1, <2>1
  <2>2. CASE q # r
    <3>1. detection'[q] = detection[q]
      BY <1>1, <2>2
    <3>2. detection[q].baseline \in DOMAIN snapshots /\ detection[q].revision \in DOMAIN commits
      BY <1>d, <3>1 DEF ChangesInv, BaselinesAre, CommitsOfRuns
    <3>3. /\ snapshots'[detection[q].baseline] = snapshots[detection[q].baseline]
          /\ commits'[detection[q].revision] = commits[detection[q].revision]
          /\ commits'[snapshots[detection[q].baseline].revision] = commits[snapshots[detection[q].baseline].revision]
      BY <1>s, <3>2
    <3>4. DecidedFor(detection[q].decision, commits[snapshots[detection[q].baseline].revision],
                     commits[detection[q].revision])
      BY <3>1 DEF ChangesInv, DecisionsStand
    <3> QED
      BY <3>1, <3>3, <3>4
  <2> QED
    BY <2>1, <2>2
<1>7. LinksAreSound'
  <2> SUFFICES ASSUME NEW s \in DOMAIN snapshots', snapshots'[s].reused > 0
               PROVE  Architecture(commits'[snapshots'[s].revision])
                        = Architecture(commits'[snapshots'[snapshots'[s].reused].revision])
    BY DEF LinksAreSound
  <2>1. CASE s \in DOMAIN snapshots
    <3> DEFINE t == snapshots[s].reused
    <3>1. snapshots'[s] = snapshots[s] /\ t \in DOMAIN snapshots
      BY <1>d, <1>s, <2>1
    <3>2. /\ snapshots'[t] = snapshots[t]
          /\ commits'[snapshots[s].revision] = commits[snapshots[s].revision]
          /\ commits'[snapshots[t].revision] = commits[snapshots[t].revision]
      BY <1>s, <2>1, <3>1
    <3>3. Architecture(commits[snapshots[s].revision]) = Architecture(commits[snapshots[t].revision])
      BY <2>1, <3>1 DEF ChangesInv, LinksAreSound
    <3> QED
      BY <3>1, <3>2, <3>3
  <2>2. CASE s \notin DOMAIN snapshots
    BY <2>2
  <2> QED
    BY <2>1, <2>2
<1> QED
  BY <1>0, <1>1, <1>2, <1>3, <1>4, <1>5, <1>6, <1>7 DEF ChangesInv, CommitsAre, SnapshotsAre, RunsAre

\* A project begins with one commit and no snapshot.
LEMMA ChangesInitInv == ChangesInit => ChangesInv
<1> SUFFICES ASSUME ChangesInit PROVE ChangesInv
  OBVIOUS
<1>1. PICK files \in Repositories : commits = <<files>>
  BY DEF ChangesInit
<1>2. snapshots = <<>> /\ detection = [r \in Runs |-> NewRun]
  BY DEF ChangesInit
<1>3. files \in Contents
  BY RepositoriesAssumption DEF Contents
<1>4. CommitsAre /\ commits # <<>>
  BY <1>1, <1>3 DEF CommitsAre
<1>5. SnapshotsAre /\ DOMAIN snapshots = {} /\ Len(snapshots) = 0
  BY <1>2 DEF SnapshotsAre
<1>6. NewRun \in DetectionTypes /\ NewRun.at = "new" /\ NewRun.revision = 0 /\ NewRun.baseline = 0
  BY DEF NewRun, NoDecision, DetectionTypes, DecisionTypes
<1>7. \A r \in Runs : detection[r] = NewRun
  BY <1>2
<1>8. RunsAre
  BY <1>2, <1>6 DEF RunsAre
<1>9. CommitsOfSnapshots /\ LinksAreSound
  BY <1>5 DEF CommitsOfSnapshots, LinksAreSound
<1>10. CommitsOfRuns /\ RevisionsOfNew /\ DecisionsStand
  BY <1>6, <1>7 DEF CommitsOfRuns, RevisionsOfNew, DecisionsStand
<1>11. BaselinesAre
  BY <1>5, <1>6, <1>7 DEF BaselinesAre
<1> QED
  BY <1>4, <1>5, <1>8, <1>9, <1>10, <1>11 DEF ChangesInv

\* No step of a run, nor a push, makes an earlier decision or link wrong.
LEMMA ChangesStep ==
    ASSUME ChangesInv, ChangesNext
    PROVE  ChangesInv'
<1>0. /\ commits \in Seq(Contents) /\ snapshots \in Seq([revision : Nat, reused : Nat])
      /\ detection \in [Runs -> DetectionTypes] /\ commits # <<>>
  BY DEF ChangesInv, CommitsAre, SnapshotsAre, RunsAre
<1>d. /\ DOMAIN commits = 1 .. Len(commits) /\ Len(commits) \in Nat \ {0}
      /\ DOMAIN snapshots = 1 .. Len(snapshots) /\ Len(snapshots) \in Nat
  BY <1>0
<1>r. \A r \in Runs :
         /\ detection[r] \in DetectionTypes /\ detection[r].baseline \in 0 .. Len(snapshots)
         /\ detection[r].at # "new" => detection[r].revision \in DOMAIN commits
         /\ detection[r].at = "new" => detection[r].revision = 0
  BY <1>0 DEF ChangesInv, BaselinesAre, CommitsOfRuns, RevisionsOfNew
<1>s. \A s \in DOMAIN snapshots : snapshots[s].revision \in DOMAIN commits
  BY DEF ChangesInv, CommitsOfSnapshots
<1>1. ASSUME NEW r \in Runs, NEW revision \in Nat, Requested(r, revision), UNCHANGED snapshots,
             CommitsAre', revision \in DOMAIN commits',
             \A c \in DOMAIN commits : c \in DOMAIN commits' /\ commits'[c] = commits[c]
      PROVE  ChangesInv'
  <2> DEFINE new == [detection[r] EXCEPT !.at = "detect", !.revision = revision]
  <2>1. detection' = [detection EXCEPT ![r] = new]
    BY <1>1 DEF Requested
  <2>2. /\ new \in DetectionTypes /\ new.at = "detect" /\ new.revision = revision
        /\ new.baseline = detection[r].baseline
    BY <1>r DEF DetectionTypes
  <2> HIDE DEF new
  <2>3. SnapshotsAre' /\ new.baseline \in 0 .. Len(snapshots)
    BY <1>0, <1>1, <1>r, <2>2 DEF SnapshotsAre
  <2> QED
    BY <1>1, <2>1, <2>2, <2>3, RunFrame
<1>2. ASSUME NEW r \in Runs, Request(r)
      PROVE  ChangesInv'
  <2>0. UNCHANGED snapshots
    BY <1>2 DEF Request
  <2>1. CASE Requested(r, Len(commits)) /\ UNCHANGED commits
    BY <1>0, <1>1, <1>d, <2>0, <2>1 DEF CommitsAre
  <2>2. ASSUME Requested(r, Len(commits) + 1), NEW files \in Commits, commits' = Append(commits, files)
        PROVE  ChangesInv'
    <3>1. PICK k \in Kinds, content \in 0 .. 2 : files = [commits[Len(commits)] EXCEPT ![k] = content]
      BY DEF Commits
    <3>2. commits[Len(commits)] \in Contents
      BY <1>0, <1>d
    <3>3. files \in Contents
      BY <3>1, <3>2 DEF Contents
    <3>4. /\ commits' \in Seq(Contents) /\ Len(commits) + 1 \in DOMAIN commits'
          /\ \A c \in DOMAIN commits : c \in DOMAIN commits' /\ commits'[c] = commits[c]
      BY <1>0, <1>d, <2>2, <3>3, AtTheEnd
    <3> QED
      BY <1>1, <1>d, <2>0, <2>2, <3>4 DEF CommitsAre
  <2>3. ASSUME NEW q \in Runs, detection[q].revision > 0, Requested(r, detection[q].revision), UNCHANGED commits
        PROVE  ChangesInv'
    <3>1. detection[q].revision \in DOMAIN commits /\ detection[q].revision \in Nat
      BY <1>r, <2>3 DEF DetectionTypes
    <3> QED
      BY <1>0, <1>1, <2>0, <2>3, <3>1 DEF CommitsAre
  <2> QED
    BY <1>2, <2>1, <2>2, <2>3 DEF Request
<1>3. ASSUME NEW r \in Runs, Detect(r)
      PROVE  ChangesInv'
  <2>1. /\ detection[r].at = "detect" /\ UNCHANGED <<commits, snapshots>>
        /\ \E git \in BOOLEAN :
              detection' = [detection EXCEPT ![r].at = "record", ![r].baseline = Len(snapshots),
                               ![r].decision = IF Len(snapshots) = 0 THEN FirstDecision(Files(r))
                                               ELSE Decision(commits[snapshots[Len(snapshots)].revision], Files(r), git)]
    BY <1>3 DEF Detect, LatestSnapshot
  <2>2. PICK git \in BOOLEAN :
              detection' = [detection EXCEPT ![r].at = "record", ![r].baseline = Len(snapshots),
                               ![r].decision = IF Len(snapshots) = 0 THEN FirstDecision(Files(r))
                                               ELSE Decision(commits[snapshots[Len(snapshots)].revision], Files(r), git)]
    BY <2>1
  <2> DEFINE before   == commits[snapshots[Len(snapshots)].revision]
             verdict == IF Len(snapshots) = 0 THEN FirstDecision(Files(r)) ELSE Decision(before, Files(r), git)
  <2>3. /\ verdict \in DecisionTypes
        /\ Len(snapshots) > 0 => DecidedFor(verdict, before, commits[detection[r].revision])
    <3>1. FirstDecision(Files(r)) \in DecisionTypes /\ Decision(before, Files(r), git) \in DecisionTypes
      BY DecisionIsTyped
    <3>2. DecidedFor(Decision(before, Files(r), git), before, Files(r))
      BY Decides
    <3>3. Files(r) = commits[detection[r].revision]
      BY DEF Files
    <3> QED
      BY <1>d, <3>1, <3>2, <3>3
  <2>4. detection' = [detection EXCEPT ![r].at = "record", ![r].baseline = Len(snapshots), ![r].decision = verdict]
    BY <2>2
  <2> HIDE DEF verdict
  <2> DEFINE new == [detection[r] EXCEPT !.at = "record", !.baseline = Len(snapshots), !.decision = verdict]
  <2>5. detection' = [detection EXCEPT ![r] = new]
    BY <2>4
  <2>6. /\ new \in DetectionTypes /\ new.at = "record" /\ new.revision = detection[r].revision
        /\ new.baseline = Len(snapshots) /\ new.decision = verdict
    BY <1>d, <1>r, <2>3 DEF DetectionTypes
  <2> HIDE DEF new
  <2>7. CommitsAre' /\ SnapshotsAre' /\ new.baseline \in 0 .. Len(snapshots)
    BY <1>0, <1>d, <2>1, <2>6 DEF CommitsAre, SnapshotsAre
  <2>8. new.revision \in DOMAIN commits'
    BY <1>r, <2>1, <2>6
  <2>9. new.baseline > 0 => DecidedFor(new.decision, commits'[snapshots'[new.baseline].revision], commits'[new.revision])
    BY <2>1, <2>3, <2>6
  <2>10. /\ \A c \in DOMAIN commits : c \in DOMAIN commits' /\ commits'[c] = commits[c]
         /\ \A s \in DOMAIN snapshots : s \in DOMAIN snapshots' /\ snapshots'[s] = snapshots[s]
         /\ DOMAIN snapshots' \ DOMAIN snapshots = {}
    BY <2>1
  <2> QED
    BY <2>5, <2>6, <2>7, <2>8, <2>9, <2>10, RunFrame
<1>4. ASSUME NEW r \in Runs, Record(r)
      PROVE  ChangesInv'
  <2>1. detection[r].at = "record" /\ UNCHANGED commits
    BY <1>4 DEF Record
  <2>a. \A c \in DOMAIN commits : c \in DOMAIN commits' /\ commits'[c] = commits[c]
    BY <2>1
  <2>2. ASSUME NEW place \in {"recorded", "failed"}, detection' = [detection EXCEPT ![r].at = place],
               SnapshotsAre', \A s \in DOMAIN snapshots : s \in DOMAIN snapshots' /\ snapshots'[s] = snapshots[s],
               \A s \in DOMAIN snapshots' \ DOMAIN snapshots :
                  /\ snapshots'[s].revision \in DOMAIN commits' /\ snapshots'[s].reused < s
                  /\ snapshots'[s].reused > 0 =>
                       Architecture(commits'[snapshots'[s].revision])
                         = Architecture(commits'[snapshots'[snapshots'[s].reused].revision])
        PROVE  ChangesInv'
    <3> DEFINE new == [detection[r] EXCEPT !.at = place]
    <3>1. detection' = [detection EXCEPT ![r] = new]
      BY <2>2
    <3>2. /\ new \in DetectionTypes /\ new.at = place /\ new.revision = detection[r].revision
          /\ new.baseline = detection[r].baseline /\ new.decision = detection[r].decision
      BY <1>r DEF DetectionTypes
    <3> HIDE DEF new
    <3>3. new.at # "new" /\ new.revision \in DOMAIN commits' /\ new.baseline \in 0 .. Len(snapshots)
      BY <1>r, <2>1, <3>2
    <3>4. new.baseline > 0 =>
             DecidedFor(new.decision, commits'[snapshots'[new.baseline].revision], commits'[new.revision])
      <4> SUFFICES ASSUME new.baseline > 0
                   PROVE  DecidedFor(new.decision, commits'[snapshots'[new.baseline].revision], commits'[new.revision])
        OBVIOUS
      <4>1. detection[r].baseline \in DOMAIN snapshots
        BY <1>d, <3>2, <3>3
      <4>2. DecidedFor(detection[r].decision, commits[snapshots[detection[r].baseline].revision],
                       commits[detection[r].revision])
        BY <2>1, <3>2 DEF ChangesInv, DecisionsStand
      <4> QED
        BY <2>1, <2>2, <3>2, <4>1, <4>2
    <3>5. CommitsAre'
      BY <1>0, <2>1 DEF CommitsAre
    <3> QED
      BY <2>2, <2>a, <3>1, <3>2, <3>3, <3>4, <3>5, RunFrame
  <2>3. CASE UNCHANGED snapshots
    <3>1. \E place \in {"recorded", "failed"} : detection' = [detection EXCEPT ![r].at = place]
      BY <1>4, <2>3 DEF Record
    <3>2. SnapshotsAre' /\ (\A s \in DOMAIN snapshots : s \in DOMAIN snapshots' /\ snapshots'[s] = snapshots[s])
          /\ DOMAIN snapshots' \ DOMAIN snapshots = {}
      BY <1>0, <2>3 DEF SnapshotsAre
    <3> QED
      BY <2>2, <3>1, <3>2
  <2>4. CASE snapshots' = Append(snapshots, Snapshot(r)) /\ detection' = [detection EXCEPT ![r].at = "recorded"]
    <3> DEFINE new == Snapshot(r)
               b   == detection[r].baseline
    <3>1. /\ new.revision = detection[r].revision /\ new \in [revision : Nat, reused : Nat]
          /\ new.reused = IF detection[r].decision.required THEN 0 ELSE b
      BY <1>r DEF Snapshot, DetectionTypes
    <3> HIDE DEF new
    <3>2. /\ snapshots' \in Seq([revision : Nat, reused : Nat])
          /\ \A s \in DOMAIN snapshots : s \in DOMAIN snapshots' /\ snapshots'[s] = snapshots[s]
          /\ \A s \in DOMAIN snapshots' \ DOMAIN snapshots : s = Len(snapshots) + 1 /\ snapshots'[s] = new
      <4>1. snapshots' = Append(snapshots, new)
        BY <2>4 DEF new
      <4> QED
        BY <1>0, <3>1, <4>1, AtTheEnd
    <3>3. new.revision \in DOMAIN commits' /\ new.reused < Len(snapshots) + 1
      BY <1>d, <1>r, <2>1, <3>1
    <3>4. new.reused > 0 =>
             Architecture(commits'[new.revision]) = Architecture(commits'[snapshots'[new.reused].revision])
      <4> SUFFICES ASSUME new.reused > 0
                   PROVE  Architecture(commits'[new.revision]) = Architecture(commits'[snapshots'[new.reused].revision])
        OBVIOUS
      <4>1. ~detection[r].decision.required /\ new.reused = b /\ b > 0 /\ b \in DOMAIN snapshots
        BY <1>d, <1>r, <3>1
      <4>2. DecidedFor(detection[r].decision, commits[snapshots[b].revision], commits[detection[r].revision])
        BY <2>1, <4>1 DEF ChangesInv, DecisionsStand
      <4>3. Architecture(commits[snapshots[b].revision]) = Architecture(commits[detection[r].revision])
        <5>1. Inferred(commits[snapshots[b].revision], commits[detection[r].revision]) \cap TriggerCategories = {}
          BY <4>1, <4>2 DEF DecidedFor
        <5> QED
          BY <5>1, NothingInferred
      <4> QED
        BY <2>1, <3>1, <3>2, <4>1, <4>3
    <3> QED
      BY <2>2, <2>4, <3>2, <3>3, <3>4 DEF SnapshotsAre
  <2> QED
    BY <1>4, <2>3, <2>4 DEF Record
<1> QED
  BY <1>2, <1>3, <1>4 DEF ChangesNext

\* A step of somebody else changes nothing of the runs.
LEMMA ChangesStutter ==
    ASSUME ChangesInv, UNCHANGED changeVars
    PROVE  ChangesInv'
<1>1. CommitsAre' /\ commits' # <<>> /\ SnapshotsAre' /\ RunsAre'
  BY DEF changeVars, ChangesInv, CommitsAre, SnapshotsAre, RunsAre
<1>2. CommitsOfSnapshots' /\ CommitsOfRuns' /\ RevisionsOfNew' /\ BaselinesAre'
  BY DEF changeVars, ChangesInv, CommitsOfSnapshots, CommitsOfRuns, RevisionsOfNew, BaselinesAre
<1>3. DecisionsStand' /\ LinksAreSound'
  BY DEF changeVars, ChangesInv, DecisionsStand, LinksAreSound
<1> QED
  BY <1>1, <1>2, <1>3 DEF ChangesInv

\* In every reachable state, each decision stands for its two commits, and what a snapshot or a run
\* reuses comes before it and has its architecture.
THEOREM ChangesInvariance == EvidenceSpec => []ChangesInv
<1>1. EvidenceInit => ChangesInv
  BY ChangesInitInv DEF EvidenceInit
<1>2. ChangesInv /\ [EvidenceNext]_evidenceVars => ChangesInv'
  BY ChangesStep, ChangesStutter DEF EvidenceNext, evidenceVars
<1> QED
  BY <1>1, <1>2, PTL DEF EvidenceSpec

-----------------------------------------------------------------------------
(* The analysis a snapshot stands for, at the end of a chain of reuse *)

IsOrigin(origin, chain) ==
    origin = [s \in DOMAIN chain |-> IF chain[s].reused = 0 THEN s ELSE origin[chain[s].reused]]

\* Links lead to older snapshots, by which the chain has an end.
LEMMA OriginsExist ==
    ASSUME NEW chain \in Seq([revision : Nat, reused : Nat]), \A s \in DOMAIN chain : chain[s].reused < s
    PROVE  \E origin : IsOrigin(origin, chain)
<1> DEFINE Upto(n) == DOMAIN chain \cap 1 .. n
           Partial(n, origin) ==
               origin = [s \in Upto(n) |-> IF chain[s].reused = 0 THEN s ELSE origin[chain[s].reused]]
           Reached == {n \in Nat : \E origin : Partial(n, origin)}
<1>0. /\ DOMAIN chain = 1 .. Len(chain) /\ Len(chain) \in Nat
      /\ \A s \in DOMAIN chain : chain[s].reused \in Nat /\ chain[s].reused < s
  <2>1. \A s \in DOMAIN chain : chain[s] \in [revision : Nat, reused : Nat]
    BY MembersOf
  <2> QED
    BY <2>1
<1>1. 0 \in Reached
  <2>1. Upto(0) = {}
    OBVIOUS
  <2>2. Partial(0, [s \in {} |-> 0])
    BY <2>1
  <2> QED
    BY <2>2
<1>2. ASSUME NEW n \in Nat, n \in Reached PROVE n + 1 \in Reached
  <2>1. PICK origin : Partial(n, origin)
    BY <1>2
  <2> DEFINE longer == [s \in Upto(n + 1) |-> IF chain[s].reused = 0 THEN s
                                              ELSE IF chain[s].reused \in Upto(n) THEN origin[chain[s].reused] ELSE 0]
  <2>2. \A s \in Upto(n) : s \in Upto(n + 1) /\ (chain[s].reused # 0 => chain[s].reused \in Upto(n))
    BY <1>0
  <2>3. \A s \in Upto(n) : longer[s] = origin[s]
    BY <2>1, <2>2
  <2>4. \A s \in Upto(n + 1) : chain[s].reused # 0 => chain[s].reused \in Upto(n)
    BY <1>0
  <2>5. Partial(n + 1, longer)
    BY <2>3, <2>4
  <2> HIDE DEF longer
  <2> QED
    BY <2>5
<1> HIDE DEF Reached
<1>3. Len(chain) \in Reached
  BY <1>0, <1>1, <1>2, NaturalsByInduction
<1>4. Upto(Len(chain)) = DOMAIN chain
  BY <1>0
<1> QED
  BY <1>3, <1>4 DEF Reached, IsOrigin

\* The chains of reuse go back only, so the origin of each snapshot is defined.
LEMMA OriginIsOne ==
    ASSUME SnapshotsAre, CommitsOfSnapshots
    PROVE  IsOrigin(Origin, snapshots)
<1>1. \E origin : IsOrigin(origin, snapshots)
  <2>1. \A s \in DOMAIN snapshots : snapshots[s].reused < s
    BY DEF CommitsOfSnapshots
  <2> QED
    BY <2>1, OriginsExist DEF SnapshotsAre
<1> QED
  BY <1>1, Zenon DEF IsOrigin, Origin

\* The chain of a snapshot ends, at one with the same architecture.
LEMMA OriginIsSound == ChangesInv => ReuseIsSound
<1> SUFFICES ASSUME ChangesInv PROVE ReuseIsSound
  OBVIOUS
<1> DEFINE Same(s, t) == Architecture(commits[snapshots[s].revision]) = Architecture(commits[snapshots[t].revision])
           Reached == {n \in Nat : \A s \in DOMAIN snapshots : s <= n => Same(s, Origin[s])}
<1>0. /\ DOMAIN snapshots = 1 .. Len(snapshots) /\ Len(snapshots) \in Nat
      /\ \A s \in DOMAIN snapshots : snapshots[s].reused \in Nat /\ snapshots[s].reused < s
  <2>1. snapshots \in Seq([revision : Nat, reused : Nat])
    BY DEF ChangesInv, SnapshotsAre
  <2>2. \A s \in DOMAIN snapshots : snapshots[s] \in [revision : Nat, reused : Nat]
    BY <2>1, MembersOf
  <2>3. \A s \in DOMAIN snapshots : snapshots[s].reused < s
    BY DEF ChangesInv, CommitsOfSnapshots
  <2> QED
    BY <2>1, <2>2, <2>3
<1>1. \A s \in DOMAIN snapshots : Origin[s] = IF snapshots[s].reused = 0 THEN s ELSE Origin[snapshots[s].reused]
  <2>1. IsOrigin(Origin, snapshots)
    BY OriginIsOne DEF ChangesInv
  <2> QED
    BY <2>1 DEF IsOrigin
<1>2. \A s \in DOMAIN snapshots : snapshots[s].reused > 0 => Same(s, snapshots[s].reused)
  BY DEF ChangesInv, LinksAreSound
<1> HIDE DEF Same
<1>e. \A s, t, u : Same(s, s) /\ (Same(s, t) /\ Same(t, u) => Same(s, u))
  BY DEF Same
<1>3. 0 \in Reached
  BY <1>0
<1>4. ASSUME NEW n \in Nat, n \in Reached PROVE n + 1 \in Reached
  <2> SUFFICES ASSUME NEW s \in DOMAIN snapshots, s <= n + 1 PROVE Same(s, Origin[s])
    OBVIOUS
  <2>1. CASE snapshots[s].reused = 0
    BY <1>1, <1>e, <2>1
  <2>2. CASE snapshots[s].reused # 0
    <3> DEFINE t == snapshots[s].reused
    <3>1. t \in DOMAIN snapshots /\ t <= n
      BY <1>0, <2>2
    <3>2. Same(t, Origin[t])
      BY <1>4, <3>1
    <3>3. Same(s, t)
      BY <1>0, <1>2, <2>2
    <3> QED
      BY <1>1, <1>e, <2>2, <3>2, <3>3
  <2> QED
    BY <2>1, <2>2
<1>5. Len(snapshots) \in Reached
  <2> HIDE DEF Reached
  <2> QED
    BY <1>0, <1>3, <1>4, NaturalsByInduction
<1>6. ASSUME NEW s \in DOMAIN snapshots PROVE Same(s, Origin[s])
  <2>1. s <= Len(snapshots)
    BY <1>0
  <2> QED
    BY <1>5, <2>1
<1> QED
  BY <1>6 DEF ReuseIsSound, Same

\* However long the chains of reuse and whichever runs overlap: the analysis that a snapshot stands
\* for was made of a repository with the same architecture.
THEOREM ReusedAnalysesFit == EvidenceSpec => []ReuseIsSound
BY ChangesInvariance, OriginIsSound, PTL

\* Whatever evidence there was of a difference, of whichever commits: what deploys differently asks
\* for a new analysis, and a change of infrastructure is seen as one.
THEOREM ChangesAreSeen == EvidenceSpec => []RelevantChangesAreSeen
<1>1. ChangesInv => RelevantChangesAreSeen
  <2> SUFFICES ASSUME ChangesInv, NEW r \in Runs,
                      detection[r].at \in {"record", "recorded"}, detection[r].baseline > 0,
                      NEW before, before = commits[snapshots[detection[r].baseline].revision],
                      NEW after, after = Files(r)
               PROVE  /\ (\E k \in {k \in Kinds : before[k] # after[k]} : Matters(k, before[k], after[k]))
                            => detection[r].decision.required
                      /\ "terraform" \in {k \in Kinds : before[k] # after[k]}
                            => "infrastructure" \in detection[r].decision.categories
    BY DEF RelevantChangesAreSeen
  <2>1. before \in Contents /\ after \in Contents
    <3>1. commits \in Seq(Contents)
      BY DEF ChangesInv, CommitsAre
    <3>2. detection[r].revision \in DOMAIN commits
      BY DEF ChangesInv, CommitsOfRuns
    <3>3. detection[r].baseline \in DOMAIN snapshots
      BY DEF ChangesInv, BaselinesAre, SnapshotsAre
    <3>4. snapshots[detection[r].baseline].revision \in DOMAIN commits
      BY <3>3 DEF ChangesInv, CommitsOfSnapshots
    <3> QED
      BY <3>1, <3>2, <3>4, MembersOf DEF Files
  <2>2. DecidedFor(detection[r].decision, before, after)
    BY DEF ChangesInv, DecisionsStand, Files
  <2>3. ASSUME NEW f \in Told, Fingerprint(before)[f] # Fingerprint(after)[f]
        PROVE  FieldCategory[f] \in detection[r].decision.categories
    <3>1. FieldCategory[f] \in Inferred(before, after)
      BY <2>3 DEF Inferred, Told
    <3> QED
      BY <2>2, <3>1 DEF DecidedFor
  <2>4. ASSUME NEW k \in Kinds, before[k] # after[k], Matters(k, before[k], after[k])
        PROVE  detection[r].decision.required
    <3>1. PICK f \in Told : Fingerprint(before)[f] # Fingerprint(after)[f]
      BY <2>1, <2>4, MattersTells
    <3>2. FieldCategory[f] \in detection[r].decision.categories \cap TriggerCategories
      BY <2>3, <3>1, FieldsTrigger
    <3> QED
      BY <2>2, <3>2 DEF DecidedFor
  <2>5. ASSUME "terraform" \in Kinds, before["terraform"] # after["terraform"]
        PROVE  "infrastructure" \in detection[r].decision.categories
    <3>1. Matters("terraform", before["terraform"], after["terraform"])
      BY DEF Matters
    <3>2. Fingerprint(before)["infrastructure"] # Fingerprint(after)["infrastructure"]
      BY <2>1, <2>5, <3>1, MattersTells
    <3>3. "infrastructure" \in Told /\ FieldCategory["infrastructure"] = "infrastructure"
      BY DEF Told, Fields, FieldCategory
    <3> QED
      BY <2>3, <3>2, <3>3
  <2> QED
    BY <2>4, <2>5
<1> QED
  BY <1>1, ChangesInvariance, PTL

-----------------------------------------------------------------------------
(* The containers of the checks.  The executor knows the containers that it  *)
(* holds, and the one that it is preparing; Docker has others only when the  *)
(* creation was never acknowledged or the removal was refused.               *)

Known == held \cup (IF at \in {"prepare", "discard"} THEN {task.container} ELSE {})

Places == {"between", "inspect", "create", "prepare", "discard", "ready", "close", "ended"}

ContainersExist == existing \subseteq 1 .. Len(containers) /\ Len(containers) \in Nat
OutagesAre      == outages \in [answer : Nat, removal : Nat, crash : Nat]
KnownOrLost     == outages.removal = 0 /\ outages.crash = 0 => Cardinality(existing \ Known) <= outages.answer
NothingHeld     == at = "ended" /\ outages.removal = 0 /\ outages.crash = 0 => held = {}
ContainersAre   == containers \in Seq(ToSet(containers))

RemovalInv == ContainersAre /\ ContainersExist /\ OutagesAre /\ KnownOrLost /\ NothingHeld

\* Fewer containers are lost when the set of them shrinks.
LEMMA FewerAreLost ==
    ASSUME NEW n \in Nat, NEW S \in SUBSET (1 .. n), NEW T \in SUBSET S, NEW m \in Nat, Cardinality(S) <= m
    PROVE  Cardinality(T) <= m
<1>1. IsFiniteSet(1 .. n)
  BY FS_Interval
<1>2. IsFiniteSet(S)
  BY <1>1, FS_Subset
<1>3. Cardinality(T) <= Cardinality(S) /\ IsFiniteSet(T)
  BY <1>2, FS_Subset
<1>4. Cardinality(S) \in Nat /\ Cardinality(T) \in Nat
  BY <1>2, <1>3, FS_CardinalityType
<1> QED
  BY <1>3, <1>4

\* An outage loses one container at most.
LEMMA OneMoreIsLost ==
    ASSUME NEW n \in Nat, NEW S \in SUBSET (1 .. n), NEW x, NEW T \in SUBSET (S \cup {x}), NEW m \in Nat,
           Cardinality(S) <= m
    PROVE  Cardinality(T) <= m + 1
<1>1. IsFiniteSet(1 .. n)
  BY FS_Interval
<1>2. IsFiniteSet(S)
  BY <1>1, FS_Subset
<1>3. IsFiniteSet(S \cup {x}) /\ Cardinality(S \cup {x}) <= Cardinality(S) + 1
  <2>1. Cardinality(S) \in Nat
    BY <1>2, FS_CardinalityType
  <2>2. CASE x \in S
    <3>1. S \cup {x} = S
      BY <2>2
    <3> QED
      BY <1>2, <2>1, <3>1
  <2>3. CASE x \notin S
    <3>1. IsFiniteSet(S \cup {x}) /\ Cardinality(S \cup {x}) = Cardinality(S) + 1
      BY <1>2, <2>3, FS_AddElement
    <3> QED
      BY <2>1, <3>1
  <2> QED
    BY <2>2, <2>3
<1>4. Cardinality(T) <= Cardinality(S \cup {x}) /\ IsFiniteSet(T)
  BY <1>3, FS_Subset
<1>5. Cardinality(S) \in Nat /\ Cardinality(T) \in Nat /\ Cardinality(S \cup {x}) \in Nat
  BY <1>2, <1>3, <1>4, FS_CardinalityType
<1> QED
  BY <1>3, <1>4, <1>5

\* An outage is counted as what it is.
LEMMA OutageCounts ==
    ASSUME OutagesAre, NEW kind \in {"answer", "removal", "crash"}, Outage(kind)
    PROVE  /\ OutagesAre'
           /\ kind = "answer" => outages'.answer = outages.answer + 1 /\ outages'.removal = outages.removal
                                   /\ outages'.crash = outages.crash
           /\ kind = "removal" => outages'.removal # 0
           /\ kind = "crash" => outages'.crash # 0
<1>1. outages' = [outages EXCEPT ![kind] = outages[kind] + 1]
  BY DEF Outage
<1>2. outages.answer \in Nat /\ outages.removal \in Nat /\ outages.crash \in Nat
  BY DEF OutagesAre
<1>3. CASE kind = "answer"
  BY <1>1, <1>2, <1>3 DEF OutagesAre
<1>4. CASE kind = "removal"
  BY <1>1, <1>2, <1>4 DEF OutagesAre
<1>5. CASE kind = "crash"
  BY <1>1, <1>2, <1>5 DEF OutagesAre
<1> QED
  BY <1>3, <1>4, <1>5

\* A sequence is one over its own elements.
LEMMA SequenceOfItsOwn ==
    ASSUME NEW S, NEW seq \in Seq(S)
    PROVE  seq \in Seq(ToSet(seq))
BY DEF ToSet

\* Replacing an element leaves a sequence of the same length.
LEMMA ReplacedInPlace ==
    ASSUME NEW S, NEW seq \in Seq(S), NEW i, NEW e \in S
    PROVE  [seq EXCEPT ![i] = e] \in Seq(S) /\ Len([seq EXCEPT ![i] = e]) = Len(seq)
<1> DEFINE new == [seq EXCEPT ![i] = e]
<1>1. Len(seq) \in Nat /\ DOMAIN seq = 1 .. Len(seq) /\ \A j \in 1 .. Len(seq) : seq[j] \in S
  OBVIOUS
<1>2. new = [j \in 1 .. Len(seq) |-> IF j = i THEN e ELSE seq[j]]
  BY <1>1
<1>3. new \in [1 .. Len(seq) -> S]
  BY <1>1, <1>2
<1> HIDE DEF new
<1>4. new \in Seq(S) /\ Len(new) = Len(seq)
  <2>1. DOMAIN new = 1 .. Len(seq)
    BY <1>3
  <2>2. new \in Seq(S)
    BY <1>1, <1>3
  <2>3. DOMAIN new = 1 .. Len(new) /\ Len(new) \in Nat
    BY <2>2
  <2> QED
    BY <1>1, <2>1, <2>2, <2>3
<1> QED
  BY <1>4 DEF new

\* There are no containers at first.
LEMMA RemovalInitInv == ChecksInit => RemovalInv
<1> SUFFICES ASSUME ChecksInit PROVE RemovalInv
  OBVIOUS
<1>1. containers = <<>> /\ existing = {} /\ held = {} /\ at = "between" /\ outages = [answer |-> 0, removal |-> 0, crash |-> 0]
  BY DEF ChecksInit
<1>2. ContainersAre
  <2>1. containers \in Seq({})
    BY <1>1
  <2> QED
    BY <2>1, SequenceOfItsOwn DEF ContainersAre
<1>3. ContainersExist /\ OutagesAre /\ NothingHeld
  BY <1>1 DEF ContainersExist, OutagesAre, NothingHeld
<1>4. KnownOrLost
  BY <1>1, FS_EmptySet DEF KnownOrLost
<1> QED
  BY <1>2, <1>3, <1>4 DEF RemovalInv

\* A step in which Docker gets no container that nobody knows.
LEMMA RemovalFrame ==
    ASSUME RemovalInv, ContainersAre', Len(containers) <= Len(containers'), Len(containers') \in Nat,
           existing' \subseteq 1 .. Len(containers'), existing' \ Known' \subseteq existing \ Known,
           OutagesAre', outages'.answer = outages.answer,
           outages'.removal = 0 => outages.removal = 0, outages'.crash = 0 => outages.crash = 0,
           NothingHeld'
    PROVE  RemovalInv'
<1>1. KnownOrLost'
  <2> SUFFICES ASSUME outages'.removal = 0, outages'.crash = 0
               PROVE  Cardinality(existing' \ Known') <= outages'.answer
    BY DEF KnownOrLost
  <2>1. Cardinality(existing \ Known) <= outages.answer /\ outages.answer \in Nat
    BY DEF RemovalInv, KnownOrLost, OutagesAre
  <2>2. existing \ Known \in SUBSET (1 .. Len(containers)) /\ Len(containers) \in Nat
    BY DEF RemovalInv, ContainersExist
  <2> QED
    BY <2>1, <2>2, FewerAreLost
<1> QED
  BY <1>1 DEF RemovalInv, ContainersExist

\* No step forgets a container but by an outage that is counted.
LEMMA RemovalStep ==
    ASSUME RemovalInv, ChecksNext
    PROVE  RemovalInv'
<1>0. /\ ContainersAre /\ existing \subseteq 1 .. Len(containers) /\ Len(containers) \in Nat
      /\ OutagesAre /\ KnownOrLost /\ NothingHeld
  BY DEF RemovalInv, ContainersExist
<1>u. \A l : Ends(l) => at' = "close" /\ UNCHANGED task
  BY DEF Ends
\* Docker does nothing, and the executor forgets nothing.
<1>a. ASSUME UNCHANGED <<containers, existing, outages>>, held \subseteq held', at' # "ended" \/ held' = {},
             at \in {"prepare", "discard"} => task.container \in held' \/ (at' = "discard" /\ UNCHANGED task)
      PROVE  RemovalInv'
  <2>1. existing' \ Known' \subseteq existing \ Known
    BY <1>a DEF Known
  <2>2. ContainersAre' /\ OutagesAre' /\ NothingHeld'
    BY <1>0, <1>a DEF ContainersAre, OutagesAre, NothingHeld
  <2> QED
    BY <1>0, <1>a, <2>1, <2>2, RemovalFrame
<1>1. CASE StartCheck
  <2>1. at = "between" /\ UNCHANGED dockerVars /\ at' \in {"close", "inspect", "ready"}
    BY <1>1 DEF StartCheck
  <2> QED
    BY <1>a, <2>1 DEF dockerVars
<1>2. CASE Finish
  BY <1>2, <1>a DEF Finish, GoOn, dockerVars
<1>3. CASE InspectImage
  BY <1>3, <1>a, <1>u DEF InspectImage, Unavailable, GoOn, dockerVars
<1>4. CASE CreateContainer
  <2>m. Made = Len(containers) + 1
    BY DEF Made
  <2>g. ASSUME Add
        PROVE  /\ existing' = existing \cup {Made} /\ held' = held
               /\ ContainersAre' /\ Len(containers') = Len(containers) + 1 /\ existing' \subseteq 1 .. Len(containers')
    <3> DEFINE new == [stage |-> task.stage, source |-> image, ran |-> <<>>]
    <3>1. containers' = Append(containers, new) /\ existing' = existing \cup {Made} /\ held' = held
      BY <2>g DEF Add
    <3> HIDE DEF new
    <3>2. containers \in Seq(ToSet(containers) \cup {new})
      BY <1>0 DEF ContainersAre
    <3>3. containers' \in Seq(ToSet(containers) \cup {new}) /\ Len(containers') = Len(containers) + 1
      BY <3>1, <3>2, AtTheEnd
    <3>4. ContainersAre'
      BY <3>3, SequenceOfItsOwn DEF ContainersAre
    <3>5. existing' \subseteq 1 .. Len(containers')
      <4>1. Made \in 1 .. Len(containers')
        BY <1>0, <2>m, <3>3
      <4>2. existing \subseteq 1 .. Len(containers')
        BY <1>0, <3>3
      <4> QED
        BY <3>1, <4>1, <4>2
    <3> QED
      BY <3>1, <3>3, <3>4, <3>5
  <2>1. CASE Add /\ task' = [task EXCEPT !.container = Made] /\ at' = "prepare" /\ UNCHANGED outages
    <3>1. task'.container = Made
      BY <2>1
    <3>2. existing' \ Known' \subseteq existing \ Known
      BY <1>4, <2>1, <2>g, <3>1 DEF Known, CreateContainer
    <3>3. OutagesAre' /\ NothingHeld'
      BY <1>0, <2>1 DEF OutagesAre, NothingHeld
    <3> QED
      BY <1>0, <2>1, <2>g, <3>2, <3>3, RemovalFrame
  <2>2. CASE Unavailable /\ UNCHANGED dockerVars
    BY <1>4, <1>a, <1>u, <2>2 DEF CreateContainer, Unavailable, dockerVars
  <2>3. CASE Unavailable /\ Add /\ Outage("answer")
    <3>1. /\ OutagesAre' /\ outages'.answer = outages.answer + 1 /\ outages'.removal = outages.removal
          /\ outages'.crash = outages.crash
      BY <1>0, <2>3, OutageCounts
    <3>2. at' = "close" /\ at = "create" /\ existing' = existing \cup {Made} /\ held' = held
      BY <1>4, <1>u, <2>3, <2>g DEF Unavailable, CreateContainer
    <3>3. existing' \ Known' \subseteq (existing \ Known) \cup {Made}
      BY <3>2 DEF Known
    <3>4. KnownOrLost'
      <4> SUFFICES ASSUME outages'.removal = 0, outages'.crash = 0
                   PROVE  Cardinality(existing' \ Known') <= outages'.answer
        BY DEF KnownOrLost
      <4>1. Cardinality(existing \ Known) <= outages.answer /\ outages.answer \in Nat
        BY <1>0, <3>1 DEF KnownOrLost, OutagesAre
      <4>2. existing \ Known \in SUBSET (1 .. Len(containers))
        BY <1>0
      <4> QED
        BY <1>0, <3>1, <3>3, <4>1, <4>2, OneMoreIsLost
    <3>5. NothingHeld'
      BY <3>2 DEF NothingHeld
    <3> QED
      BY <1>0, <2>3, <2>g, <3>1, <3>4, <3>5 DEF RemovalInv, ContainersExist
  <2> QED
    BY <1>4, <2>1, <2>2, <2>3 DEF CreateContainer
<1>5. CASE PrepareContainer
  <2>1. at = "prepare" /\ UNCHANGED <<containers, existing, outages>>
    BY <1>5 DEF PrepareContainer
  <2>2. CASE held' = held \cup {task.container} /\ at' \in {"ready", "close"}
    BY <1>a, <2>1, <2>2
  <2>3. CASE GoOn("discard") /\ UNCHANGED held
    BY <1>a, <2>1, <2>3 DEF GoOn
  <2> QED
    BY <1>5, <1>u, <2>2, <2>3 DEF PrepareContainer, GoOn, Unavailable
<1>6. CASE Discard
  <2>1. at = "discard" /\ at' = "close" /\ UNCHANGED <<containers, held, task>>
    BY <1>6, <1>u DEF Discard, Unavailable
  <2>2. CASE existing' = existing \ {task.container} /\ UNCHANGED outages
    <3>1. existing' \ Known' \subseteq existing \ Known
      BY <2>1, <2>2 DEF Known
    <3>2. ContainersAre' /\ OutagesAre' /\ NothingHeld'
      BY <1>0, <2>1, <2>2 DEF ContainersAre, OutagesAre, NothingHeld
    <3>3. existing' \subseteq 1 .. Len(containers') /\ Len(containers') = Len(containers)
      BY <1>0, <2>1, <2>2
    <3>4. Len(containers) <= Len(containers') /\ Len(containers') \in Nat
      BY <1>0, <3>3
    <3> QED
      BY <2>2, <3>1, <3>2, <3>3, <3>4, RemovalFrame
  <2>3. CASE Outage("removal") /\ UNCHANGED existing
    <3>1. OutagesAre' /\ outages'.removal # 0
      BY <1>0, <2>3, OutageCounts
    <3> QED
      BY <1>0, <2>1, <2>3, <3>1 DEF RemovalInv, ContainersAre, ContainersExist, KnownOrLost, NothingHeld
  <2> QED
    BY <1>6, <2>2, <2>3 DEF Discard
<1>7. CASE Execute
  <2>1. at = "ready" /\ UNCHANGED <<existing, held, outages>>
    BY <1>7 DEF Execute
  <2>2. at' \in {"close", "between", "ready", "inspect"}
    BY <1>7 DEF Execute, Unavailable, Ends, StagePassed, NextCommand
  <2>3. ContainersAre' /\ Len(containers') = Len(containers)
    <3>1. CASE UNCHANGED containers
      BY <1>0, <3>1 DEF ContainersAre
    <3>2. ASSUME NEW command, containers' = [containers EXCEPT ![task.container].ran = Append(@, command)]
          PROVE  ContainersAre' /\ Len(containers') = Len(containers)
      <4> DEFINE new == [containers[task.container] EXCEPT !.ran = Append(containers[task.container].ran, command)]
      <4>1. containers' = [containers EXCEPT ![task.container] = new]
        BY <3>2
      <4> HIDE DEF new
      <4>2. containers \in Seq(ToSet(containers) \cup {new})
        BY <1>0 DEF ContainersAre
      <4>3. containers' \in Seq(ToSet(containers) \cup {new}) /\ Len(containers') = Len(containers)
        BY <4>1, <4>2, ReplacedInPlace
      <4> QED
        BY <4>3, SequenceOfItsOwn DEF ContainersAre
    <3> QED
      BY <1>7, <3>1, <3>2 DEF Execute, Ran, InContainer, InCheckout
  <2>4. existing' \ Known' \subseteq existing \ Known
    BY <2>1, <2>2 DEF Known
  <2>5. OutagesAre' /\ NothingHeld'
    BY <1>0, <2>1, <2>2 DEF OutagesAre, NothingHeld
  <2> QED
    BY <1>0, <2>1, <2>3, <2>4, <2>5, RemovalFrame
<1>8. CASE Close
  <2>1. at = "close" /\ UNCHANGED containers
    BY <1>8 DEF Close
  <2>2. CASE held = {} /\ at' = "ended" /\ UNCHANGED <<existing, held, outages>>
    BY <1>a, <2>1, <2>2
  <2>3. ASSUME NEW c, existing' = existing \ {c}, held' = held \ {c}, UNCHANGED <<outages, at, task>>
        PROVE  RemovalInv'
    <3>1. existing' \ Known' \subseteq existing \ Known
      BY <2>1, <2>3 DEF Known
    <3>2. ContainersAre' /\ OutagesAre' /\ NothingHeld'
      BY <1>0, <2>1, <2>3 DEF ContainersAre, OutagesAre, NothingHeld
    <3>3. existing' \subseteq 1 .. Len(containers') /\ Len(containers') = Len(containers)
      BY <1>0, <2>1, <2>3
    <3>4. Len(containers) <= Len(containers') /\ Len(containers') \in Nat
      BY <1>0, <3>3
    <3> QED
      BY <2>3, <3>1, <3>2, <3>3, <3>4, RemovalFrame
  <2>4. CASE Outage("removal") /\ UNCHANGED <<existing, held>>
    <3>1. OutagesAre' /\ outages'.removal # 0
      BY <1>0, <2>4, OutageCounts
    <3> QED
      BY <1>0, <2>1, <2>4, <3>1 DEF RemovalInv, ContainersAre, ContainersExist, KnownOrLost, NothingHeld
  <2> QED
    BY <1>8, <2>2, <2>3, <2>4 DEF Close, GoOn
<1>9. CASE WorkerStops
  <2>1. OutagesAre' /\ outages'.crash # 0 /\ UNCHANGED <<containers, existing>>
    BY <1>0, <1>9, OutageCounts DEF WorkerStops
  <2> QED
    BY <1>0, <2>1 DEF RemovalInv, ContainersAre, ContainersExist, KnownOrLost, NothingHeld
<1> QED
  BY <1>1, <1>2, <1>3, <1>4, <1>5, <1>6, <1>7, <1>8, <1>9 DEF ChecksNext

\* A step of somebody else changes nothing of the containers.
LEMMA RemovalStutter ==
    ASSUME RemovalInv, UNCHANGED checkVars
    PROVE  RemovalInv'
BY DEF checkVars, RemovalInv, ContainersAre, ContainersExist, OutagesAre, KnownOrLost, NothingHeld, Known

\* However many outages, and whatever is planned: a run leaves no container that was acknowledged, unless
\* Docker refuses its removal or the worker stops.
THEOREM RunsRemoveTheirContainers == EvidenceSpec => []ContainersAreRemoved
<1>1. EvidenceInit => RemovalInv
  BY RemovalInitInv DEF EvidenceInit
<1>2. RemovalInv /\ [EvidenceNext]_evidenceVars => RemovalInv'
  BY RemovalStep, RemovalStutter DEF EvidenceNext, evidenceVars
<1>3. RemovalInv => ContainersAreRemoved
  <2> SUFFICES ASSUME RemovalInv, at = "ended", outages.removal = 0, outages.crash = 0
               PROVE  Cardinality(existing) <= outages.answer
    BY DEF ContainersAreRemoved
  <2>1. existing \ Known = existing
    BY DEF RemovalInv, NothingHeld, Known
  <2> QED
    BY <2>1 DEF RemovalInv, KnownOrLost
<1> QED
  BY <1>1, <1>2, <1>3, PTL DEF EvidenceSpec

-----------------------------------------------------------------------------
(* Lists of members, and lists of lists *)

\* The largest of the positions up to n + 1, where n + 1 is one of them.
LEMMA MaxIs ==
    ASSUME NEW n \in Nat, NEW s \in SUBSET (1 .. n + 1), n + 1 \in s
    PROVE  Max(s) = n + 1
<1>1. \A y \in s : n + 1 >= y
  OBVIOUS
<1>2. \A x \in s : (\A y \in s : x >= y) => x = n + 1
  OBVIOUS
<1> QED
  BY <1>1, <1>2 DEF Max

\* Appending adds one element.
LEMMA AppendedMembers ==
    ASSUME NEW S, NEW seq \in Seq(S), NEW e \in S
    PROVE  Append(seq, e) \in Seq(S) /\ ToSet(Append(seq, e)) = ToSet(seq) \cup {e}
<1>1. Append(seq, e) \in Seq(S) /\ Len(Append(seq, e)) = Len(seq) + 1 /\ Len(seq) \in Nat
      /\ DOMAIN seq = 1 .. Len(seq) /\ DOMAIN Append(seq, e) = 1 .. Len(seq) + 1
      /\ Append(seq, e)[Len(seq) + 1] = e /\ \A i \in 1 .. Len(seq) : Append(seq, e)[i] = seq[i]
  OBVIOUS
<1> DEFINE new == Append(seq, e)
<1> HIDE DEF new
<1>2. \A i \in DOMAIN new : i \in DOMAIN seq \/ i = Len(seq) + 1
  BY <1>1 DEF new
<1>3. \A i \in DOMAIN seq : i \in DOMAIN new /\ new[i] = seq[i]
  BY <1>1 DEF new
<1>4. Len(seq) + 1 \in DOMAIN new /\ new[Len(seq) + 1] = e
  BY <1>1 DEF new
<1>5. ToSet(new) = ToSet(seq) \cup {e}
  BY <1>2, <1>3, <1>4 DEF ToSet
<1> QED
  BY <1>1, <1>5 DEF new

IsListing(g, list, positions) ==
    g = [s \in SUBSET positions |-> IF s = {} THEN <<>> ELSE Append(g[s \ {Max(s)}], list[Max(s)])]

\* The fold by which a list is taken at some positions is defined, up to every position.
LEMMA ListingExists ==
    ASSUME NEW list
    PROVE  \A n \in Nat : \E g : IsListing(g, list, 1 .. n)
<1> DEFINE Listed == {n \in Nat : \E g : IsListing(g, list, 1 .. n)}
<1>1. 0 \in Listed
  <2> DEFINE g == [s \in SUBSET {} |-> <<>>]
  <2>1. 1 .. 0 = {}
    OBVIOUS
  <2>2. \A s \in SUBSET {} : s = {}
    OBVIOUS
  <2>3. IsListing(g, list, {})
    BY <2>2 DEF IsListing
  <2> QED
    BY <2>1, <2>3
<1>2. ASSUME NEW n \in Nat, n \in Listed PROVE n + 1 \in Listed
  <2>1. PICK g : IsListing(g, list, 1 .. n)
    BY <1>2
  <2> DEFINE h == [s \in SUBSET (1 .. n + 1) |->
                      IF n + 1 \in s THEN Append(g[s \ {n + 1}], list[n + 1]) ELSE g[s]]
  <2>2. ASSUME NEW s \in SUBSET (1 .. n + 1)
        PROVE  h[s] = IF s = {} THEN <<>> ELSE Append(h[s \ {Max(s)}], list[Max(s)])
    <3>1. CASE n + 1 \in s
      <4>1. Max(s) = n + 1
        BY <3>1, MaxIs
      <4>2. s \ {n + 1} \in SUBSET (1 .. n + 1) /\ n + 1 \notin s \ {n + 1}
        OBVIOUS
      <4>3. h[s \ {n + 1}] = g[s \ {n + 1}]
        BY <4>2
      <4>4. h[s] = Append(g[s \ {n + 1}], list[n + 1])
        BY <3>1
      <4> QED
        BY <3>1, <4>1, <4>3, <4>4
    <3>2. CASE n + 1 \notin s
      <4>1. s \in SUBSET (1 .. n)
        BY <3>2
      <4>2. h[s] = g[s]
        BY <3>2
      <4>3. g[s] = IF s = {} THEN <<>> ELSE Append(g[s \ {Max(s)}], list[Max(s)])
        BY <2>1, <4>1 DEF IsListing
      <4>4. s \ {Max(s)} \in SUBSET (1 .. n + 1) /\ n + 1 \notin s \ {Max(s)}
        BY <3>2
      <4>5. h[s \ {Max(s)}] = g[s \ {Max(s)}]
        BY <4>4
      <4> QED
        BY <4>2, <4>3, <4>5
    <3> QED
      BY <3>1, <3>2
  <2>3. IsListing(h, list, 1 .. n + 1)
    <3>1. h = [s \in SUBSET (1 .. n + 1) |-> h[s]]
      OBVIOUS
    <3> HIDE DEF h
    <3> QED
      BY <2>2, <3>1 DEF IsListing
  <2> QED
    BY <2>3
<1> HIDE DEF Listed
<1>3. Nat \subseteq Listed
  BY <1>1, <1>2, NaturalsByInduction
<1> QED
  BY <1>3 DEF Listed

\* The members at some positions of a list are listed, whatever their order.
LEMMA AtLists ==
    ASSUME NEW T, NEW list \in Seq(T), NEW positions \in SUBSET DOMAIN list
    PROVE  /\ At(list, positions) \in Seq(T)
           /\ \A x : x \in ToSet(At(list, positions)) <=> \E i \in positions : x = list[i]
<1> DEFINE g == CHOOSE g : IsListing(g, list, positions)
<1>0. Len(list) \in Nat /\ DOMAIN list = 1 .. Len(list) /\ \A i \in DOMAIN list : list[i] \in T
  OBVIOUS
<1>1. \E f : IsListing(f, list, positions)
  <2>1. PICK f : IsListing(f, list, 1 .. Len(list))
    BY <1>0, ListingExists
  <2> DEFINE f1 == [s \in SUBSET positions |-> f[s]]
  <2>2. ASSUME NEW s \in SUBSET positions
        PROVE  f1[s] = IF s = {} THEN <<>> ELSE Append(f1[s \ {Max(s)}], list[Max(s)])
    <3>1. s \in SUBSET (1 .. Len(list))
      BY <1>0
    <3>2. f[s] = IF s = {} THEN <<>> ELSE Append(f[s \ {Max(s)}], list[Max(s)])
      BY <2>1, <3>1 DEF IsListing
    <3>3. f1[s] = f[s] /\ f1[s \ {Max(s)}] = f[s \ {Max(s)}]
      OBVIOUS
    <3> QED
      BY <3>2, <3>3
  <2>3. f1 = [s \in SUBSET positions |-> f1[s]]
    OBVIOUS
  <2> HIDE DEF f1
  <2>4. IsListing(f1, list, positions)
    BY <2>2, <2>3 DEF IsListing
  <2> QED
    BY <2>4
<1>2. IsListing(g, list, positions)
  BY <1>1
<1>3. At(list, positions) = g[positions]
  BY DEF At, MapThenFoldSet, IsListing
<1> HIDE DEF g
<1> DEFINE Good(s) == g[s] \in Seq(T) /\ \A x : x \in ToSet(g[s]) <=> \E i \in s : x = list[i]
           Reached == {n \in Nat : \A s \in SUBSET positions : s \subseteq 1 .. n => Good(s)}
<1>4. ASSUME NEW s \in SUBSET positions
      PROVE  g[s] = IF s = {} THEN <<>> ELSE Append(g[s \ {Max(s)}], list[Max(s)])
  BY <1>2 DEF IsListing
<1>5. 0 \in Reached
  <2> SUFFICES ASSUME NEW s \in SUBSET positions, s \subseteq 1 .. 0 PROVE Good(s)
    OBVIOUS
  <2>0. s = {}
    OBVIOUS
  <2>1. g[s] = <<>>
    BY <1>4, <2>0
  <2>2. g[s] \in Seq(T) /\ ToSet(g[s]) = {}
    BY <2>1 DEF ToSet
  <2> QED
    BY <2>0, <2>2
<1>6. ASSUME NEW n \in Nat, n \in Reached PROVE n + 1 \in Reached
  <2> SUFFICES ASSUME NEW s \in SUBSET positions, s \subseteq 1 .. n + 1 PROVE Good(s)
    OBVIOUS
  <2>1. CASE n + 1 \notin s
    <3>1. s \subseteq 1 .. n
      BY <2>1
    <3> QED
      BY <1>6, <3>1
  <2>2. CASE n + 1 \in s
    <3>1. Max(s) = n + 1
      BY <2>2, MaxIs
    <3>2. s \ {n + 1} \subseteq 1 .. n /\ s \ {n + 1} \in SUBSET positions
      OBVIOUS
    <3>3. Good(s \ {n + 1})
      BY <1>6, <3>2
    <3>4. g[s] = Append(g[s \ {n + 1}], list[n + 1])
      BY <1>4, <2>2, <3>1
    <3>5. list[n + 1] \in T
      BY <1>0, <2>2
    <3>6. /\ g[s] \in Seq(T)
          /\ \A x : x \in ToSet(g[s]) <=> x \in ToSet(g[s \ {n + 1}]) \/ x = list[n + 1]
      <4> DEFINE old == g[s \ {n + 1}]
      <4>1. old \in Seq(T)
        BY <3>3
      <4> HIDE DEF old
      <4>2. Append(old, list[n + 1]) \in Seq(T) /\ ToSet(Append(old, list[n + 1])) = ToSet(old) \cup {list[n + 1]}
        BY <3>5, <4>1, AppendedMembers
      <4> QED
        BY <3>4, <4>2 DEF old
    <3>7. \A x : x \in ToSet(g[s \ {n + 1}]) <=> \E i \in s \ {n + 1} : x = list[i]
      BY <3>3
    <3> HIDE DEF Reached
    <3> QED
      BY <2>2, <3>6, <3>7
  <2> QED
    BY <2>1, <2>2
<1>7. Len(list) \in Reached
  <2> HIDE DEF Reached
  <2> QED
    BY <1>0, <1>5, <1>6, NaturalsByInduction
<1>8. Good(positions)
  BY <1>0, <1>7
<1> QED
  BY <1>3, <1>8

\* A sequence is empty exactly if it has no elements.
LEMMA EmptyLists ==
    ASSUME NEW S, NEW seq \in Seq(S)
    PROVE  /\ seq = <<>> <=> ToSet(seq) = {}
           /\ seq # <<>> => Head(seq) = seq[1] /\ 1 \in DOMAIN seq /\ Tail(seq) \in Seq(S)
<1>1. Len(seq) \in Nat /\ DOMAIN seq = 1 .. Len(seq) /\ (seq = <<>> <=> Len(seq) = 0)
  OBVIOUS
<1>2. seq # <<>> => 1 \in DOMAIN seq /\ Head(seq) = seq[1] /\ Tail(seq) \in Seq(S)
  BY <1>1
<1>3. seq # <<>> => ToSet(seq) # {}
  BY <1>2 DEF ToSet
<1>4. seq = <<>> => ToSet(seq) = {}
  <2> SUFFICES ASSUME seq = <<>> PROVE ToSet(seq) = {}
    OBVIOUS
  <2>1. DOMAIN seq = {}
    BY <1>1
  <2> QED
    BY <2>1 DEF ToSet
<1> QED
  BY <1>2, <1>3, <1>4

\* A concatenation has the elements of both.
LEMMA JoinedMembers ==
    ASSUME NEW S, NEW a \in Seq(S), NEW b \in Seq(S)
    PROVE  a \o b \in Seq(S) /\ ToSet(a \o b) = ToSet(a) \cup ToSet(b)
<1>1. /\ a \o b \in Seq(S) /\ Len(a \o b) = Len(a) + Len(b) /\ Len(a) \in Nat /\ Len(b) \in Nat
      /\ DOMAIN a = 1 .. Len(a) /\ DOMAIN b = 1 .. Len(b) /\ DOMAIN (a \o b) = 1 .. Len(a) + Len(b)
      /\ \A i \in 1 .. Len(a) : (a \o b)[i] = a[i]
      /\ \A i \in 1 .. Len(b) : (a \o b)[Len(a) + i] = b[i]
  OBVIOUS
<1> DEFINE c == a \o b
<1>2. \A i \in DOMAIN a : i \in DOMAIN c /\ c[i] = a[i]
  BY <1>1
<1>3. \A i \in DOMAIN b : Len(a) + i \in DOMAIN c /\ c[Len(a) + i] = b[i]
  BY <1>1
<1>4. \A i \in DOMAIN c : i \in DOMAIN a \/ (i - Len(a) \in DOMAIN b /\ Len(a) + (i - Len(a)) = i)
  BY <1>1
<1> HIDE DEF c
<1>5. ASSUME NEW i \in DOMAIN c PROVE c[i] \in ToSet(a) \cup ToSet(b)
  <2>1. CASE i \in DOMAIN a
    BY <1>2, <2>1 DEF ToSet
  <2>2. CASE i - Len(a) \in DOMAIN b /\ Len(a) + (i - Len(a)) = i
    <3>1. c[i] = b[i - Len(a)]
      BY <1>3, <2>2
    <3> QED
      BY <2>2, <3>1 DEF ToSet
  <2> QED
    BY <1>4, <2>1, <2>2
<1>6. ToSet(c) \subseteq ToSet(a) \cup ToSet(b)
  BY <1>5 DEF ToSet
<1>7. ToSet(a) \subseteq ToSet(c)
  BY <1>2 DEF ToSet
<1>8. ToSet(b) \subseteq ToSet(c)
  <2> SUFFICES ASSUME NEW i \in DOMAIN b PROVE b[i] \in ToSet(c)
    BY DEF ToSet
  <2>1. Len(a) + i \in DOMAIN c /\ c[Len(a) + i] = b[i]
    BY <1>3
  <2> QED
    BY <2>1 DEF ToSet
<1> QED
  BY <1>1, <1>6, <1>7, <1>8 DEF c

IsJoining(f, seqs, n) == f = [i \in 1 .. n |-> IF i = 1 THEN seqs[i] ELSE f[i - 1] \o seqs[i]]

\* The function by which lists are joined is defined, for any number of lists.
LEMMA JoiningExists ==
    ASSUME NEW seqs
    PROVE  \A n \in Nat : \E f : IsJoining(f, seqs, n)
<1> DEFINE Joined == {n \in Nat : \E f : IsJoining(f, seqs, n)}
<1>1. 0 \in Joined
  <2> DEFINE f == [i \in 1 .. 0 |-> <<>>]
  <2>1. \A i \in 1 .. 0 : FALSE
    OBVIOUS
  <2>2. IsJoining(f, seqs, 0)
    BY <2>1 DEF IsJoining
  <2> QED
    BY <2>2
<1>2. ASSUME NEW n \in Nat, n \in Joined PROVE n + 1 \in Joined
  <2>1. PICK f : IsJoining(f, seqs, n)
    BY <1>2
  <2> DEFINE last == IF n = 0 THEN seqs[1] ELSE f[n] \o seqs[n + 1]
             h    == [i \in 1 .. n + 1 |-> IF i = n + 1 THEN last ELSE f[i]]
  <2>2. ASSUME NEW i \in 1 .. n + 1
        PROVE  h[i] = IF i = 1 THEN seqs[i] ELSE h[i - 1] \o seqs[i]
    <3>1. CASE i = n + 1
      <4>1. h[i] = last
        BY <3>1
      <4>2. n # 0 => h[n] = f[n]
        OBVIOUS
      <4> QED
        BY <3>1, <4>1, <4>2
    <3>2. CASE i # n + 1
      <4>1. i \in 1 .. n
        BY <3>2
      <4>2. h[i] = f[i]
        BY <3>2
      <4>3. f[i] = IF i = 1 THEN seqs[i] ELSE f[i - 1] \o seqs[i]
        BY <2>1, <4>1 DEF IsJoining
      <4>4. i # 1 => h[i - 1] = f[i - 1]
        BY <4>1
      <4> QED
        BY <4>2, <4>3, <4>4
    <3> QED
      BY <3>1, <3>2
  <2>3. h = [i \in 1 .. n + 1 |-> h[i]]
    OBVIOUS
  <2> HIDE DEF h
  <2>4. IsJoining(h, seqs, n + 1)
    BY <2>2, <2>3 DEF IsJoining
  <2> QED
    BY <2>4
<1> HIDE DEF Joined
<1>3. Nat \subseteq Joined
  BY <1>1, <1>2, NaturalsByInduction
<1> QED
  BY <1>3 DEF Joined

\* What the joined lists hold is what one of them holds.
LEMMA FlattenedMembers ==
    ASSUME NEW T, NEW seqs \in Seq(Seq(T))
    PROVE  /\ FlattenSeq(seqs) \in Seq(T)
           /\ \A x : x \in ToSet(FlattenSeq(seqs)) <=> \E i \in DOMAIN seqs : x \in ToSet(seqs[i])
<1>0. Len(seqs) \in Nat /\ DOMAIN seqs = 1 .. Len(seqs) /\ \A i \in 1 .. Len(seqs) : seqs[i] \in Seq(T)
  OBVIOUS
<1>1. CASE Len(seqs) = 0
  <2>1. FlattenSeq(seqs) = seqs /\ seqs = <<>>
    BY <1>1 DEF FlattenSeq
  <2>2. DOMAIN seqs = {} /\ seqs \in Seq(T)
    BY <1>0, <1>1, <2>1
  <2> QED
    BY <2>1, <2>2 DEF ToSet
<1>2. CASE Len(seqs) # 0
  <2> DEFINE f == CHOOSE f : IsJoining(f, seqs, Len(seqs))
  <2>1. IsJoining(f, seqs, Len(seqs))
    BY <1>0, JoiningExists
  <2>2. FlattenSeq(seqs) = f[Len(seqs)]
    BY <1>2 DEF FlattenSeq, IsJoining
  <2> HIDE DEF f
  <2>3. \A i \in 1 .. Len(seqs) : f[i] = IF i = 1 THEN seqs[i] ELSE f[i - 1] \o seqs[i]
    BY <2>1 DEF IsJoining
  <2> DEFINE Good(n) == f[n] \in Seq(T) /\ \A x : x \in ToSet(f[n]) <=> \E i \in 1 .. n : x \in ToSet(seqs[i])
             Reached == {n \in Nat : n \in 1 .. Len(seqs) => Good(n)}
  <2>4. 0 \in Reached
    OBVIOUS
  <2>5. ASSUME NEW n \in Nat, n \in Reached PROVE n + 1 \in Reached
    <3>0. ASSUME n + 1 \in 1 .. Len(seqs) PROVE Good(n + 1)
      <4>1. CASE n = 0
        <5>1. f[n + 1] = seqs[1] /\ seqs[1] \in Seq(T) /\ n + 1 = 1
          BY <1>0, <2>3, <3>0, <4>1
        <5>2. \A i \in 1 .. n + 1 : i = 1
          BY <4>1
        <5>3. 1 \in 1 .. n + 1
          BY <4>1
        <5> QED
          BY <5>1, <5>2, <5>3
      <4>2. CASE n # 0
        <5>1. Good(n)
          BY <1>0, <2>5, <3>0, <4>2
        <5>2. f[n + 1] = f[n] \o seqs[n + 1] /\ seqs[n + 1] \in Seq(T)
          <6>1. n + 1 # 1 /\ (n + 1) - 1 = n
            BY <4>2
          <6> QED
            BY <1>0, <2>3, <3>0, <6>1
        <5>3. f[n + 1] \in Seq(T) /\ ToSet(f[n + 1]) = ToSet(f[n]) \cup ToSet(seqs[n + 1])
          BY <5>1, <5>2, JoinedMembers
        <5>4. \A x : x \in ToSet(f[n]) <=> \E i \in 1 .. n : x \in ToSet(seqs[i])
          BY <5>1
        <5>5. \A i : i \in 1 .. n + 1 <=> i \in 1 .. n \/ i = n + 1
          OBVIOUS
        <5> HIDE DEF Reached
        <5> QED
          BY <5>3, <5>4, <5>5
      <4> QED
        BY <4>1, <4>2
    <3> HIDE DEF Good
    <3> QED
      BY <3>0
  <2>6. Len(seqs) \in Reached
    <3> HIDE DEF Reached
    <3> QED
      BY <1>0, <2>4, <2>5, NaturalsByInduction
  <2>7. Good(Len(seqs))
    BY <1>0, <1>2, <2>6
  <2> QED
    BY <1>0, <2>2, <2>7
<1> QED
  BY <1>1, <1>2

\* Where keeps exactly the names that are present.
LEMMA WhereSelects ==
    ASSUME NEW T, NEW names \in Seq(T), NEW present
    PROVE  /\ Where(present, names) \in Seq(T)
           /\ ToSet(Where(present, names)) = ToSet(names) \cap present
<1> DEFINE chosen == {i \in DOMAIN names : names[i] \in present}
<1>1. /\ At(names, chosen) \in Seq(T)
      /\ \A x : x \in ToSet(At(names, chosen)) <=> \E i \in chosen : x = names[i]
  BY AtLists
<1>2. Where(present, names) = At(names, chosen)
  BY DEF Where
<1> QED
  BY <1>1, <1>2 DEF ToSet

\* Leaving out repetitions leaves out no element.
LEMMA OnceKeeps ==
    ASSUME NEW T, NEW plans \in Seq(T)
    PROVE  Once(plans) \in Seq(T) /\ ToSet(Once(plans)) = ToSet(plans)
<1> DEFINE first == {i \in DOMAIN plans : \A j \in 1 .. i - 1 : plans[j] # plans[i]}
<1>1. /\ At(plans, first) \in Seq(T)
      /\ \A x : x \in ToSet(At(plans, first)) <=> \E i \in first : x = plans[i]
  BY AtLists
<1>2. Once(plans) = At(plans, first)
  BY DEF Once
<1>3. ASSUME NEW i \in DOMAIN plans PROVE \E j \in first : plans[j] = plans[i]
  <2>0. DOMAIN plans = 1 .. Len(plans) /\ Len(plans) \in Nat
    OBVIOUS
  <2> DEFINE same == {j \in DOMAIN plans : plans[j] = plans[i]}
  <2>1. same \in SUBSET Nat /\ same # {}
    BY <2>0
  <2>2. PICK j \in same : \A k \in same : j <= k
    BY <2>1, LeastMember
  <2>3. \A k \in 1 .. j - 1 : k \in DOMAIN plans /\ ~(j <= k)
    BY <2>0, <2>2
  <2>4. j \in first
    BY <2>2, <2>3
  <2> QED
    BY <2>2, <2>4
<1>4. ToSet(plans) \subseteq ToSet(Once(plans))
  <2> SUFFICES ASSUME NEW i \in DOMAIN plans PROVE plans[i] \in ToSet(Once(plans))
    BY DEF ToSet
  <2> QED
    BY <1>1, <1>2, <1>3
<1>5. ToSet(Once(plans)) \subseteq ToSet(plans)
  <2> SUFFICES ASSUME NEW x \in ToSet(Once(plans)) PROVE x \in ToSet(plans)
    OBVIOUS
  <2>1. PICK i \in first : x = plans[i]
    BY <1>1, <1>2
  <2> QED
    BY <2>1 DEF ToSet
<1> QED
  BY <1>1, <1>2, <1>4, <1>5

-----------------------------------------------------------------------------
(* What the planner finds, and what it plans *)

HasNode(repo, d)   == repo[d].package.json # "none" /\ NodeReadable(repo, d)
HasPython(repo, d) ==
    PythonMarked(repo, d) /\ ~repo[d].python.bad /\ (repo[d].package.json = "none" \/ NodeReadable(repo, d))

Components(repo) ==
    {NodeComponent(repo, d) : d \in {e \in Dirs : HasNode(repo, e)}}
      \cup {PythonComponent(repo, d) : d \in {e \in Dirs : HasPython(repo, e)}}

\* A sequence of one.
LEMMA OneMember ==
    ASSUME NEW S, NEW e \in S
    PROVE  <<e>> \in Seq(S) /\ ToSet(<<e>>) = {e}
<1>1. <<e>> \in Seq(S) /\ DOMAIN <<e>> = 1 .. 1 /\ <<e>>[1] = e
  OBVIOUS
<1>2. \A i \in 1 .. 1 : i = 1
  OBVIOUS
<1> DEFINE one == <<e>>
<1> HIDE DEF one
<1>3. ToSet(one) = {e}
  BY <1>1, <1>2 DEF ToSet, one
<1> QED
  BY <1>1, <1>3 DEF one

\* A directory has a component for each ecosystem that has a manifest there.
LEMMA FoundAt ==
    ASSUME NEW repo, NEW d
    PROVE  /\ ComponentsAt(repo, d) \in Seq(ToSet(ComponentsAt(repo, d)))
           /\ \A c : c \in ToSet(ComponentsAt(repo, d)) <=>
                 (HasNode(repo, d) /\ c = NodeComponent(repo, d)) \/ (HasPython(repo, d) /\ c = PythonComponent(repo, d))
<1> DEFINE node == NodeComponent(repo, d)
           snake == PythonComponent(repo, d)
           both == {node, snake}
           py == IF PythonMarked(repo, d) /\ ~repo[d].python.bad THEN <<snake>> ELSE <<>>
<1>1. ComponentsAt(repo, d) = IF repo[d].package.json = "none" THEN py
                              ELSE IF NodeReadable(repo, d) THEN <<node>> \o py ELSE <<>>
  BY DEF ComponentsAt
<1> HIDE DEF node, snake
<1>2. <<>> \in Seq(both) /\ ToSet(<<>>) = {}
  BY DEF ToSet
<1>3. <<node>> \in Seq(both) /\ <<snake>> \in Seq(both) /\ ToSet(<<node>>) = {node} /\ ToSet(<<snake>>) = {snake}
  BY OneMember
<1>4. py \in Seq(both) /\ \A c : c \in ToSet(py) <=> PythonMarked(repo, d) /\ ~repo[d].python.bad /\ c = snake
  BY <1>2, <1>3
<1> HIDE DEF py
<1>5. <<node>> \o py \in Seq(both) /\ ToSet(<<node>> \o py) = {node} \cup ToSet(py)
  <2> DEFINE one == <<node>>
  <2>1. one \in Seq(both) /\ py \in Seq(both) /\ ToSet(one) = {node}
    BY <1>3, <1>4
  <2> HIDE DEF one, both
  <2>2. one \o py \in Seq(both) /\ ToSet(one \o py) = ToSet(one) \cup ToSet(py)
    BY <2>1, JoinedMembers
  <2> QED
    BY <2>1, <2>2 DEF one
<1>6. /\ ComponentsAt(repo, d) \in Seq(both)
      /\ \A c : c \in ToSet(ComponentsAt(repo, d)) <=>
            (HasNode(repo, d) /\ c = node) \/ (HasPython(repo, d) /\ c = snake)
  <2>1. CASE repo[d].package.json = "none"
    BY <1>1, <1>4, <2>1 DEF HasNode, HasPython
  <2>2. CASE repo[d].package.json # "none" /\ NodeReadable(repo, d)
    BY <1>1, <1>4, <1>5, <2>2 DEF HasNode, HasPython
  <2>3. CASE repo[d].package.json # "none" /\ ~NodeReadable(repo, d)
    BY <1>1, <1>2, <2>3 DEF HasNode, HasPython
  <2> QED
    BY <2>1, <2>2, <2>3
<1> QED
  BY <1>6, SequenceOfItsOwn DEF node, snake

\* The components found are those of all directories, and an unreadable manifest anywhere is an error.
LEMMA FoundIn ==
    ASSUME NEW repo
    PROVE  /\ Facts(repo).components \in Seq(Components(repo))
           /\ ToSet(Facts(repo).components) = Components(repo)
           /\ Facts(repo).errors = \E d \in Dirs : Unreadable(repo, d)
<1> DEFINE lists == [i \in DOMAIN DirOrder |-> ComponentsAt(repo, DirOrder[i])]
           All   == Components(repo)
<1>1. DOMAIN DirOrder = 1 .. 2 /\ DirOrder[1] = "root" /\ DirOrder[2] = "app" /\ Dirs = {"root", "app"}
  BY DEF DirOrder, Dirs
<1>2. ASSUME NEW d \in Dirs
      PROVE  ComponentsAt(repo, d) \in Seq(All)
  <2>1. ComponentsAt(repo, d) \in Seq(ToSet(ComponentsAt(repo, d)))
    BY FoundAt
  <2>2. ToSet(ComponentsAt(repo, d)) \subseteq All
    BY FoundAt DEF Components
  <2> QED
    BY <2>1, <2>2
<1>3. lists = <<ComponentsAt(repo, "root"), ComponentsAt(repo, "app")>>
  BY <1>1
<1>4. lists \in Seq(Seq(All)) /\ DOMAIN lists = 1 .. 2
  BY <1>1, <1>2, <1>3
<1>l. \A i \in DOMAIN lists : lists[i] = ComponentsAt(repo, DirOrder[i])
  BY <1>1
<1>5. Facts(repo).components = FlattenSeq(lists) /\ Facts(repo).errors = \E d \in Dirs : Unreadable(repo, d)
  BY DEF Facts
<1> HIDE DEF lists, All
<1>6. /\ FlattenSeq(lists) \in Seq(All)
      /\ \A c : c \in ToSet(FlattenSeq(lists)) <=> \E i \in DOMAIN lists : c \in ToSet(lists[i])
  BY <1>4, FlattenedMembers
<1>7. \A c : c \in ToSet(FlattenSeq(lists)) <=> \E d \in Dirs : c \in ToSet(ComponentsAt(repo, d))
  BY <1>1, <1>4, <1>6, <1>l
<1>8. ToSet(FlattenSeq(lists)) = All
  <2> SUFFICES ASSUME NEW c PROVE c \in ToSet(FlattenSeq(lists)) <=> c \in Components(repo)
    BY DEF All
  <2>1. c \in Components(repo) <=>
          \E d \in Dirs : (HasNode(repo, d) /\ c = NodeComponent(repo, d)) \/ (HasPython(repo, d) /\ c = PythonComponent(repo, d))
    BY DEF Components
  <2>2. \A d \in Dirs : c \in ToSet(ComponentsAt(repo, d)) <=>
          (HasNode(repo, d) /\ c = NodeComponent(repo, d)) \/ (HasPython(repo, d) /\ c = PythonComponent(repo, d))
    BY FoundAt
  <2> QED
    BY <1>7, <2>1, <2>2
<1> QED
  BY <1>5, <1>6, <1>8 DEF All

-----------------------------------------------------------------------------
(* Components *)

\* What a package.json makes of a component.
LEMMA NodeFields ==
    ASSUME NEW repo, NEW d, NEW c, c = NodeComponent(repo, d)
    PROVE  /\ c.ecosystem = "node" /\ c.dir = d /\ c.dependencies = repo[d].package.dependencies
           /\ c.quality = Where(repo[d].package.scripts, QualityScripts)
           /\ c.tests = Where(repo[d].package.scripts, TestScripts)
           /\ c.build = ("build" \in repo[d].package.scripts)
           /\ c.files = <<>>
BY DEF NodeComponent

\* What a Python project makes of one.
LEMMA PythonFields ==
    ASSUME NEW repo, NEW d, NEW c, c = PythonComponent(repo, d)
    PROVE  c.ecosystem = "python" /\ c.dir = d /\ c.quality = Where(repo[d].python.tools, QualityTools)
BY DEF PythonComponent

\* A Python project is tested with pytest exactly if it has tests.
LEMMA PythonTests ==
    ASSUME NEW repo, NEW d, NEW c, c = PythonComponent(repo, d)
    PROVE  c.tests = IF repo[d].python.tests THEN <<"pytest">> ELSE <<>>
BY DEF PythonComponent

\* pip installs a Python project exactly if it has requirements and no lockfile.
LEMMA PythonManager ==
    ASSUME NEW repo, NEW d, NEW c, c = PythonComponent(repo, d)
    PROVE  /\ c.manager = "pip" <=> /\ {"uv.lock", "poetry.lock", "Pipfile.lock"} \cap repo[d].python.files = {}
                                    /\ Where(repo[d].python.files, Requirements) # <<>>
           /\ c.manager = "pip" => c.dependencies
BY DEF PythonComponent, NoTool

\* The requirements that pip installs.
LEMMA PythonFiles ==
    ASSUME NEW repo, NEW d, NEW c, c = PythonComponent(repo, d)
    PROVE  c.files = IF c.manager = "pip" THEN Where(repo[d].python.files, Requirements) ELSE <<>>
BY DEF PythonComponent, NoTool

\* The lists of names that the planner asks for.
LEMMA ListsOfNames ==
    /\ QualityScripts \in Seq(ToSet(QualityScripts)) /\ TestScripts \in Seq(ToSet(TestScripts))
    /\ QualityTools \in Seq(ToSet(QualityTools)) /\ Requirements \in Seq(ToSet(Requirements))
<1>1. QualityScripts \in Seq({"lint", "typecheck", "check", "format:check"})
  BY DEF QualityScripts
<1>2. TestScripts \in Seq({"test:unit", "test:ci", "test"})
  BY DEF TestScripts
<1>3. QualityTools \in Seq({"ruff", "black", "mypy", "pyright", "flake8"})
  BY DEF QualityTools
<1>4. Requirements \in Seq({"requirements.txt", "requirements-dev.txt"})
  BY DEF Requirements
<1> QED
  BY <1>1, <1>2, <1>3, <1>4, SequenceOfItsOwn

\* A directory with lockfiles, of one manager at most, has one.
LEMMA OneOfFew ==
    ASSUME NEW locks \in SUBSET NodeManagers, locks # {}, ~(Cardinality(locks) > 1)
    PROVE  Cardinality(locks) = 1
<1>1. IsFiniteSet(NodeManagers)
  <2>1. IsFiniteSet({"npm"})
    BY FS_Singleton
  <2>2. IsFiniteSet({"npm"} \cup {"pnpm"})
    BY <2>1, FS_AddElement
  <2>3. IsFiniteSet(({"npm"} \cup {"pnpm"}) \cup {"yarn"})
    BY <2>2, FS_AddElement
  <2>4. IsFiniteSet((({"npm"} \cup {"pnpm"}) \cup {"yarn"}) \cup {"bun"})
    BY <2>3, FS_AddElement
  <2>5. NodeManagers = (({"npm"} \cup {"pnpm"}) \cup {"yarn"}) \cup {"bun"}
    BY DEF NodeManagers
  <2> QED
    BY <2>4, <2>5
<1>2. IsFiniteSet(locks)
  BY <1>1, FS_Subset
<1>3. Cardinality(locks) \in Nat /\ Cardinality(locks) # 0
  BY <1>2, FS_CardinalityType, FS_EmptySet
<1> QED
  BY <1>3

\* The lockfile of a package is in its directory or above it.
LEMMA HomeIs ==
    ASSUME NEW repo, NEW d \in Dirs
    PROVE  Home(repo, d) \in ToSet(Upwards[d]) /\ Home(repo, d) \in Dirs
<1> DEFINE locked == {i \in DOMAIN Upwards[d] : repo[Upwards[d][i]].package.locks # {}}
<1>1. Upwards[d] \in Seq(Dirs) /\ d \in ToSet(Upwards[d])
  <2>1. CASE d = "root"
    BY <2>1 DEF Upwards, ToSet, Dirs
  <2>2. CASE d = "app"
    <3>1. Upwards[d] = <<"app", "root">>
      BY <2>2 DEF Upwards
    <3>2. 1 \in DOMAIN <<"app", "root">> /\ <<"app", "root">>[1] = "app"
      OBVIOUS
    <3> QED
      BY <2>2, <3>1, <3>2 DEF ToSet, Dirs
  <2> QED
    BY <2>1, <2>2 DEF Dirs
<1>2. Home(repo, d) = IF locked = {} THEN d ELSE Upwards[d][Min(locked)]
  BY DEF Home
<1>3. locked # {} => Min(locked) \in locked
  <2> SUFFICES ASSUME locked # {} PROVE Min(locked) \in locked
    OBVIOUS
  <2>1. locked \in SUBSET Nat
    BY <1>1
  <2> HIDE DEF locked
  <2>2. PICK n \in locked : \A m \in locked : n <= m
    BY <2>1, LeastMember
  <2> QED
    BY <2>2 DEF Min
<1>4. Home(repo, d) \in ToSet(Upwards[d])
  BY <1>1, <1>2, <1>3 DEF ToSet
<1>5. ToSet(Upwards[d]) \subseteq Dirs
  BY <1>1, MembersOf DEF ToSet
<1> QED
  BY <1>4, <1>5

\* Where the dependencies of a package are installed, and with what.
LEMMA NodeManager ==
    ASSUME NEW repo \in Repository, NEW d \in Dirs, NEW c, c = NodeComponent(repo, d)
    PROVE  /\ c.manager \in NodeManagers
           /\ ~c.issue /\ c.dependencies => c.home = Home(repo, d) /\ c.manager \in repo[Home(repo, d)].package.locks
<1> DEFINE locks  == repo[Home(repo, d)].package.locks
           declared == Declared(repo, d)
           single == Cardinality(locks) = 1
           member == CHOOSE m \in locks : TRUE
<1>1. locks \in SUBSET NodeManagers
  BY HomeIs DEF Repository, Package
<1>2. declared \in NodeManagers \cup {"none"}
  BY HomeIs DEF Repository, Package, Declared
<1>3. /\ c.manager = IF single THEN member ELSE IF declared # "none" THEN declared ELSE "npm"
      /\ c.home = IF single THEN Home(repo, d) ELSE d
      /\ c.issue = (Cardinality(locks) > 1 \/ (single /\ declared \notin {"none", c.manager})
                      \/ (repo[d].package.dependencies /\ locks = {}))
      /\ c.dependencies = repo[d].package.dependencies
  BY DEF NodeComponent
<1> HIDE DEF declared, locks
<1>4. single => locks # {}
  BY FS_EmptySet
<1>5. single => member \in locks
  BY <1>4
<1>6. c.manager \in NodeManagers
  BY <1>1, <1>2, <1>3, <1>5 DEF NodeManagers
<1>7. ASSUME ~c.issue, c.dependencies PROVE single
  <2>1. locks # {} /\ ~(Cardinality(locks) > 1)
    BY <1>3, <1>7
  <2> QED
    BY <1>1, <2>1, OneOfFew
<1> QED
  BY <1>3, <1>5, <1>6, <1>7 DEF locks

-----------------------------------------------------------------------------
(* Plans *)

\* The stages that run commands.
LEMMA StagesAre == CheckedStages = {"dependency_installation", "code_quality", "unit_tests", "build"}
<1>1. DOMAIN CheckStages = 1 .. 4
  BY DEF CheckStages
<1>2. CheckStages[1] = "dependency_installation" /\ CheckStages[2] = "code_quality"
      /\ CheckStages[3] = "unit_tests" /\ CheckStages[4] = "build"
  BY DEF CheckStages
<1>3. \A i \in 1 .. 4 : i = 1 \/ i = 2 \/ i = 3 \/ i = 4
  OBVIOUS
<1>4. 1 \in 1 .. 4 /\ 2 \in 1 .. 4 /\ 3 \in 1 .. 4 /\ 4 \in 1 .. 4
  OBVIOUS
<1>5. ToSet(CheckStages) = {CheckStages[i] : i \in DOMAIN CheckStages}
  BY DEF ToSet
<1> QED
  BY <1>1, <1>2, <1>3, <1>4, <1>5 DEF CheckedStages

\* The names that a component lists.
LEMMA ComponentLists ==
    ASSUME NEW repo \in Repository, NEW c \in Components(repo)
    PROVE  /\ c.quality \in Seq(ToSet(c.quality)) /\ c.tests \in Seq(ToSet(c.tests))
           /\ c.files \in Seq(ToSet(c.files))
<1>e. <<>> \in Seq(ToSet(<<>>)) /\ <<"pytest">> \in Seq(ToSet(<<"pytest">>))
  <2>1. <<>> \in Seq({})
    OBVIOUS
  <2>2. <<"pytest">> \in Seq({"pytest"})
    OBVIOUS
  <2> QED
    BY <2>1, <2>2, SequenceOfItsOwn
<1>w. \A names, present : names \in Seq(ToSet(names)) => Where(present, names) \in Seq(ToSet(Where(present, names)))
  BY WhereSelects, SequenceOfItsOwn
<1>1. ASSUME NEW d \in Dirs, c = NodeComponent(repo, d)
      PROVE  /\ c.quality \in Seq(ToSet(c.quality)) /\ c.tests \in Seq(ToSet(c.tests))
             /\ c.files \in Seq(ToSet(c.files))
  <2>1. c.quality = Where(repo[d].package.scripts, QualityScripts)
        /\ c.tests = Where(repo[d].package.scripts, TestScripts) /\ c.files = <<>>
    BY <1>1, NodeFields
  <2> QED
    BY <2>1, <1>e, <1>w, ListsOfNames
<1>2. ASSUME NEW d \in Dirs, c = PythonComponent(repo, d)
      PROVE  /\ c.quality \in Seq(ToSet(c.quality)) /\ c.tests \in Seq(ToSet(c.tests))
             /\ c.files \in Seq(ToSet(c.files))
  <2>1. /\ c.quality = Where(repo[d].python.tools, QualityTools)
        /\ c.tests = <<"pytest">> \/ c.tests = <<>>
        /\ c.files = Where(repo[d].python.files, Requirements) \/ c.files = <<>>
    <3>1. c.quality = Where(repo[d].python.tools, QualityTools)
      BY <1>2, PythonFields
    <3>2. c.tests = IF repo[d].python.tests THEN <<"pytest">> ELSE <<>>
      BY <1>2, PythonTests
    <3>3. c.files = IF c.manager = "pip" THEN Where(repo[d].python.files, Requirements) ELSE <<>>
      BY <1>2, PythonFiles
    <3>4. c.tests = <<"pytest">> \/ c.tests = <<>>
      BY <3>2
    <3> QED
      BY <3>1, <3>3, <3>4
  <2> QED
    BY <2>1, <1>e, <1>w, ListsOfNames
<1> QED
  BY <1>1, <1>2 DEF Components

\* What a stage plans for a component.
LEMMA PlansOfOne ==
    ASSUME NEW c
    PROVE  /\ PlansOf("dependency_installation", c) = DependencyPlans(c)
           /\ PlansOf("code_quality", c) = QualityPlans(c)
           /\ PlansOf("unit_tests", c) = TestPlans(c)
           /\ PlansOf("build", c) = BuildPlans(c)
BY DEF PlansOf

\* A list made from a list, element by element.
LEMMA MappedList ==
    ASSUME NEW S, NEW seq \in Seq(S), NEW new, DOMAIN new = DOMAIN seq, new = [i \in DOMAIN seq |-> new[i]]
    PROVE  new \in Seq(ToSet(new))
<1>1. DOMAIN new = 1 .. Len(seq) /\ Len(seq) \in Nat
  OBVIOUS
<1>2. \A i \in DOMAIN new : new[i] \in ToSet(new)
  BY DEF ToSet
<1>3. new \in [1 .. Len(seq) -> ToSet(new)]
  BY <1>1, <1>2
<1> QED
  BY <1>1, <1>3

\* What is planned for a component is a list.
LEMMA PlansAreLists ==
    ASSUME NEW repo \in Repository, NEW c \in Components(repo), NEW check \in CheckedStages
    PROVE  PlansOf(check, c) \in Seq(ToSet(PlansOf(check, c)))
<1>e. <<>> \in Seq(ToSet(<<>>))
  <2>1. <<>> \in Seq({})
    OBVIOUS
  <2> QED
    BY <2>1, SequenceOfItsOwn
<1>s. \A x : <<x>> \in Seq(ToSet(<<x>>))
  <2> TAKE x
  <2>1. <<x>> \in Seq({x})
    OBVIOUS
  <2> QED
    BY <2>1, SequenceOfItsOwn
<1>c. c.quality \in Seq(ToSet(c.quality)) /\ c.files \in Seq(ToSet(c.files))
  BY ComponentLists
<1>1. DependencyPlans(c) \in Seq(ToSet(DependencyPlans(c)))
  <2> DEFINE installs == [i \in DOMAIN c.files |-> Command(c.dir, "python", c.files[i])]
  <2>1. installs \in Seq(ToSet(installs))
    <3>1. DOMAIN installs = DOMAIN c.files /\ installs = [i \in DOMAIN c.files |-> installs[i]]
      OBVIOUS
    <3> HIDE DEF installs
    <3> QED
      BY <1>c, <3>1, MappedList
  <2>2. DependencyPlans(c) = <<>> \/ DependencyPlans(c) = installs
          \/ DependencyPlans(c) = <<Command(c.home, c.manager, "install")>>
    BY DEF DependencyPlans
  <2> HIDE DEF installs
  <2> QED
    BY <1>e, <1>s, <2>1, <2>2
<1>2. QualityPlans(c) \in Seq(ToSet(QualityPlans(c)))
  <2>1. DOMAIN QualityPlans(c) = DOMAIN c.quality /\ QualityPlans(c) = [i \in DOMAIN c.quality |-> QualityPlans(c)[i]]
    BY DEF QualityPlans
  <2> QED
    BY <1>c, <2>1, MappedList
<1>3. TestPlans(c) \in Seq(ToSet(TestPlans(c)))
  <2>1. TestPlans(c) = <<>> \/ TestPlans(c) = <<Script(c, Head(c.tests))>> \/ TestPlans(c) = <<Command(c.dir, "pytest", "test")>>
    BY DEF TestPlans
  <2> QED
    BY <1>e, <1>s, <2>1
<1>4. BuildPlans(c) \in Seq(ToSet(BuildPlans(c)))
  <2>1. BuildPlans(c) = <<>> \/ BuildPlans(c) = <<Script(c, "build")>> \/ BuildPlans(c) = <<Command(c.dir, "python", "compileall")>>
    BY DEF BuildPlans
  <2> QED
    BY <1>e, <1>s, <2>1
<1>5. check \in {"dependency_installation", "code_quality", "unit_tests", "build"}
  BY StagesAre
<1> QED
  BY <1>1, <1>2, <1>3, <1>4, <1>5, PlansOfOne

\* A command is planned for a stage exactly if a component asks for it.
LEMMA PlannedCommands ==
    ASSUME NEW repo \in Repository, NEW check \in CheckedStages
    PROVE  /\ Plans(check, Facts(repo)) \in Seq(ToSet(Plans(check, Facts(repo))))
           /\ \A x : x \in ToSet(Plans(check, Facts(repo))) <=>
                        \E c \in Components(repo) : x \in ToSet(PlansOf(check, c))
<1> DEFINE found == Facts(repo).components
           lists == [i \in DOMAIN found |-> PlansOf(check, found[i])]
           T     == UNION {ToSet(PlansOf(check, c)) : c \in Components(repo)}
<1>1. found \in Seq(Components(repo)) /\ ToSet(found) = Components(repo)
  BY FoundIn
<1>2. Plans(check, Facts(repo)) = Once(FlattenSeq(lists))
  BY DEF Plans
<1> HIDE DEF found
<1>3. DOMAIN found = 1 .. Len(found) /\ Len(found) \in Nat /\ \A i \in DOMAIN found : found[i] \in Components(repo)
  BY <1>1
<1>4. ASSUME NEW c \in Components(repo) PROVE PlansOf(check, c) \in Seq(T)
  <2>1. PlansOf(check, c) \in Seq(ToSet(PlansOf(check, c)))
    BY PlansAreLists
  <2>2. ToSet(PlansOf(check, c)) \subseteq T
    OBVIOUS
  <2> HIDE DEF T
  <2> QED
    BY <2>1, <2>2
<1>5. DOMAIN lists = DOMAIN found /\ \A i \in DOMAIN found : lists[i] = PlansOf(check, found[i])
  OBVIOUS
<1> HIDE DEF T
<1>6. lists \in [1 .. Len(found) -> Seq(T)]
  BY <1>3, <1>4
<1> HIDE DEF lists
<1>7. lists \in Seq(Seq(T))
  BY <1>3, <1>6
<1>8. /\ FlattenSeq(lists) \in Seq(T)
      /\ \A x : x \in ToSet(FlattenSeq(lists)) <=> \E i \in DOMAIN lists : x \in ToSet(lists[i])
  BY <1>7, FlattenedMembers
<1>9. Once(FlattenSeq(lists)) \in Seq(T) /\ ToSet(Once(FlattenSeq(lists))) = ToSet(FlattenSeq(lists))
  BY <1>8, OnceKeeps
<1>10. ASSUME NEW x
       PROVE  (\E i \in DOMAIN found : x \in ToSet(PlansOf(check, found[i]))) <=>
              (\E c \in Components(repo) : x \in ToSet(PlansOf(check, c)))
  BY <1>1 DEF ToSet
<1>11. \A x : x \in ToSet(Once(FlattenSeq(lists))) <=> \E c \in Components(repo) : x \in ToSet(PlansOf(check, c))
  BY <1>5, <1>8, <1>9, <1>10
<1> QED
  BY <1>2, <1>9, <1>11, SequenceOfItsOwn

-----------------------------------------------------------------------------
(* Verdicts *)

\* What is planned of a stage that has no issue.
Planned(repo, s) == ToSet(Plans(s, Facts(repo)))

\* A stage that the reconciliation queues has a command.
LEMMA CapableIsPlanned ==
    ASSUME NEW repo \in Repository, NEW s \in CheckedStages, Capable(s, Facts(repo)), ~Issues(s, Facts(repo))
    PROVE  Plans(s, Facts(repo)) # <<>>
<1>1. PICK c \in Components(repo) :
          [dependency_installation |-> c.dependencies, code_quality |-> c.quality # <<>>,
           unit_tests |-> c.tests # <<>>, build |-> c.build][s]
  BY FoundIn DEF Capable
<1>s. s \in {"dependency_installation", "code_quality", "unit_tests", "build"}
  BY StagesAre
<1>l. c.quality \in Seq(ToSet(c.quality)) /\ c.files \in Seq(ToSet(c.files))
  BY ComponentLists
<1>2. PlansOf(s, c) # <<>>
  <2>1. CASE s = "dependency_installation"
    <3>1. c.dependencies
      BY <1>1, <2>1
    <3>2. ~c.issue
      BY <2>1, FoundIn DEF Issues
    <3>3. c.manager = "pip" => c.files # <<>>
      <4>1. ASSUME NEW d \in Dirs, c = NodeComponent(repo, d) PROVE c.manager # "pip"
        BY <4>1, NodeManager DEF NodeManagers
      <4>2. ASSUME NEW d \in Dirs, c = PythonComponent(repo, d), c.manager = "pip" PROVE c.files # <<>>
        <5>1. c.files = IF c.manager = "pip" THEN Where(repo[d].python.files, Requirements) ELSE <<>>
          BY <4>2, PythonFiles
        <5>2. Where(repo[d].python.files, Requirements) # <<>>
          BY <4>2, PythonManager
        <5> QED
          BY <4>2, <5>1, <5>2
      <4> QED
        BY <4>1, <4>2 DEF Components
    <3> DEFINE installs == [i \in DOMAIN c.files |-> Command(c.dir, "python", c.files[i])]
    <3>4. c.manager = "pip" => installs # <<>>
      <4> SUFFICES ASSUME c.manager = "pip" PROVE installs # <<>>
        OBVIOUS
      <4>1. 1 \in DOMAIN c.files
        BY <1>l, <3>3, EmptyLists
      <4>2. 1 \in DOMAIN installs
        BY <4>1
      <4> HIDE DEF installs
      <4> QED
        BY <4>2
    <3>5. DependencyPlans(c) = IF c.manager = "pip" THEN installs ELSE <<Command(c.home, c.manager, "install")>>
      BY <3>1, <3>2 DEF DependencyPlans
    <3> HIDE DEF installs
    <3> QED
      BY SMTT(30), <2>1, <3>4, <3>5, PlansOfOne
  <2>2. CASE s = "code_quality"
    <3>1. c.quality # <<>>
      BY <1>1, <2>2
    <3>2. 1 \in DOMAIN c.quality
      BY <1>l, <3>1, EmptyLists
    <3>3. 1 \in DOMAIN QualityPlans(c)
      BY <3>2 DEF QualityPlans
    <3> QED
      BY <2>2, <3>3, PlansOfOne
  <2>3. CASE s = "unit_tests"
    <3>1. c.tests # <<>>
      BY <1>1, <2>3
    <3> QED
      BY <2>3, <3>1, PlansOfOne DEF TestPlans
  <2>4. CASE s = "build"
    <3>1. c.build
      BY <1>1, <2>4
    <3> QED
      BY <2>4, <3>1, PlansOfOne DEF BuildPlans
  <2> QED
    BY <1>s, <2>1, <2>2, <2>3, <2>4
<1>3. PlansOf(s, c) \in Seq(ToSet(PlansOf(s, c)))
  BY PlansAreLists
<1>4. ToSet(PlansOf(s, c)) # {}
  BY <1>2, <1>3, EmptyLists
<1>5. ToSet(Plans(s, Facts(repo))) # {}
  BY <1>4, PlannedCommands
<1> QED
  BY <1>5, PlannedCommands, EmptyLists

\* The requirements files that are asked for.
LEMMA NamesOfRequirements == ToSet(Requirements) = {"requirements.txt", "requirements-dev.txt"}
<1>1. DOMAIN Requirements = 1 .. 2 /\ Requirements[1] = "requirements.txt" /\ Requirements[2] = "requirements-dev.txt"
  BY DEF Requirements
<1>2. \A i \in 1 .. 2 : i = 1 \/ i = 2
  OBVIOUS
<1>3. 1 \in 1 .. 2 /\ 2 \in 1 .. 2
  OBVIOUS
<1> QED
  BY <1>1, <1>2, <1>3 DEF ToSet

\* What the manifests of a directory ask of a stage is in its plan.
LEMMA PlansLeaveNothingOut ==
    ASSUME tree \in Repository, NEW s \in CheckedStages, ~Issues(s, Facts(tree)), NEW d \in Dirs,
           NEW here, here = {c \in Planned(tree, s) : c.dir = d}
    PROVE  /\ ~Unreadable(tree, d)
           /\ Asked(s, d).scripts \subseteq {c.asked : c \in here}
           /\ Asked(s, d).tools \subseteq {c.tool : c \in here}
           /\ s = "unit_tests" /\ tree[d].package.json = "good" /\ tree[d].package.scripts \cap ToSet(TestScripts) # {} =>
                  \E c \in here : c.asked \in tree[d].package.scripts
           /\ s = "build" /\ tree[d].package.json = "good" /\ "build" \in tree[d].package.scripts =>
                  \E c \in here : c.asked = "build"
           /\ s = "dependency_installation" /\ tree[d].package.json = "good" /\ tree[d].package.dependencies =>
                  \E c \in Planned(tree, s) : c.asked = "install" /\ c.tool \in tree[c.dir].package.locks
                                                 /\ c.dir \in ToSet(Upwards[d])
<1> DEFINE package == tree[d].package
           python  == tree[d].python
           node    == NodeComponent(tree, d)
           snake   == PythonComponent(tree, d)
<1>s. s \in {"dependency_installation", "code_quality", "unit_tests", "build"}
  BY StagesAre
<1>0. ~Unreadable(tree, d)
  BY FoundIn DEF Issues
<1>1. package.json = "good" => node \in Components(tree)
  <2> SUFFICES ASSUME package.json = "good" PROVE HasNode(tree, d)
    BY DEF Components
  <2> QED
    BY <1>0 DEF Unreadable, HasNode
<1>2. PythonMarked(tree, d) => snake \in Components(tree)
  <2> SUFFICES ASSUME PythonMarked(tree, d) PROVE HasPython(tree, d)
    BY DEF Components
  <2> QED
    BY <1>0 DEF Unreadable, HasPython
<1>p. \A c \in Components(tree) : ToSet(PlansOf(s, c)) \subseteq Planned(tree, s)
  BY PlannedCommands DEF Planned
<1>i. s = "dependency_installation" => \A c \in Components(tree) : ~c.issue
  BY FoundIn DEF Issues
<1>c. \A dir, t, asked : Command(dir, t, asked).dir = dir /\ Command(dir, t, asked).tool = t /\ Command(dir, t, asked).asked = asked
  BY DEF Command
<1>q. ASSUME NEW c, NEW x \in ToSet(c.quality)
      PROVE  (IF c.ecosystem = "node" THEN Script(c, x) ELSE Command(c.dir, x, "check")) \in ToSet(QualityPlans(c))
  <2>1. PICK i \in DOMAIN c.quality : c.quality[i] = x
    BY <1>q DEF ToSet
  <2>2. i \in DOMAIN QualityPlans(c)
        /\ QualityPlans(c)[i] = IF c.ecosystem = "node" THEN Script(c, x) ELSE Command(c.dir, x, "check")
    BY <2>1 DEF QualityPlans
  <2> QED
    BY <2>2 DEF ToSet
<1> HIDE DEF node, snake
<1>n. /\ node.ecosystem = "node" /\ node.dir = d
      /\ node.quality = Where(package.scripts, QualityScripts) /\ node.tests = Where(package.scripts, TestScripts)
  BY NodeFields DEF node
<1>y. /\ snake.ecosystem = "python" /\ snake.dir = d /\ snake.quality = Where(python.tools, QualityTools)
  BY PythonFields DEF snake
<1>3. Asked(s, d).scripts \subseteq {c.asked : c \in here}
  <2> SUFFICES ASSUME NEW x \in Asked(s, d).scripts PROVE \E c \in here : c.asked = x
    OBVIOUS
  <2>1. CASE s = "code_quality"
    <3>1. package.json = "good" /\ x \in package.scripts \cap ToSet(QualityScripts)
      BY <2>1 DEF Asked
    <3>2. x \in ToSet(node.quality)
      BY <1>n, <3>1, WhereSelects, ListsOfNames
    <3>3. Script(node, x) \in ToSet(QualityPlans(node))
      BY <1>n, <1>q, <3>2
    <3>4. Script(node, x) \in Planned(tree, s)
      BY <1>1, <1>p, <2>1, <3>1, <3>3, PlansOfOne
    <3> QED
      BY <1>c, <1>n, <3>4 DEF Script
  <2>2. CASE s = "dependency_installation"
    <3>1. /\ {"uv.lock", "poetry.lock", "Pipfile.lock"} \cap python.files = {}
          /\ x \in python.files \cap ToSet(Requirements)
      BY <2>2 DEF Asked
    <3>2. PythonMarked(tree, d)
      <4>1. ToSet(Requirements) = {"requirements.txt", "requirements-dev.txt"}
        BY NamesOfRequirements
      <4>2. x # "py"
        BY <3>1, <4>1
      <4> QED
        BY <3>1, <4>2 DEF PythonMarked
    <3> DEFINE files == Where(python.files, Requirements)
    <3>3. files \in Seq(ToSet(Requirements)) /\ x \in ToSet(files)
      BY <3>1, WhereSelects, ListsOfNames
    <3>4. files # <<>>
      BY <3>3, EmptyLists
    <3>5. snake.manager = "pip"
      <4>1. snake.manager = "pip" <=> /\ {"uv.lock", "poetry.lock", "Pipfile.lock"} \cap python.files = {}
                                      /\ files # <<>>
        BY PythonManager DEF snake
      <4> QED
        BY <3>1, <3>4, <4>1
    <3>6. snake.files = files
      <4>1. snake.files = IF snake.manager = "pip" THEN files ELSE <<>>
        BY PythonFiles DEF snake
      <4> QED
        BY <3>5, <4>1
    <3>7. snake.dependencies /\ ~snake.issue
      <4>1. snake.manager = "pip" => snake.dependencies
        BY PythonManager DEF snake
      <4> QED
        BY <1>2, <1>i, <2>2, <3>2, <3>5, <4>1
    <3> HIDE DEF files
    <3>8. DependencyPlans(snake) = [i \in DOMAIN files |-> Command(d, "python", files[i])]
      BY <1>y, <3>5, <3>6, <3>7 DEF DependencyPlans
    <3>9. PICK i \in DOMAIN files : files[i] = x
      BY <3>3 DEF ToSet
    <3>10. i \in DOMAIN DependencyPlans(snake) /\ DependencyPlans(snake)[i] = Command(d, "python", x)
      BY <3>8, <3>9
    <3>11. Command(d, "python", x) \in ToSet(DependencyPlans(snake))
      BY <3>10 DEF ToSet
    <3>12. Command(d, "python", x) \in Planned(tree, s)
      BY <1>2, <1>p, <2>2, <3>2, <3>11, PlansOfOne
    <3> QED
      BY <1>c, <3>12
  <2>3. CASE s \in {"unit_tests", "build"}
    BY <2>3 DEF Asked
  <2> QED
    BY <1>s, <2>1, <2>2, <2>3
<1>4. Asked(s, d).tools \subseteq {c.tool : c \in here}
  <2> SUFFICES ASSUME NEW x \in Asked(s, d).tools PROVE \E c \in here : c.tool = x
    OBVIOUS
  <2>1. CASE s = "code_quality"
    <3>1. PythonMarked(tree, d) /\ x \in python.tools
      BY <2>1 DEF Asked
    <3>2. x \in ToSet(QualityTools)
      BY <3>1 DEF Repository, Python
    <3>3. x \in ToSet(snake.quality)
      BY <1>y, <3>1, <3>2, WhereSelects, ListsOfNames
    <3>4. Command(d, x, "check") \in ToSet(QualityPlans(snake))
      BY <1>y, <1>q, <3>3
    <3>5. Command(d, x, "check") \in Planned(tree, s)
      BY <1>2, <1>p, <2>1, <3>1, <3>4, PlansOfOne
    <3> QED
      BY <1>c, <3>5
  <2>2. CASE s = "unit_tests"
    <3>1. PythonMarked(tree, d) /\ python.tests /\ x = "pytest"
      BY <2>2 DEF Asked
    <3>2. snake.tests = <<"pytest">>
      <4>1. snake.tests = IF python.tests THEN <<"pytest">> ELSE <<>>
        BY PythonTests DEF snake
      <4> QED
        BY <3>1, <4>1
    <3>3. TestPlans(snake) = <<Command(d, "pytest", "test")>>
      BY <1>y, <3>2 DEF TestPlans
    <3>4. Command(d, "pytest", "test") \in ToSet(TestPlans(snake))
      BY <3>3, OneMember
    <3>5. Command(d, "pytest", "test") \in Planned(tree, s)
      BY <1>2, <1>p, <2>2, <3>1, <3>4, PlansOfOne
    <3> QED
      BY <1>c, <3>1, <3>5
  <2>3. CASE s \in {"dependency_installation", "build"}
    BY <2>3 DEF Asked
  <2> QED
    BY <1>s, <2>1, <2>2, <2>3
<1>5. ASSUME s = "unit_tests", package.json = "good", package.scripts \cap ToSet(TestScripts) # {}
      PROVE  \E c \in here : c.asked \in package.scripts
  <2>1. node.tests \in Seq(ToSet(TestScripts)) /\ ToSet(node.tests) = ToSet(TestScripts) \cap package.scripts
    BY <1>n, WhereSelects, ListsOfNames
  <2>2. node.tests # <<>> /\ Head(node.tests) = node.tests[1] /\ 1 \in DOMAIN node.tests
    BY <1>5, <2>1, EmptyLists
  <2>3. Head(node.tests) \in package.scripts
    <3>1. Head(node.tests) \in ToSet(node.tests)
      BY <2>2 DEF ToSet
    <3> QED
      BY <2>1, <3>1
  <2>4. TestPlans(node) = <<Script(node, Head(node.tests))>>
    BY <1>n, <2>2 DEF TestPlans
  <2>5. Script(node, Head(node.tests)) \in ToSet(TestPlans(node))
    BY <2>4, OneMember
  <2>6. Script(node, Head(node.tests)) \in Planned(tree, s)
    BY <1>1, <1>p, <1>5, <2>5, PlansOfOne
  <2> QED
    BY <1>c, <1>n, <2>3, <2>6 DEF Script
<1>6. ASSUME s = "build", package.json = "good", "build" \in package.scripts
      PROVE  \E c \in here : c.asked = "build"
  <2>1. node.build
    <3>1. node.build = ("build" \in package.scripts)
      BY NodeFields DEF node
    <3> QED
      BY <1>6, <3>1
  <2>2. BuildPlans(node) = <<Script(node, "build")>>
    BY <1>n, <2>1 DEF BuildPlans
  <2>3. Script(node, "build") \in ToSet(BuildPlans(node))
    BY <2>2, OneMember
  <2>4. Script(node, "build") \in Planned(tree, s)
    BY <1>1, <1>p, <1>6, <2>3, PlansOfOne
  <2> QED
    BY <1>c, <1>n, <2>4 DEF Script
<1>7. ASSUME s = "dependency_installation", package.json = "good", package.dependencies
      PROVE  \E c \in Planned(tree, s) : c.asked = "install" /\ c.tool \in tree[c.dir].package.locks
                                            /\ c.dir \in ToSet(Upwards[d])
  <2>1. node.dependencies /\ ~node.issue
    <3>1. node.dependencies = package.dependencies
      BY NodeFields DEF node
    <3> QED
      BY <1>1, <1>i, <1>7, <3>1
  <2>2. node.manager \in NodeManagers /\ node.home = Home(tree, d) /\ node.manager \in tree[Home(tree, d)].package.locks
    BY <2>1, NodeManager DEF node
  <2>3. DependencyPlans(node) = <<Command(node.home, node.manager, "install")>>
    BY <2>1, <2>2 DEF DependencyPlans, NodeManagers
  <2>4. Command(node.home, node.manager, "install") \in ToSet(DependencyPlans(node))
    BY <2>3, OneMember
  <2>5. Command(node.home, node.manager, "install") \in Planned(tree, s)
    BY <1>1, <1>p, <1>7, <2>4, PlansOfOne
  <2> QED
    BY <1>c, <2>2, <2>5, HomeIs
<1> QED
  BY <1>0, <1>3, <1>4, <1>5, <1>6, <1>7

\* Nothing is asked of a stage that the repository is not capable of.
LEMMA IncapableIsNotAsked ==
    ASSUME tree \in Repository, NEW s \in CheckedStages, ~Capable(s, Facts(tree)), NEW d \in Dirs, ~Unreadable(tree, d)
    PROVE  Asked(s, d).scripts = {} /\ Asked(s, d).tools = {} /\ ~AsksOfPackage(s, tree[d].package)
<1> DEFINE package == tree[d].package
           python  == tree[d].python
           node    == NodeComponent(tree, d)
           snake   == PythonComponent(tree, d)
<1>s. s \in {"dependency_installation", "code_quality", "unit_tests", "build"}
  BY StagesAre
<1>1. package.json = "good" => node \in Components(tree)
  BY DEF Components, Unreadable, HasNode
<1>2. PythonMarked(tree, d) => snake \in Components(tree)
  BY DEF Components, Unreadable, HasPython
<1>c. \A c \in Components(tree) :
          ~[dependency_installation |-> c.dependencies, code_quality |-> c.quality # <<>>,
            unit_tests |-> c.tests # <<>>, build |-> c.build][s]
  BY FoundIn DEF Capable
<1> HIDE DEF node, snake
<1>n. /\ node.quality = Where(package.scripts, QualityScripts) /\ node.tests = Where(package.scripts, TestScripts)
      /\ node.dependencies = package.dependencies /\ node.build = ("build" \in package.scripts)
  BY NodeFields DEF node
<1>y. /\ snake.quality = Where(python.tools, QualityTools)
      /\ snake.tests = IF python.tests THEN <<"pytest">> ELSE <<>>
  BY PythonFields, PythonTests DEF snake
<1>l. ASSUME NEW present, NEW names \in {QualityScripts, TestScripts, QualityTools, Requirements}, Where(present, names) = <<>>
      PROVE  present \cap ToSet(names) = {}
  <2>1. names \in Seq(ToSet(names))
    BY <1>l, ListsOfNames
  <2>2. ToSet(Where(present, names)) = ToSet(names) \cap present /\ Where(present, names) \in Seq(ToSet(names))
    BY <2>1, WhereSelects
  <2>3. ToSet(Where(present, names)) = {}
    BY <1>l, <2>2, EmptyLists
  <2> QED
    BY <2>2, <2>3
<1>3. CASE s = "code_quality"
  <2>1. package.json = "good" => package.scripts \cap ToSet(QualityScripts) = {}
    BY <1>1, <1>c, <1>l, <1>n, <1>3
  <2>2. PythonMarked(tree, d) => python.tools = {}
    <3>1. python.tools \subseteq ToSet(QualityTools)
      BY DEF Repository, Python
    <3> QED
      BY <1>2, <1>c, <1>l, <1>y, <1>3, <3>1
  <2> QED
    BY <1>3, <2>1, <2>2 DEF Asked, AsksOfPackage
<1>4. CASE s = "unit_tests"
  <2>1. package.json = "good" => package.scripts \cap ToSet(TestScripts) = {}
    BY <1>1, <1>c, <1>l, <1>n, <1>4
  <2>2. ASSUME PythonMarked(tree, d), python.tests PROVE FALSE
    <3>1. snake \in Components(tree) /\ snake.tests = <<"pytest">>
      BY <1>2, <1>y, <2>2
    <3>2. snake.tests = <<>>
      BY <1>c, <1>4, <3>1
    <3> QED
      BY <3>1, <3>2
  <2> QED
    BY <1>4, <2>1, <2>2 DEF Asked, AsksOfPackage
<1>5. CASE s = "build"
  BY <1>1, <1>c, <1>n, <1>5 DEF Asked, AsksOfPackage
<1>6. CASE s = "dependency_installation"
  <2>1. package.json = "good" => ~package.dependencies
    BY <1>1, <1>c, <1>n, <1>6
  <2>2. ASSUME {"uv.lock", "poetry.lock", "Pipfile.lock"} \cap python.files = {}, python.files \cap ToSet(Requirements) # {}
        PROVE  FALSE
    <3>1. PythonMarked(tree, d)
      <4>1. PICK x \in python.files \cap ToSet(Requirements) : TRUE
        BY <2>2
      <4>2. x # "py"
        BY NamesOfRequirements
      <4> QED
        BY <4>1, <4>2 DEF PythonMarked
    <3>2. Where(python.files, Requirements) # <<>>
      BY <1>l, <2>2
    <3>3. snake.manager = "pip" => snake.dependencies
      BY PythonManager DEF snake
    <3>4. snake.manager = "pip" <=> /\ {"uv.lock", "poetry.lock", "Pipfile.lock"} \cap python.files = {}
                                    /\ Where(python.files, Requirements) # <<>>
      BY PythonManager DEF snake
    <3> QED
      BY <1>2, <1>c, <1>6, <2>2, <3>1, <3>2, <3>3, <3>4
  <2>3. Asked(s, d).scripts = (IF {"uv.lock", "poetry.lock", "Pipfile.lock"} \cap python.files # {} THEN {}
                               ELSE python.files \cap ToSet(Requirements))
        /\ Asked(s, d).tools = {}
    BY <1>6 DEF Asked
  <2> QED
    BY <1>6, <2>1, <2>2, <2>3 DEF AsksOfPackage
<1> QED
  BY <1>s, <1>3, <1>4, <1>5, <1>6

-----------------------------------------------------------------------------
(* The run of the checks *)

TreeIsRead  == tree \in Repository
ResultsAre  == result \in [CheckedStages -> {"queued", "skipped", "unavailable", "failed", "passed"}]
CompletedAre ==
    /\ completed = [s \in CheckedStages |-> completed[s]]
    /\ \A s \in CheckedStages : completed[s] \in Seq(ToSet(completed[s]))
TaskIs == task = [stage |-> task.stage, left |-> task.left, container |-> task.container]

QueuedAreCapable ==
    \A s \in CheckedStages : /\ result[s] = "queued" => Capable(s, Facts(tree))
                             /\ result[s] = "skipped" => ~Capable(s, Facts(tree))

\* What ran for a command is its tool, save for the tests of a demonstration.
Meant(e) == e.program = e.command.tool \/ (venue = "demo" /\ e.command.tool = "pytest")
CompletedArePlanned ==
    \A s \in CheckedStages : /\ Commands(s) \subseteq Planned(tree, s)
                             /\ \A i \in DOMAIN completed[s] : Meant(completed[s][i])
PassedAreDone       ==
    \A s \in CheckedStages : result[s] = "passed" =>
        ~Issues(s, Facts(tree)) /\ Planned(tree, s) \subseteq Commands(s)

\* A stage at work: what is planned for it is done or left.
AtWork == {"inspect", "create", "prepare", "ready"}
WorkIsPlanned ==
    at \in AtWork =>
        /\ task.stage \in CheckedStages
        /\ ~Issues(task.stage, Facts(tree))
        /\ task.left \in Seq(Planned(tree, task.stage)) /\ task.left # <<>>
        /\ Planned(tree, task.stage) \subseteq Commands(task.stage) \cup ToSet(task.left)

DockerPlaces == at \in {"inspect", "create", "prepare"} => venue = "docker"

Fresh(check, source) == [stage |-> check, source |-> source, ran |-> <<>>]
NewContainer ==
    /\ at = "prepare" =>
          task.container \in DOMAIN containers /\ containers[task.container] = Fresh(task.stage, image)
    /\ at = "ready" /\ venue = "docker" =>
          task.container \in DOMAIN containers /\ containers[task.container] = Fresh(task.stage, "same")

Own(s, e) ==
    /\ e.container \in DOMAIN containers
    /\ containers[e.container] = [stage |-> s, source |-> "same", ran |-> <<e.command>>]
EachOnItsOwn == venue = "docker" => \A s \in CheckedStages : \A i \in DOMAIN completed[s] : Own(s, completed[s][i])

VerdictInv ==
    /\ TreeIsRead /\ ResultsAre /\ CompletedAre /\ TaskIs /\ ContainersAre
    /\ QueuedAreCapable /\ CompletedArePlanned /\ PassedAreDone
    /\ WorkIsPlanned /\ DockerPlaces /\ NewContainer /\ EachOnItsOwn

\* At first nothing has run.
LEMMA VerdictInitInv == ChecksInit => VerdictInv
<1> SUFFICES ASSUME ChecksInit PROVE VerdictInv
  OBVIOUS
<1>1. /\ tree \in Trees /\ at = "between" /\ task = NoTask /\ containers = <<>>
      /\ result = [s \in CheckedStages |-> IF Capable(s, Facts(tree)) THEN "queued" ELSE "skipped"]
      /\ completed = [s \in CheckedStages |-> <<>>]
  BY DEF ChecksInit
<1>2. TreeIsRead
  BY <1>1, TreesAssumption DEF TreeIsRead
<1>3. ResultsAre /\ QueuedAreCapable
  <2>1. \A s \in CheckedStages : result[s] = IF Capable(s, Facts(tree)) THEN "queued" ELSE "skipped"
    BY <1>1
  <2>2. ResultsAre
    BY <1>1 DEF ResultsAre
  <2>3. QueuedAreCapable
    BY <2>1 DEF QueuedAreCapable
  <2> QED
    BY <2>2, <2>3
<1>4. \A s \in CheckedStages : completed[s] = <<>>
  BY <1>1
<1>5. <<>> \in Seq(ToSet(<<>>)) /\ DOMAIN <<>> = {}
  <2>1. <<>> \in Seq({}) /\ DOMAIN <<>> = {}
    OBVIOUS
  <2> QED
    BY <2>1, SequenceOfItsOwn
<1>6. CompletedAre /\ ContainersAre
  BY <1>1, <1>4, <1>5 DEF CompletedAre, ContainersAre
<1>7. TaskIs
  BY <1>1 DEF TaskIs, NoTask
<1>8. CompletedArePlanned /\ EachOnItsOwn
  BY <1>4, <1>5 DEF CompletedArePlanned, EachOnItsOwn, Commands
<1>9. PassedAreDone
  <2>1. \A s \in CheckedStages : result[s] # "passed"
    BY <1>1
  <2> QED
    BY <2>1 DEF PassedAreDone
<1>10. WorkIsPlanned /\ DockerPlaces /\ NewContainer
  BY <1>1 DEF WorkIsPlanned, DockerPlaces, NewContainer, AtWork
<1> QED
  BY <1>2, <1>3, <1>6, <1>7, <1>8, <1>9, <1>10 DEF VerdictInv

\* The invariant is what the property needs.
LEMMA VerdictsHold == VerdictInv => VerdictsAreComplete
<1> SUFFICES ASSUME VerdictInv PROVE VerdictsAreComplete
  OBVIOUS
<1>1. QueuedIsPlanned
  BY DEF VerdictInv, ResultsAre, QueuedIsPlanned
<1>2. EachCommandOfItsOwn
  BY DEF VerdictInv, EachOnItsOwn, EachCommandOfItsOwn, Own
<1>3. PassedLeftNothingOut
  <2> SUFFICES ASSUME NEW s \in CheckedStages, result[s] = "passed", NEW d \in Dirs,
                      NEW here, here = {c \in Commands(s) : c.dir = d}
               PROVE  /\ ~Unreadable(tree, d)
                      /\ Asked(s, d).scripts \subseteq {c.asked : c \in here}
                      /\ Asked(s, d).tools \ (IF venue = "demo" THEN {"pytest"} ELSE {}) \subseteq ProgramsRun(s, d)
                      /\ s = "unit_tests" /\ AsksOfPackage(s, tree[d].package) =>
                             \E c \in here : c.asked \in tree[d].package.scripts
                      /\ s = "build" /\ AsksOfPackage(s, tree[d].package) => \E c \in here : c.asked = "build"
                      /\ s = "dependency_installation" /\ AsksOfPackage(s, tree[d].package) =>
                             \E c \in Commands(s) : c.asked = "install" /\ c.tool \in tree[c.dir].package.locks
                                                      /\ c.dir \in ToSet(Upwards[d])
    BY DEF PassedLeftNothingOut
  <2>1. Commands(s) = Planned(tree, s) /\ ~Issues(s, Facts(tree)) /\ tree \in Repository
        /\ \A i \in DOMAIN completed[s] : Meant(completed[s][i])
    BY DEF VerdictInv, PassedAreDone, CompletedArePlanned, TreeIsRead
  <2>2. here = {c \in Planned(tree, s) : c.dir = d}
    BY <2>1
  <2>3. /\ ~Unreadable(tree, d)
        /\ Asked(s, d).scripts \subseteq {c.asked : c \in here}
        /\ Asked(s, d).tools \subseteq {c.tool : c \in here}
        /\ s = "unit_tests" /\ tree[d].package.json = "good" /\ tree[d].package.scripts \cap ToSet(TestScripts) # {} =>
               \E c \in here : c.asked \in tree[d].package.scripts
        /\ s = "build" /\ tree[d].package.json = "good" /\ "build" \in tree[d].package.scripts =>
               \E c \in here : c.asked = "build"
        /\ s = "dependency_installation" /\ tree[d].package.json = "good" /\ tree[d].package.dependencies =>
               \E c \in Commands(s) : c.asked = "install" /\ c.tool \in tree[c.dir].package.locks
                                        /\ c.dir \in ToSet(Upwards[d])
    BY <2>1, <2>2, PlansLeaveNothingOut
  <2>4. ASSUME NEW x \in Asked(s, d).tools \ (IF venue = "demo" THEN {"pytest"} ELSE {}) PROVE x \in ProgramsRun(s, d)
    <3>1. PICK c \in here : c.tool = x
      BY <2>3
    <3>2. PICK i \in DOMAIN completed[s] : completed[s][i].command = c
      BY <3>1 DEF Commands
    <3>3. completed[s][i].program = x
      BY <2>1, <2>4, <3>1, <3>2 DEF Meant
    <3> QED
      BY <3>1, <3>2, <3>3 DEF ProgramsRun
  <2>5. /\ AsksOfPackage("unit_tests", tree[d].package) <=>
               tree[d].package.json = "good" /\ tree[d].package.scripts \cap ToSet(TestScripts) # {}
        /\ AsksOfPackage("build", tree[d].package) => tree[d].package.json = "good" /\ "build" \in tree[d].package.scripts
        /\ AsksOfPackage("dependency_installation", tree[d].package) =>
               tree[d].package.json = "good" /\ tree[d].package.dependencies
    BY DEF AsksOfPackage
  <2> QED
    BY <2>3, <2>4, <2>5
<1>4. SkippedWasNotAsked
  <2> SUFFICES ASSUME NEW s \in CheckedStages, result[s] = "skipped", \A d \in Dirs : ~Unreadable(tree, d),
                      NEW d \in Dirs
               PROVE  Asked(s, d).scripts = {} /\ Asked(s, d).tools = {} /\ ~AsksOfPackage(s, tree[d].package)
    BY DEF SkippedWasNotAsked
  <2>1. ~Capable(s, Facts(tree)) /\ tree \in Repository
    BY DEF VerdictInv, QueuedAreCapable, TreeIsRead
  <2> QED
    BY <2>1, IncapableIsNotAsked
<1> QED
  BY <1>1, <1>2, <1>3, <1>4 DEF VerdictsAreComplete

\* A command that completed stands for itself while the containers that have been used stay as they are.
LEMMA UsedContainersStay ==
    ASSUME EachOnItsOwn, UNCHANGED <<venue, completed>>,
           \A c \in DOMAIN containers : containers[c].ran # <<>> => c \in DOMAIN containers' /\ containers'[c] = containers[c]
    PROVE  EachOnItsOwn'
<1> SUFFICES ASSUME venue = "docker", NEW s \in CheckedStages, NEW i \in DOMAIN completed[s]
             PROVE  Own(s, completed[s][i])'
  BY DEF EachOnItsOwn
<1> DEFINE e == completed[s][i]
<1>1. e.container \in DOMAIN containers /\ containers[e.container] = [stage |-> s, source |-> "same", ran |-> <<e.command>>]
  BY DEF EachOnItsOwn, Own
<1>2. <<e.command>> # <<>>
  OBVIOUS
<1>3. containers[e.container].ran # <<>>
  BY <1>1, <1>2
<1>4. e.container \in DOMAIN containers' /\ containers'[e.container] = containers[e.container]
  BY <1>1, <1>3
<1> QED
  BY <1>1, <1>4 DEF Own

\* A step after which no stage is at work, and no command has completed.
LEMMA NothingAtWork ==
    ASSUME VerdictInv, UNCHANGED <<tree, venue, completed>>, TaskIs', ContainersAre', at' \notin AtWork,
           \A c \in DOMAIN containers : containers[c].ran # <<>> => c \in DOMAIN containers' /\ containers'[c] = containers[c],
           ResultsAre',
           \A s \in CheckedStages : result'[s] \in {result[s], "unavailable", "failed"}
    PROVE  VerdictInv'
<1>1. TreeIsRead' /\ CompletedAre' /\ CompletedArePlanned'
  BY DEF VerdictInv, TreeIsRead, CompletedAre, CompletedArePlanned, Meant, Commands
<1>2. QueuedAreCapable'
  BY DEF VerdictInv, QueuedAreCapable
<1>3. PassedAreDone'
  BY DEF VerdictInv, PassedAreDone, Commands
<1>4. WorkIsPlanned' /\ DockerPlaces' /\ NewContainer'
  BY DEF WorkIsPlanned, DockerPlaces, NewContainer, AtWork
<1>5. EachOnItsOwn'
  BY UsedContainersStay DEF VerdictInv
<1> QED
  BY <1>1, <1>2, <1>3, <1>4, <1>5 DEF VerdictInv

\* A step of a stage at work that completes no command.
LEMMA StillAtWork ==
    ASSUME VerdictInv, UNCHANGED <<tree, venue, image, completed, result>>, at \in AtWork,
           TaskIs', ContainersAre', task'.stage = task.stage, task'.left = task.left,
           \A c \in DOMAIN containers : containers[c].ran # <<>> => c \in DOMAIN containers' /\ containers'[c] = containers[c],
           DockerPlaces', NewContainer'
    PROVE  VerdictInv'
<1>1. TreeIsRead' /\ CompletedAre' /\ CompletedArePlanned' /\ ResultsAre' /\ QueuedAreCapable' /\ PassedAreDone'
  BY DEF VerdictInv, TreeIsRead, CompletedAre, CompletedArePlanned, Meant, ResultsAre, QueuedAreCapable,
         PassedAreDone, Commands
<1>2. WorkIsPlanned'
  BY DEF VerdictInv, WorkIsPlanned, Commands
<1>3. EachOnItsOwn'
  BY UsedContainersStay DEF VerdictInv
<1> QED
  BY <1>1, <1>2, <1>3 DEF VerdictInv

\* A stage that ends without having passed keeps the invariant.
LEMMA FailureEnds ==
    ASSUME VerdictInv, NEW status \in {"unavailable", "failed"}, Ends(status), UNCHANGED <<tree, venue>>, ContainersAre',
           \A c \in DOMAIN containers : containers[c].ran # <<>> => c \in DOMAIN containers' /\ containers'[c] = containers[c]
    PROVE  VerdictInv'
<1>1. result' = [result EXCEPT ![task.stage] = status] /\ at' = "close" /\ UNCHANGED <<task, completed>>
  BY DEF Ends
<1>2. ResultsAre' /\ \A s \in CheckedStages : result'[s] \in {result[s], "unavailable", "failed"}
  BY <1>1 DEF VerdictInv, ResultsAre
<1>3. TaskIs' /\ at' \notin AtWork
  BY <1>1 DEF VerdictInv, TaskIs, AtWork
<1> QED
  BY <1>1, <1>2, <1>3, NothingAtWork

\* The first queued stage is one of the stages, and queued.
LEMMA QueuedStage ==
    ASSUME Queued # {}, NEW s, s = CheckStages[Min(Queued)]
    PROVE  s \in CheckedStages /\ result[s] = "queued"
<1>1. Queued \in SUBSET Nat
  <2>1. DOMAIN CheckStages = 1 .. 4
    BY DEF CheckStages
  <2> QED
    BY <2>1 DEF Queued
<1>2. PICK n \in Queued : \A m \in Queued : n <= m
  BY <1>1, LeastMember
<1>3. Min(Queued) \in Queued
  BY <1>2 DEF Min
<1> QED
  BY <1>3 DEF Queued, CheckedStages, ToSet

\* Starting a stage plans everything that the manifests ask of it.
LEMMA CheckStarts ==
    ASSUME VerdictInv, StartCheck
    PROVE  VerdictInv'
<1> DEFINE s     == CheckStages[Min(Queued)]
           plans == Plans(s, Facts(tree))
<1>1. s \in CheckedStages /\ result[s] = "queued"
  BY QueuedStage DEF StartCheck
<1>2. UNCHANGED <<tree, venue, image, completed, containers>>
  BY DEF StartCheck, dockerVars
<1>3. ContainersAre' /\ \A c \in DOMAIN containers : c \in DOMAIN containers' /\ containers'[c] = containers[c]
  BY <1>2 DEF VerdictInv, ContainersAre
<1>4. ~(~Issues(s, Facts(tree)) /\ plans = <<>>)
  BY <1>1, CapableIsPlanned DEF VerdictInv, TreeIsRead, QueuedAreCapable
<1>5. CASE task' = [NoTask EXCEPT !.stage = s] /\ result' = [result EXCEPT ![s] = "unavailable"] /\ at' = "close"
  <2>1. ResultsAre' /\ \A t \in CheckedStages : result'[t] \in {result[t], "unavailable", "failed"}
    BY <1>5 DEF VerdictInv, ResultsAre
  <2>2. TaskIs' /\ at' \notin AtWork
    BY <1>5 DEF TaskIs, NoTask, AtWork
  <2> QED
    BY <1>2, <1>3, <2>1, <2>2, NothingAtWork
<1>6. CASE /\ ~Issues(s, Facts(tree)) /\ plans # <<>> /\ venue # "none"
           /\ task' = [stage |-> s, left |-> plans, container |-> NoContainer]
           /\ at' = IF venue = "docker" THEN "inspect" ELSE "ready"
           /\ UNCHANGED result
  <2>1. plans \in Seq(Planned(tree, s)) /\ ToSet(plans) = Planned(tree, s)
    BY <1>1, PlannedCommands DEF VerdictInv, TreeIsRead, Planned
  <2> HIDE DEF plans, s
  <2>2. task'.stage = s /\ task'.left = plans /\ TaskIs'
    BY <1>6 DEF TaskIs
  <2>3. WorkIsPlanned'
    BY <1>1, <1>2, <1>6, <2>1, <2>2 DEF WorkIsPlanned
  <2>4. DockerPlaces' /\ NewContainer'
    BY <1>2, <1>6 DEF DockerPlaces, NewContainer
  <2>5. TreeIsRead' /\ CompletedAre' /\ CompletedArePlanned' /\ ResultsAre' /\ QueuedAreCapable' /\ PassedAreDone'
    BY <1>2, <1>6 DEF VerdictInv, TreeIsRead, CompletedAre, CompletedArePlanned, Meant, ResultsAre, QueuedAreCapable,
       PassedAreDone, Commands
  <2>6. EachOnItsOwn'
    BY <1>2 DEF VerdictInv, EachOnItsOwn, Own
  <2> QED
    BY <1>3, <2>2, <2>3, <2>4, <2>5, <2>6 DEF VerdictInv
<1> QED
  BY <1>4, <1>5, <1>6 DEF StartCheck

\* Docker makes a container, and all the others stay as they are.
LEMMA ContainerMade ==
    ASSUME ContainersAre, Add
    PROVE  /\ ContainersAre' /\ Made \in DOMAIN containers' /\ containers'[Made] = Fresh(task.stage, image)
           /\ \A c \in DOMAIN containers : c \in DOMAIN containers' /\ containers'[c] = containers[c]
<1> DEFINE new == Fresh(task.stage, image)
<1>1. containers' = Append(containers, new) /\ Made = Len(containers) + 1
  BY DEF Add, Made, Fresh
<1> HIDE DEF new
<1>2. containers \in Seq(ToSet(containers) \cup {new})
  BY DEF ContainersAre
<1>3. /\ containers' \in Seq(ToSet(containers) \cup {new})
      /\ DOMAIN containers' = 1 .. Len(containers) + 1 /\ DOMAIN containers = 1 .. Len(containers) /\ Len(containers) \in Nat
      /\ containers'[Len(containers) + 1] = new
      /\ \A c \in DOMAIN containers : containers'[c] = containers[c]
  BY <1>1, <1>2, AtTheEnd
<1>4. ContainersAre'
  BY <1>3, SequenceOfItsOwn DEF ContainersAre
<1>5. Made \in DOMAIN containers' /\ \A c \in DOMAIN containers : c \in DOMAIN containers'
  BY <1>1, <1>3
<1> QED
  BY <1>1, <1>3, <1>4, <1>5 DEF new

\* A container is made for one stage, of one source.
LEMMA ContainerCreated ==
    ASSUME VerdictInv, CreateContainer
    PROVE  VerdictInv'
<1>0. at = "create" /\ UNCHANGED <<tree, venue, image>> /\ ContainersAre
  BY DEF VerdictInv, CreateContainer
<1>1. CASE Add /\ task' = [task EXCEPT !.container = Made] /\ at' = "prepare" /\ UNCHANGED <<result, completed>>
  <2>1. /\ ContainersAre' /\ Made \in DOMAIN containers' /\ containers'[Made] = Fresh(task.stage, image)
        /\ \A c \in DOMAIN containers : c \in DOMAIN containers' /\ containers'[c] = containers[c]
    BY <1>0, <1>1, ContainerMade
  <2>2. TaskIs' /\ task'.stage = task.stage /\ task'.left = task.left /\ task'.container = Made
    BY <1>1 DEF VerdictInv, TaskIs
  <2>3. DockerPlaces'
    BY <1>0, <1>1 DEF VerdictInv, DockerPlaces
  <2>4. NewContainer'
    BY <1>0, <1>1, <2>1, <2>2 DEF NewContainer, Fresh
  <2> QED
    BY <1>0, <1>1, <2>1, <2>2, <2>3, <2>4, StillAtWork DEF AtWork
<1>2. CASE Unavailable /\ UNCHANGED containers
  <2>1. ContainersAre' /\ \A c \in DOMAIN containers : c \in DOMAIN containers' /\ containers'[c] = containers[c]
    BY <1>0, <1>2 DEF ContainersAre
  <2> QED
    BY <1>0, <1>2, <2>1, FailureEnds DEF Unavailable
<1>3. CASE Unavailable /\ Add
  BY <1>0, <1>3, ContainerMade, FailureEnds DEF Unavailable
<1> QED
  BY <1>1, <1>2, <1>3 DEF CreateContainer, dockerVars

\* A command runs only where the attestation was of its stage and source.
LEMMA ContainerPrepared ==
    ASSUME VerdictInv, PrepareContainer
    PROVE  VerdictInv'
<1>0. at = "prepare" /\ UNCHANGED <<tree, venue, image, containers>>
  BY DEF PrepareContainer
<1>1. ContainersAre' /\ \A c \in DOMAIN containers : c \in DOMAIN containers' /\ containers'[c] = containers[c]
  BY <1>0 DEF VerdictInv, ContainersAre
<1>2. CASE Unavailable
  BY <1>0, <1>1, <1>2, FailureEnds DEF Unavailable
<1>3. CASE Verified(task.stage, task.container) /\ GoOn("ready")
  <2>1. at' = "ready" /\ UNCHANGED <<task, result, completed>>
    BY <1>3 DEF GoOn
  <2>2. task.container \in DOMAIN containers /\ containers[task.container] = Fresh(task.stage, image)
    BY <1>0 DEF VerdictInv, NewContainer
  <2>3. image = "same"
    BY <1>3, <2>2 DEF Verified, Fresh
  <2>4. NewContainer'
    BY <1>0, <2>1, <2>2, <2>3 DEF NewContainer, Fresh
  <2>5. DockerPlaces' /\ TaskIs'
    BY <2>1 DEF VerdictInv, DockerPlaces, TaskIs
  <2> QED
    BY <1>0, <1>1, <2>1, <2>4, <2>5, StillAtWork DEF AtWork
<1>4. CASE GoOn("discard")
  <2>1. at' = "discard" /\ UNCHANGED <<task, result, completed>>
    BY <1>4 DEF GoOn
  <2>2. ResultsAre' /\ TaskIs' /\ at' \notin AtWork
    BY <2>1 DEF VerdictInv, ResultsAre, TaskIs, AtWork
  <2> QED
    BY <1>0, <1>1, <2>1, <2>2, NothingAtWork
<1> QED
  BY <1>2, <1>3, <1>4 DEF PrepareContainer

\* A step of somebody else changes nothing of the checks.
LEMMA VerdictStutter ==
    ASSUME VerdictInv, UNCHANGED checkVars
    PROVE  VerdictInv'
BY DEF checkVars, VerdictInv, TreeIsRead, ResultsAre, CompletedAre, TaskIs, ContainersAre, QueuedAreCapable,
   CompletedArePlanned, Meant, PassedAreDone, WorkIsPlanned, DockerPlaces, NewContainer, EachOnItsOwn, Own, Commands, AtWork

\* The elements of a list are its first and the rest.
LEMMA FirstOfList ==
    ASSUME NEW S, NEW seq \in Seq(S), seq # <<>>
    PROVE  Head(seq) \in S /\ Tail(seq) \in Seq(S) /\ ToSet(seq) \subseteq {Head(seq)} \cup ToSet(Tail(seq))
<1>1. /\ Len(seq) \in Nat /\ Len(seq) # 0 /\ DOMAIN seq = 1 .. Len(seq) /\ Head(seq) = seq[1]
      /\ Tail(seq) \in Seq(S) /\ DOMAIN Tail(seq) = 1 .. Len(seq) - 1
      /\ \A i \in 1 .. Len(seq) - 1 : Tail(seq)[i] = seq[i + 1]
  OBVIOUS
<1>2. Head(seq) \in S
  BY <1>1
<1>3. ASSUME NEW i \in DOMAIN seq PROVE seq[i] \in {Head(seq)} \cup ToSet(Tail(seq))
  <2>1. CASE i = 1
    BY <1>1, <2>1
  <2>2. CASE i # 1
    <3>1. i - 1 \in DOMAIN Tail(seq) /\ Tail(seq)[i - 1] = seq[i]
      BY <1>1, <2>2
    <3> QED
      BY <3>1 DEF ToSet
  <2> QED
    BY <2>1, <2>2
<1> QED
  BY <1>1, <1>2, <1>3 DEF ToSet

\* A command completes.
LEMMA CommandCompletes ==
    ASSUME CompletedAre, NEW check \in CheckedStages, NEW e, completed' = [completed EXCEPT ![check] = Append(@, e)]
    PROVE  /\ CompletedAre'
           /\ \A s \in CheckedStages : s # check => completed'[s] = completed[s] /\ Commands(s)' = Commands(s)
           /\ Commands(check)' = Commands(check) \cup {e.command}
           /\ \A i \in DOMAIN completed'[check] :
                 (i \in DOMAIN completed[check] /\ completed'[check][i] = completed[check][i]) \/ completed'[check][i] = e
<1> DEFINE old == completed[check]
           new == Append(old, e)
<1>1. DOMAIN completed = CheckedStages /\ old \in Seq(ToSet(old))
  BY DEF CompletedAre
<1>2. completed'[check] = new /\ \A s \in CheckedStages : s # check => completed'[s] = completed[s]
  BY <1>1
<1>d. completed' = [s \in CheckedStages |-> completed'[s]]
  BY <1>1
<1> HIDE DEF new, old
<1>3. old \in Seq(ToSet(old) \cup {e})
  BY <1>1
<1>4. /\ new \in Seq(ToSet(old) \cup {e}) /\ Len(old) \in Nat
      /\ DOMAIN old = 1 .. Len(old) /\ DOMAIN new = 1 .. Len(old) + 1
      /\ new[Len(old) + 1] = e /\ \A i \in DOMAIN old : new[i] = old[i]
  BY <1>3, AtTheEnd DEF new
<1>5. new \in Seq(ToSet(new))
  BY <1>4, SequenceOfItsOwn
<1>6. CompletedAre'
  BY <1>2, <1>5, <1>d DEF CompletedAre
<1>7. \A i \in DOMAIN new : (i \in DOMAIN old /\ new[i] = old[i]) \/ new[i] = e
  BY <1>4
<1>8. {new[i].command : i \in DOMAIN new} = {old[i].command : i \in DOMAIN old} \cup {e.command}
  <2>1. \A i \in DOMAIN old : i \in DOMAIN new
    BY <1>4
  <2>2. Len(old) + 1 \in DOMAIN new
    BY <1>4
  <2> QED
    BY <1>4, <1>7, <2>1, <2>2
<1>9. Commands(check)' = Commands(check) \cup {e.command}
  BY <1>2, <1>8 DEF Commands, old
<1>10. \A s \in CheckedStages : s # check => Commands(s)' = Commands(s)
  BY <1>2 DEF Commands
<1> QED
  BY <1>2, <1>6, <1>7, <1>9, <1>10 DEF old

\* A command that ran is on record with its container, and passes the stage if it was the last.
LEMMA CommandRuns ==
    ASSUME VerdictInv, Execute
    PROVE  VerdictInv'
<1>p. PICK check, command, box :
          check = task.stage /\ command = Head(task.left) /\ box = task.container
  OBVIOUS
<1> USE <1>p
<1>0. at = "ready" /\ UNCHANGED <<tree, venue, image>>
  BY DEF Execute
<1>w. /\ check \in CheckedStages /\ ~Issues(check, Facts(tree))
      /\ task.left \in Seq(Planned(tree, check)) /\ task.left # <<>>
      /\ Planned(tree, check) \subseteq Commands(check) \cup ToSet(task.left)
  BY <1>0 DEF VerdictInv, WorkIsPlanned, AtWork
<1>f. venue = "docker" => task.container \in DOMAIN containers /\ containers[task.container] = Fresh(check, "same")
  BY <1>0 DEF VerdictInv, NewContainer
<1>1. CASE Unavailable /\ UNCHANGED containers
  <2>1. ContainersAre' /\ \A c \in DOMAIN containers : c \in DOMAIN containers' /\ containers'[c] = containers[c]
    BY <1>1 DEF VerdictInv, ContainersAre
  <2> QED
    BY <1>0, <1>1, <2>1, FailureEnds DEF Unavailable
<1>2. ASSUME Ran(command)
      PROVE  /\ ContainersAre'
             /\ \A c \in DOMAIN containers :
                   containers[c].ran # <<>> => c \in DOMAIN containers' /\ containers'[c] = containers[c]
             /\ venue = "docker" => /\ task.container \in DOMAIN containers'
                                    /\ containers'[task.container] = [stage |-> check, source |-> "same", ran |-> <<command>>]
  <2>1. CASE InCheckout
    <3>1. venue # "docker" /\ UNCHANGED containers
      BY <2>1 DEF InCheckout
    <3> QED
      BY <3>1 DEF VerdictInv, ContainersAre
  <2>2. CASE InContainer(command)
    <3> DEFINE new == [stage |-> check, source |-> "same", ran |-> <<command>>]
    <3>1. venue = "docker" /\ containers' = [containers EXCEPT ![box].ran = Append(@, command)]
      BY <2>2 DEF InContainer
    <3>2. box \in DOMAIN containers /\ containers[box] = [stage |-> check, source |-> "same", ran |-> <<>>]
      BY <1>f, <3>1 DEF Fresh
    <3>3. Append(<<>>, command) = <<command>>
      OBVIOUS
    <3>4. [containers[box] EXCEPT !.ran = Append(containers[box].ran, command)] = new
      BY <3>2, <3>3
    <3>5. containers' = [containers EXCEPT ![box] = new]
      BY <3>1, <3>4
    <3> HIDE DEF new
    <3>6. containers \in Seq(ToSet(containers) \cup {new})
      BY DEF VerdictInv, ContainersAre
    <3>7. containers' \in Seq(ToSet(containers) \cup {new}) /\ DOMAIN containers' = DOMAIN containers
      BY <3>5, <3>6, ReplacedInPlace
    <3>8. ContainersAre'
      BY <3>7, SequenceOfItsOwn DEF ContainersAre
    <3>9. \A c \in DOMAIN containers : c # box => c \in DOMAIN containers' /\ containers'[c] = containers[c]
      BY <3>5, <3>7
    <3>10. containers[box].ran = <<>>
      BY <3>2
    <3>11. containers'[box] = new
      BY <3>2, <3>5
    <3> QED
      BY <3>2, <3>7, <3>8, <3>9, <3>10, <3>11 DEF new
  <2> QED
    BY <1>2, <2>1, <2>2 DEF Ran
<1>3. ASSUME Ran(command), NEW status \in {"unavailable", "failed"}, Ends(status)
      PROVE  VerdictInv'
  BY <1>0, <1>2, <1>3, FailureEnds
<1>4. ASSUME Ran(command), NEW ranAs \in Programs(command),
             NEW entry, entry = [command |-> command, program |-> ranAs, container |-> box],
             completed' = [completed EXCEPT ![task.stage] = Append(@, entry)],
             IF Tail(task.left) = <<>> THEN StagePassed ELSE NextCommand
      PROVE  VerdictInv'
  <2>1. Head(task.left) \in Planned(tree, check) /\ Tail(task.left) \in Seq(Planned(tree, check))
        /\ ToSet(task.left) \subseteq {command} \cup ToSet(Tail(task.left))
    BY <1>w, FirstOfList
  <2>2. entry.command = command /\ entry.container = box /\ entry.program = ranAs
    BY <1>4
  <2>3. completed' = [completed EXCEPT ![check] = Append(@, entry)]
    BY <1>4
  <2>4. /\ CompletedAre'
        /\ \A s \in CheckedStages : s # check => completed'[s] = completed[s] /\ Commands(s)' = Commands(s)
        /\ Commands(check)' = Commands(check) \cup {command}
        /\ \A i \in DOMAIN completed'[check] :
              (i \in DOMAIN completed[check] /\ completed'[check][i] = completed[check][i]) \/ completed'[check][i] = entry
    <3>1. CompletedAre
      BY DEF VerdictInv
    <3>2. /\ CompletedAre'
          /\ \A s \in CheckedStages : s # check => completed'[s] = completed[s] /\ Commands(s)' = Commands(s)
          /\ Commands(check)' = Commands(check) \cup {entry.command}
          /\ \A i \in DOMAIN completed'[check] :
                (i \in DOMAIN completed[check] /\ completed'[check][i] = completed[check][i]) \/ completed'[check][i] = entry
      <4> HIDE <1>p
      <4> QED
        BY <1>w, <2>3, <3>1, CommandCompletes
    <3> QED
      BY <2>2, <3>2
  <2>5. CompletedArePlanned'
    <3>1. Meant(entry)
      BY <1>4, <2>2 DEF Meant, Programs
    <3>2. ASSUME NEW s \in CheckedStages, NEW i \in DOMAIN completed'[s]
          PROVE  completed'[s][i].program = completed'[s][i].command.tool
                   \/ (venue = "demo" /\ completed'[s][i].command.tool = "pytest")
      BY <2>4, <3>1 DEF VerdictInv, CompletedArePlanned, Meant
    <3> QED
      BY <1>0, <2>1, <2>4, <3>2 DEF VerdictInv, CompletedArePlanned, Meant
  <2>6. EachOnItsOwn'
    <3> SUFFICES ASSUME venue = "docker", NEW s \in CheckedStages, NEW i \in DOMAIN completed'[s]
                 PROVE  /\ completed'[s][i].container \in DOMAIN containers'
                        /\ containers'[completed'[s][i].container] =
                              [stage |-> s, source |-> "same", ran |-> <<completed'[s][i].command>>]
      BY <1>0 DEF EachOnItsOwn, Own
    <3>1. CASE i \in DOMAIN completed[s] /\ completed'[s][i] = completed[s][i]
      <4> DEFINE e == completed[s][i]
      <4>1. e.container \in DOMAIN containers /\ containers[e.container] = [stage |-> s, source |-> "same", ran |-> <<e.command>>]
        BY <3>1 DEF VerdictInv, EachOnItsOwn, Own
      <4>2. <<e.command>> # <<>>
        OBVIOUS
      <4>3. containers[e.container].ran # <<>>
        BY <4>1, <4>2
      <4>4. e.container \in DOMAIN containers' /\ containers'[e.container] = containers[e.container]
        BY <1>2, <1>4, <4>1, <4>3
      <4> QED
        BY <3>1, <4>1, <4>4
    <3>2. CASE s = check /\ completed'[s][i] = entry
      BY <1>2, <1>4, <2>2, <3>2
    <3> QED
      BY <2>4, <3>1, <3>2
  <2>7. TreeIsRead' /\ ContainersAre'
    BY <1>0, <1>2, <1>4 DEF VerdictInv, TreeIsRead
  <2>8. CASE Tail(task.left) = <<>>
    <3>1. at' = "between" /\ result' = [result EXCEPT ![check] = "passed"] /\ task' = NoTask
      BY <1>4, <2>8 DEF StagePassed
    <3>2. ResultsAre' /\ \A s \in CheckedStages : result'[s] = IF s = check THEN "passed" ELSE result[s]
      BY <3>1 DEF VerdictInv, ResultsAre
    <3>3. TaskIs' /\ WorkIsPlanned' /\ DockerPlaces' /\ NewContainer'
      BY <3>1 DEF TaskIs, NoTask, WorkIsPlanned, AtWork, DockerPlaces, NewContainer
    <3>4. QueuedAreCapable'
      BY <1>0, <3>2 DEF VerdictInv, QueuedAreCapable
    <3>5. ToSet(Tail(task.left)) = {}
      BY <2>1, <2>8, EmptyLists
    <3>6. Planned(tree, check) \subseteq Commands(check)'
      BY <1>w, <2>1, <2>4, <3>5
    <3>7. PassedAreDone'
      <4> SUFFICES ASSUME NEW s \in CheckedStages, result'[s] = "passed"
                   PROVE  ~Issues(s, Facts(tree)) /\ Planned(tree, s) \subseteq Commands(s)'
        BY <1>0 DEF PassedAreDone
      <4>1. CASE s = check
        BY <1>w, <3>6, <4>1
      <4>2. CASE s # check
        BY <2>4, <3>2, <4>2 DEF VerdictInv, PassedAreDone
      <4> QED
        BY <4>1, <4>2
    <3> QED
      BY <2>4, <2>5, <2>6, <2>7, <3>2, <3>3, <3>4, <3>7 DEF VerdictInv
  <2>9. CASE Tail(task.left) # <<>>
    <3>1. /\ at' = IF venue = "docker" THEN "inspect" ELSE "ready"
          /\ task' = [task EXCEPT !.left = Tail(@), !.container = NoContainer]
          /\ UNCHANGED result
      BY <1>4, <2>9 DEF NextCommand
    <3>2. TaskIs' /\ task'.stage = check /\ task'.left = Tail(task.left)
      BY <3>1 DEF VerdictInv, TaskIs
    <3>3. ResultsAre' /\ QueuedAreCapable'
      BY <1>0, <3>1 DEF VerdictInv, ResultsAre, QueuedAreCapable
    <3>4. PassedAreDone'
      <4> SUFFICES ASSUME NEW s \in CheckedStages, result[s] = "passed"
                   PROVE  ~Issues(s, Facts(tree)) /\ Planned(tree, s) \subseteq Commands(s)'
        BY <1>0, <3>1 DEF PassedAreDone
      <4> QED
        BY <2>4 DEF VerdictInv, PassedAreDone
    <3>5. WorkIsPlanned'
      <4>1. Planned(tree, check) \subseteq Commands(check)' \cup ToSet(Tail(task.left))
        BY <1>w, <2>1, <2>4
      <4>2. {completed'[task'.stage][i].command : i \in DOMAIN completed'[task'.stage]} = Commands(check)'
        BY <3>2 DEF Commands
      <4> QED
        BY <1>0, <1>w, <2>1, <2>9, <3>2, <4>1, <4>2 DEF WorkIsPlanned, Commands
    <3>6. DockerPlaces' /\ NewContainer'
      BY <1>0, <3>1 DEF DockerPlaces, NewContainer
    <3> QED
      BY <2>4, <2>5, <2>6, <2>7, <3>2, <3>3, <3>4, <3>5, <3>6 DEF VerdictInv
  <2> QED
    BY <2>8, <2>9
<1> QED
  <2>1. CASE ~(Unavailable /\ UNCHANGED containers)
    <3>1. /\ Ran(command)
          /\ \/ Ends("failed")
             \/ Ends("unavailable")
             \/ /\ \E ranAs \in Programs(command) :
                      completed' = [completed EXCEPT ![task.stage] =
                          Append(@, [command |-> command, program |-> ranAs, container |-> box])]
                /\ IF Tail(task.left) = <<>> THEN StagePassed ELSE NextCommand
      BY <2>1 DEF Execute, Unavailable
    <3> QED
      BY <1>3, <1>4, <3>1
  <2> QED
    BY <1>1, <2>1

\* Every step of the checks keeps the invariant.
LEMMA VerdictStep ==
    ASSUME VerdictInv, ChecksNext
    PROVE  VerdictInv'
<1>u. ASSUME UNCHANGED containers
      PROVE  /\ ContainersAre'
             /\ \A c \in DOMAIN containers :
                   containers[c].ran # <<>> => c \in DOMAIN containers' /\ containers'[c] = containers[c]
  BY <1>u DEF VerdictInv, ContainersAre
\* The run goes somewhere else, and nothing more.
<1>g. ASSUME UNCHANGED <<tree, venue, containers, task, result, completed>>, at' \notin AtWork
      PROVE  VerdictInv'
  <2>1. ResultsAre' /\ TaskIs'
    BY <1>g DEF VerdictInv, ResultsAre, TaskIs
  <2> QED
    BY <1>g, <1>u, <2>1, NothingAtWork
<1>1. CASE StartCheck
  BY <1>1, CheckStarts
<1>2. CASE Finish
  BY <1>2, <1>g DEF Finish, GoOn, dockerVars, AtWork
<1>3. CASE InspectImage
  <2>1. at = "inspect" /\ UNCHANGED <<tree, venue, image, containers>>
    BY <1>3 DEF InspectImage, dockerVars
  <2>2. CASE Unavailable
    BY <1>u, <2>1, <2>2, FailureEnds DEF Unavailable
  <2>3. CASE GoOn("create")
    <3>1. at' = "create" /\ UNCHANGED <<task, result, completed>>
      BY <2>3 DEF GoOn
    <3>2. TaskIs' /\ DockerPlaces' /\ NewContainer'
      BY <2>1, <3>1 DEF VerdictInv, TaskIs, DockerPlaces, NewContainer
    <3>3. \A c \in DOMAIN containers : c \in DOMAIN containers' /\ containers'[c] = containers[c]
      BY <2>1
    <3> QED
      BY <1>u, <2>1, <3>1, <3>2, <3>3, StillAtWork DEF AtWork
  <2> QED
    BY <1>3, <2>2, <2>3 DEF InspectImage
<1>4. CASE CreateContainer
  BY <1>4, ContainerCreated
<1>5. CASE PrepareContainer
  BY <1>5, ContainerPrepared
<1>6. CASE Discard
  BY <1>6, <1>u, FailureEnds DEF Discard, Unavailable
<1>7. CASE Execute
  BY <1>7, CommandRuns
<1>8. CASE Close
  <2>1. at = "close" /\ UNCHANGED <<tree, venue, containers>>
    BY <1>8 DEF Close
  <2>2. UNCHANGED <<task, result, completed>> /\ at' \in {"close", "ended"}
    BY <1>8, <2>1 DEF Close, GoOn
  <2> QED
    BY <1>g, <2>1, <2>2 DEF AtWork
<1>9. CASE WorkerStops
  BY <1>9, <1>g DEF WorkerStops, AtWork
<1> QED
  BY <1>1, <1>2, <1>3, <1>4, <1>5, <1>6, <1>7, <1>8, <1>9 DEF ChecksNext

\* Whatever manifests a repository has, in whichever venue its commands run: a stage that passed ran
\* everything that they ask of it, each command of it in a container of its own.
THEOREM VerdictsStandForAll == EvidenceSpec => []VerdictsAreComplete
<1>1. EvidenceInit => VerdictInv
  BY VerdictInitInv DEF EvidenceInit
<1>2. VerdictInv /\ [EvidenceNext]_evidenceVars => VerdictInv'
  BY VerdictStep, VerdictStutter DEF EvidenceNext, evidenceVars
<1> QED
  BY <1>1, <1>2, VerdictsHold, PTL DEF EvidenceSpec

-----------------------------------------------------------------------------
(* Scans *)

\* The severities in their order.
LEMMA RanksAre ==
    /\ Rank("unknown") = 1 /\ Rank("low") = 2 /\ Rank("high") = 3 /\ Rank("critical") = 4
    /\ ToSet(Severities) = {"unknown", "low", "high", "critical"}
<1>1. /\ DOMAIN Severities = 1 .. 4
      /\ Severities[1] = "unknown" /\ Severities[2] = "low" /\ Severities[3] = "high" /\ Severities[4] = "critical"
  BY DEF Severities
<1>2. \A i \in 1 .. 4 : i = 1 \/ i = 2 \/ i = 3 \/ i = 4
  OBVIOUS
<1>3. 1 \in 1 .. 4 /\ 2 \in 1 .. 4 /\ 3 \in 1 .. 4 /\ 4 \in 1 .. 4
  OBVIOUS
<1>4. ToSet(Severities) = {Severities[i] : i \in DOMAIN Severities}
  BY DEF ToSet
<1>5. ToSet(Severities) = {"unknown", "low", "high", "critical"}
  BY <1>1, <1>2, <1>3, <1>4
<1>6. ASSUME NEW n \in 1 .. 4 PROVE Rank(Severities[n]) = n
  <2>1. \A i \in DOMAIN Severities : Severities[i] = Severities[n] => i = n
    BY <1>1, <1>2
  <2> QED
    BY <1>1, <2>1 DEF Rank
<1> QED
  BY <1>1, <1>3, <1>5, <1>6

\* The findings of a severity, each as often as it was reported.
LEMMA FindingsOf ==
    ASSUME NEW findings \in Seq(Reportable), NEW severity
    PROVE  /\ OfSeverity(findings, severity) \in Seq(Reportable)
           /\ \A f : f \in ToSet(OfSeverity(findings, severity)) <=> f \in ToSet(findings) /\ f.severity = severity
<1> DEFINE positions == {i \in DOMAIN findings : findings[i].severity = severity}
<1>1. OfSeverity(findings, severity) = At(findings, positions)
  BY DEF OfSeverity, At
<1>2. /\ At(findings, positions) \in Seq(Reportable)
      /\ \A f : f \in ToSet(At(findings, positions)) <=> \E i \in positions : f = findings[i]
  BY AtLists
<1>3. \A f : (\E i \in positions : f = findings[i]) <=> f \in ToSet(findings) /\ f.severity = severity
  BY DEF ToSet
<1> QED
  BY <1>1, <1>2, <1>3

\* A list that begins with the worst of some findings, down to a rank.
WorstFirst(seq, findings, rank) ==
    /\ seq \in Seq(Reportable)
    /\ \A f : f \in ToSet(seq) <=> f \in ToSet(findings) /\ Rank(f.severity) >= rank
    /\ \A n \in DOMAIN seq : \A f \in ToSet(findings) :
           Rank(f.severity) > Rank(seq[n].severity) => \E k \in 1 .. n - 1 : seq[k] = f

\* A finding is as severe as its severity says.
LEMMA RankOfReportable ==
    ASSUME NEW f \in Reportable
    PROVE  /\ Rank(f.severity) \in 1 .. 4
           /\ f.severity = "critical" <=> Rank(f.severity) = 4
           /\ f.severity = "high" <=> Rank(f.severity) = 3
           /\ f.severity = "low" <=> Rank(f.severity) = 2
           /\ f.severity = "unknown" <=> Rank(f.severity) = 1
<1>1. f.severity \in {"unknown", "low", "high", "critical"}
  BY RanksAre DEF Reportable
<1> QED
  BY <1>1, RanksAre

\* What is worse, followed by what is next, has the worst first.
LEMMA WorseThenRank ==
    ASSUME NEW findings \in Seq(Reportable), NEW rank \in 1 .. 4, NEW seq, WorstFirst(seq, findings, rank + 1),
           NEW next \in Seq(Reportable),
           \A f : f \in ToSet(next) <=> f \in ToSet(findings) /\ Rank(f.severity) = rank
    PROVE  WorstFirst(seq \o next, findings, rank)
<1> DEFINE all == seq \o next
<1>1. seq \in Seq(Reportable) /\ next \in Seq(Reportable)
  BY DEF WorstFirst
<1>2. all \in Seq(Reportable) /\ ToSet(all) = ToSet(seq) \cup ToSet(next)
  BY <1>1, JoinedMembers
<1>3. /\ Len(seq) \in Nat /\ Len(next) \in Nat /\ DOMAIN seq = 1 .. Len(seq) /\ DOMAIN next = 1 .. Len(next)
      /\ DOMAIN all = 1 .. Len(seq) + Len(next)
      /\ \A i \in DOMAIN seq : all[i] = seq[i]
      /\ \A i \in DOMAIN all : i \notin DOMAIN seq => i - Len(seq) \in DOMAIN next /\ all[i] = next[i - Len(seq)]
  BY <1>1
<1> HIDE DEF all
<1>r. \A f \in ToSet(findings) : Rank(f.severity) \in Nat
  <2> SUFFICES ASSUME NEW i \in DOMAIN findings PROVE Rank(findings[i].severity) \in Nat
    BY DEF ToSet
  <2>1. findings[i] \in Reportable
    OBVIOUS
  <2> QED
    BY <2>1, RankOfReportable
<1>4. \A f : f \in ToSet(all) <=> f \in ToSet(findings) /\ Rank(f.severity) >= rank
  <2>1. \A f : f \in ToSet(seq) <=> f \in ToSet(findings) /\ Rank(f.severity) >= rank + 1
    BY DEF WorstFirst
  <2> QED
    BY <1>2, <1>r, <2>1
<1>5. ASSUME NEW n \in DOMAIN all, NEW f \in ToSet(findings), Rank(f.severity) > Rank(all[n].severity)
      PROVE  \E k \in 1 .. n - 1 : all[k] = f
  <2>1. CASE n \in DOMAIN seq
    <3>1. PICK k \in 1 .. n - 1 : seq[k] = f
      BY <1>3, <1>5, <2>1 DEF WorstFirst
    <3>2. k \in DOMAIN seq
      BY <1>3, <2>1
    <3> QED
      BY <1>3, <3>1, <3>2
  <2>2. CASE n \notin DOMAIN seq
    <3>1. n - Len(seq) \in DOMAIN next /\ all[n] = next[n - Len(seq)]
      BY <1>3, <2>2
    <3>2. all[n] \in ToSet(next)
      BY <3>1 DEF ToSet
    <3>3. Rank(f.severity) >= rank + 1
      BY <1>5, <1>r, <3>2
    <3>4. f \in ToSet(seq)
      BY <3>3 DEF WorstFirst
    <3>5. PICK k \in DOMAIN seq : seq[k] = f
      BY <3>4 DEF ToSet
    <3>6. k \in 1 .. n - 1
      BY <1>3, <2>2, <3>5
    <3> QED
      BY <1>3, <3>5, <3>6
  <2> QED
    BY <2>1, <2>2
<1> QED
  BY <1>2, <1>4, <1>5 DEF WorstFirst, all

\* What is retained of a report begins with the worst of it.
LEMMA RetainedIsWorst ==
    ASSUME NEW findings \in Seq(Reportable)
    PROVE  /\ Retained(findings) \in Seq(Reportable)
           /\ \A n \in DOMAIN Retained(findings) : \A f \in ToSet(findings) :
                  Rank(f.severity) > Rank(Retained(findings)[n].severity) =>
                      \E k \in 1 .. n - 1 : Retained(findings)[k] = f
           /\ ToSet(Retained(findings)) \subseteq ToSet(findings)
           /\ findings # <<>> => Retained(findings) # <<>>
<1> DEFINE A == OfSeverity(findings, "critical")
           B == OfSeverity(findings, "high")
           C == OfSeverity(findings, "low")
           D == OfSeverity(findings, "unknown")
           ranked == A \o B \o C \o D
           kept == SubSeq(ranked, 1, IF Len(ranked) < MaxFindings THEN Len(ranked) ELSE MaxFindings)
<1>r. \A f \in ToSet(findings) : f \in Reportable
  <2> SUFFICES ASSUME NEW i \in DOMAIN findings PROVE findings[i] \in Reportable
    BY DEF ToSet
  <2> QED
    OBVIOUS
<1>q. \A f \in ToSet(findings) :
          /\ Rank(f.severity) \in 1 .. 4
          /\ f.severity = "critical" <=> Rank(f.severity) = 4
          /\ f.severity = "high" <=> Rank(f.severity) = 3
          /\ f.severity = "low" <=> Rank(f.severity) = 2
          /\ f.severity = "unknown" <=> Rank(f.severity) = 1
  BY <1>r, RankOfReportable
<1>a. A \in Seq(Reportable) /\ \A f : f \in ToSet(A) <=> f \in ToSet(findings) /\ f.severity = "critical"
  BY FindingsOf
<1>b. B \in Seq(Reportable) /\ \A f : f \in ToSet(B) <=> f \in ToSet(findings) /\ f.severity = "high"
  BY FindingsOf
<1>c. C \in Seq(Reportable) /\ \A f : f \in ToSet(C) <=> f \in ToSet(findings) /\ f.severity = "low"
  BY FindingsOf
<1>d. D \in Seq(Reportable) /\ \A f : f \in ToSet(D) <=> f \in ToSet(findings) /\ f.severity = "unknown"
  BY FindingsOf
<1>0. Retained(findings) = kept
  BY DEF Retained
<1> HIDE DEF A, B, C, D
<1>1. WorstFirst(A, findings, 4)
  <2>1. \A f : f \in ToSet(A) <=> f \in ToSet(findings) /\ Rank(f.severity) >= 4
    BY <1>a, <1>q
  <2>2. ASSUME NEW n \in DOMAIN A, NEW f \in ToSet(findings) PROVE ~(Rank(f.severity) > Rank(A[n].severity))
    <3>1. A[n] \in ToSet(A)
      BY DEF ToSet
    <3>2. Rank(A[n].severity) = 4
      BY <1>a, <1>q, <3>1
    <3> QED
      BY <1>q, <3>2
  <2> QED
    BY <1>a, <2>1, <2>2 DEF WorstFirst
<1>2. WorstFirst(A \o B, findings, 3)
  <2>1. \A f : f \in ToSet(B) <=> f \in ToSet(findings) /\ Rank(f.severity) = 3
    BY <1>b, <1>q
  <2>2. WorstFirst(A, findings, 3 + 1)
    BY <1>1
  <2> QED
    BY <1>b, <2>1, <2>2, WorseThenRank
<1>3. WorstFirst(A \o B \o C, findings, 2)
  <2>1. \A f : f \in ToSet(C) <=> f \in ToSet(findings) /\ Rank(f.severity) = 2
    BY <1>c, <1>q
  <2>2. WorstFirst(A \o B, findings, 2 + 1)
    BY <1>2
  <2> QED
    BY <1>c, <2>1, <2>2, WorseThenRank
<1>4. WorstFirst(ranked, findings, 1)
  <2>1. \A f : f \in ToSet(D) <=> f \in ToSet(findings) /\ Rank(f.severity) = 1
    BY <1>d, <1>q
  <2>2. WorstFirst(A \o B \o C, findings, 1 + 1)
    BY <1>3
  <2> QED
    BY <1>d, <2>1, <2>2, WorseThenRank
<1> HIDE DEF ranked
<1> DEFINE m == IF Len(ranked) < MaxFindings THEN Len(ranked) ELSE MaxFindings
<1>5. ranked \in Seq(Reportable) /\ Len(ranked) \in Nat /\ DOMAIN ranked = 1 .. Len(ranked)
  BY <1>4 DEF WorstFirst
<1>6. m \in 0 .. Len(ranked) /\ (Len(ranked) # 0 => m # 0)
  BY <1>5, ScansAssumption
<1> HIDE DEF m
<1>7. SubSeq(ranked, 1, m) \in Seq(Reportable) /\ DOMAIN SubSeq(ranked, 1, m) = 1 .. m
      /\ \A i \in 1 .. m : SubSeq(ranked, 1, m)[i] = ranked[i]
  BY <1>5, <1>6
<1>8. kept = SubSeq(ranked, 1, m)
  BY DEF m
<1> HIDE DEF kept
<1>9. kept \in Seq(Reportable) /\ DOMAIN kept = 1 .. m /\ \A i \in 1 .. m : kept[i] = ranked[i] /\ i \in DOMAIN ranked
  BY <1>5, <1>6, <1>7, <1>8
<1>10. ToSet(kept) \subseteq ToSet(findings)
  <2>1. ToSet(kept) \subseteq ToSet(ranked)
    BY <1>9 DEF ToSet
  <2> QED
    BY <1>4, <2>1 DEF WorstFirst
<1>11. ASSUME NEW n \in DOMAIN kept, NEW f \in ToSet(findings), Rank(f.severity) > Rank(kept[n].severity)
       PROVE  \E k \in 1 .. n - 1 : kept[k] = f
  <2>1. kept[n] = ranked[n] /\ n \in DOMAIN ranked
    BY <1>9
  <2>2. PICK k \in 1 .. n - 1 : ranked[k] = f
    BY <1>4, <1>11, <2>1 DEF WorstFirst
  <2>3. k \in 1 .. m
    BY <1>6, <1>9
  <2> QED
    BY <1>9, <2>2, <2>3
<1>12. findings # <<>> => kept # <<>>
  <2> SUFFICES ASSUME findings # <<>> PROVE kept # <<>>
    OBVIOUS
  <2>1. 1 \in DOMAIN findings /\ findings[1] \in ToSet(findings)
    BY EmptyLists DEF ToSet
  <2>2. findings[1] \in ToSet(ranked)
    BY <1>4, <1>q, <2>1 DEF WorstFirst
  <2>3. Len(ranked) # 0
    BY <1>5, <2>2 DEF ToSet
  <2>4. 1 \in DOMAIN kept
    BY <1>6, <1>9, <2>3
  <2> QED
    BY <2>4
<1> QED
  BY <1>0, <1>9, <1>10, <1>11, <1>12

ScanIs ==
    /\ scan = [kind |-> scan.kind, stage |-> scan.stage, image |-> scan.image, demo |-> scan.demo]
    /\ scan.demo \in BOOLEAN /\ scan.kind \in ScanKinds
    /\ scan.stage \in {"queued", "running", "failed", "succeeded", "blocked", "unavailable"}
ReportIs  == tool.findings \in Seq(Reportable)
OutcomeIs == scan.stage # "queued" => outcome = Result(scan, tool)
Stored ==
    IF scan.stage \in {"succeeded", "blocked", "unavailable"}
    THEN /\ rows = Rows(outcome.findings, outcome.status = "blocked")
         /\ scan.stage = IF outcome.status \in {"passed", "warning"} THEN "succeeded" ELSE outcome.status
    ELSE rows = {}

ScanInv == ScanIs /\ ReportIs /\ OutcomeIs /\ Stored

LEMMA ScansInitInv == ScansInit => ScanInv
<1> SUFFICES ASSUME ScansInit PROVE ScanInv
  OBVIOUS
<1>1. scan \in [kind : ScanKinds, stage : {"queued"}, image : BOOLEAN, demo : BOOLEAN] /\ tool = NoExecution /\ rows = {}
  BY DEF ScansInit
<1>2. ScanIs /\ scan.stage = "queued"
  BY <1>1 DEF ScanIs
<1>3. ReportIs
  BY <1>1 DEF ReportIs, NoExecution
<1> QED
  BY <1>1, <1>2, <1>3 DEF ScanInv, OutcomeIs, Stored

LEMMA ReportsAre ==
    ASSUME NEW x \in Executions
    PROVE  x.findings \in Seq(Reportable)
<1>0. <<>> \in Seq(Reportable)
  OBVIOUS
<1>1. CASE x = NoExecution \/ x = [NoExecution EXCEPT !.ended = "late"]
  <2>1. x.findings = <<>>
    BY <1>1 DEF NoExecution
  <2> QED
    BY <1>0, <2>1
<1>2. ASSUME NEW code, NEW report, NEW version, x = Exit(code, report, <<>>, version)
      PROVE  x.findings \in Seq(Reportable)
  <2>1. x.findings = <<>>
    BY <1>2 DEF Exit
  <2> QED
    BY <1>0, <2>1
<1>3. ASSUME NEW code, NEW findings \in BoundedSeq(Reportable, MaxReported),
             x = Exit(code, "valid", findings, TRUE)
      PROVE  x.findings \in Seq(Reportable)
  <2>1. PICK m \in 0 .. MaxReported : findings \in [1 .. m -> Reportable]
    BY DEF BoundedSeq, SeqOf
  <2>2. m \in Nat
    BY ScansAssumption
  <2>3. findings \in Seq(Reportable)
    BY <2>1, <2>2
  <2> QED
    BY <1>3, <2>3 DEF Exit
<1> DEFINE Silent   == {Exit(code, report, <<>>, version) :
                          code \in {"clean", "findings", "error"}, report \in {"empty", "invalid", "valid"}, version \in BOOLEAN}
           Speaking == {Exit(code, "valid", findings, TRUE) :
                          code \in {"clean", "findings", "error"}, findings \in BoundedSeq(Reportable, MaxReported)}
<1>4. \A y \in Silent : \E code, report, version : y = Exit(code, report, <<>>, version)
  OBVIOUS
<1>5. \A y \in Speaking : \E code, findings : findings \in BoundedSeq(Reportable, MaxReported) /\ y = Exit(code, "valid", findings, TRUE)
  <2> DEFINE E(code, findings) == Exit(code, "valid", findings, TRUE)
  <2>1. Speaking = {E(code, findings) :
                      code \in {"clean", "findings", "error"}, findings \in BoundedSeq(Reportable, MaxReported)}
    OBVIOUS
  <2> HIDE DEF E, Speaking
  <2>2. \A y \in Speaking : \E code, findings : findings \in BoundedSeq(Reportable, MaxReported) /\ y = E(code, findings)
    BY <2>1
  <2> QED
    BY <2>2 DEF E
<1>6. Executions = {NoExecution, [NoExecution EXCEPT !.ended = "late"]} \cup Silent \cup Speaking
  BY DEF Executions
<1> HIDE DEF Silent, Speaking
<1>7. x \in Silent \/ x \in Speaking \/ x = NoExecution \/ x = [NoExecution EXCEPT !.ended = "late"]
  BY <1>6
<1>8. CASE x \in Silent
  <2>1. PICK code, report, version : x = Exit(code, report, <<>>, version)
    BY <1>4, <1>8
  <2> QED
    BY <1>2, <2>1
<1>9. CASE x \in Speaking
  <2>1. PICK code, findings : findings \in BoundedSeq(Reportable, MaxReported) /\ x = Exit(code, "valid", findings, TRUE)
    BY <1>5, <1>9
  <2> QED
    BY <1>3, <2>1
<1> QED
  BY <1>1, <1>7, <1>8, <1>9

\* The result does not depend on where the stage is.
LEMMA ResultOfScan ==
    ASSUME NEW s, NEW t, t.kind = s.kind, t.image = s.image, t.demo = s.demo, NEW x
    PROVE  Result(t, x) = Result(s, x)
<1>1. Usable(t, x) <=> Usable(s, x)
  BY DEF Usable, Scannable
<1>2. \A findings : StatusFor(t, findings) = StatusFor(s, findings)
  BY DEF StatusFor, BlocksCritical
<1> QED
  BY <1>1, <1>2 DEF Result

LEMMA ResultStatus ==
    ASSUME NEW s, NEW x
    PROVE  Result(s, x).status \in {"passed", "warning", "blocked", "unavailable"}
<1>1. \A findings : StatusFor(s, findings) \in {"passed", "warning", "blocked"}
  BY DEF StatusFor
<1> QED
  BY <1>1 DEF Result

LEMMA ScanMoves ==
    ASSUME ScanIs, NEW where \in {"running", "failed", "succeeded", "blocked", "unavailable"},
           scan' = [scan EXCEPT !.stage = where]
    PROVE  ScanIs' /\ scan'.stage = where /\ scan'.kind = scan.kind /\ scan'.image = scan.image /\ scan'.demo = scan.demo
<1>1. scan = [kind |-> scan.kind, stage |-> scan.stage, image |-> scan.image, demo |-> scan.demo]
  BY DEF ScanIs
<1>2. scan' = [kind |-> scan.kind, stage |-> where, image |-> scan.image, demo |-> scan.demo]
  BY <1>1
<1> QED
  BY <1>2 DEF ScanIs

LEMMA ScansStep ==
    ASSUME ScanInv, ScansNext
    PROVE  ScanInv'
<1>0. ScanIs /\ ReportIs /\ OutcomeIs /\ Stored
  BY DEF ScanInv
<1>1. CASE RunScan
  <2>1. PICK x \in Executions : tool' = x /\ outcome' = Result(scan, x)
    BY <1>1 DEF RunScan
  <2>2. scan' = [scan EXCEPT !.stage = "running"] /\ scan.stage = "queued" /\ UNCHANGED rows
    BY <1>1 DEF RunScan
  <2>3. ScanIs' /\ scan'.stage = "running" /\ scan'.kind = scan.kind /\ scan'.image = scan.image /\ scan'.demo = scan.demo
    BY <1>0, <2>2, ScanMoves
  <2>4. Result(scan', x) = Result(scan, x)
    BY <2>3, ResultOfScan
  <2>5. OutcomeIs'
    BY <2>1, <2>4 DEF OutcomeIs
  <2>6. Stored'
    BY <1>0, <2>2, <2>3 DEF Stored
  <2>7. ReportIs'
    BY <2>1, ReportsAre DEF ReportIs
  <2> QED
    BY <2>3, <2>5, <2>6, <2>7 DEF ScanInv
<1>2. CASE ConcludeScan
  <2> DEFINE where == IF outcome.status \in {"passed", "warning"} THEN "succeeded" ELSE outcome.status
  <2>1. scan' = [scan EXCEPT !.stage = where] /\ scan.stage = "running" /\ UNCHANGED <<tool, outcome>>
        /\ rows' = Rows(outcome.findings, outcome.status = "blocked")
    BY <1>2 DEF ConcludeScan
  <2>2. outcome = Result(scan, tool)
    BY <1>0, <2>1 DEF OutcomeIs
  <2>3. where \in {"succeeded", "blocked", "unavailable"}
    BY <2>2, ResultStatus
  <2> HIDE DEF where
  <2>4. ScanIs' /\ scan'.stage = where /\ scan'.kind = scan.kind /\ scan'.image = scan.image /\ scan'.demo = scan.demo
    BY <1>0, <2>1, <2>3, ScanMoves
  <2>5. Result(scan', tool) = Result(scan, tool)
    BY <2>4, ResultOfScan
  <2>6. OutcomeIs'
    BY <2>1, <2>2, <2>5 DEF OutcomeIs
  <2>7. Stored'
    BY <2>1, <2>3, <2>4 DEF Stored, where
  <2>8. ReportIs'
    BY <1>0, <2>1 DEF ReportIs
  <2> QED
    BY <2>4, <2>6, <2>7, <2>8 DEF ScanInv
<1>3. CASE AbandonScan
  <2>1. scan' = [scan EXCEPT !.stage = "failed"] /\ scan.stage = "running" /\ UNCHANGED <<tool, outcome, rows>>
    BY <1>3 DEF AbandonScan
  <2>2. ScanIs' /\ scan'.stage = "failed" /\ scan'.kind = scan.kind /\ scan'.image = scan.image /\ scan'.demo = scan.demo
    BY <1>0, <2>1, ScanMoves
  <2>3. Result(scan', tool) = Result(scan, tool)
    BY <2>2, ResultOfScan
  <2>4. OutcomeIs' /\ Stored' /\ ReportIs'
    BY <1>0, <2>1, <2>2, <2>3 DEF OutcomeIs, Stored, ReportIs
  <2> QED
    BY <2>2, <2>4 DEF ScanInv
<1> QED
  BY <1>1, <1>2, <1>3 DEF ScansNext

LEMMA ScanStutter ==
    ASSUME ScanInv, UNCHANGED scanVars
    PROVE  ScanInv'
BY DEF scanVars, ScanInv, ScanIs, ReportIs, OutcomeIs, Stored

\* Findings keep their number and their problems when a severity is assigned.
LEMMA ParsedIs ==
    ASSUME NEW kind, NEW x, x.findings \in Seq(Reportable)
    PROVE  Parsed(kind, x) \in Seq(Reportable)
<1>1. CASE kind = "sbom"
  BY <1>1 DEF Parsed
<1>2. CASE kind # "sbom"
  <2> DEFINE parsed == [i \in DOMAIN x.findings |-> [x.findings[i] EXCEPT !.severity = Assigned(kind, @)]]
  <2>1. Parsed(kind, x) = parsed
    BY <1>2 DEF Parsed
  <2>2. \A severity \in ToSet(Severities) : Assigned(kind, severity) \in ToSet(Severities)
    BY RanksAre DEF Assigned
  <2>3. \A f \in Reportable : [f EXCEPT !.severity = Assigned(kind, f.severity)] \in Reportable
    BY <2>2 DEF Reportable
  <2>4. parsed \in [1 .. Len(x.findings) -> Reportable] /\ Len(x.findings) \in Nat
    BY <2>3
  <2> HIDE DEF parsed
  <2>5. parsed \in Seq(Reportable)
    BY <2>4
  <2> QED
    BY <2>1, <2>5
<1> QED
  BY <1>1, <1>2

\* A problem has the row of the first finding about it.
LEMMA RowsAre ==
    ASSUME NEW kept \in Seq(Reportable), NEW blocking \in BOOLEAN
    PROVE  /\ \A row \in Rows(kept, blocking) : \E j \in DOMAIN kept :
                  /\ row.problem = kept[j].problem /\ row.severity = kept[j].severity
                  /\ row.blocking <=> blocking /\ kept[j].severity \in {"critical", "high"}
                  /\ \A k \in 1 .. j - 1 : kept[k].problem # kept[j].problem
           /\ kept # <<>> => \E row \in Rows(kept, blocking) :
                  /\ row.severity = kept[1].severity
                  /\ row.blocking <=> blocking /\ kept[1].severity \in {"critical", "high"}
<1> DEFINE R(j) == [problem |-> kept[j].problem, severity |-> kept[j].severity,
                    blocking |-> blocking /\ kept[j].severity \in {"critical", "high"}]
           first == {j \in DOMAIN kept : \A k \in 1 .. j - 1 : kept[k].problem # kept[j].problem}
<1>1. Rows(kept, blocking) = {R(j) : j \in first}
  BY DEF Rows
<1>2. \A j : /\ R(j).problem = kept[j].problem /\ R(j).severity = kept[j].severity
             /\ R(j).blocking <=> blocking /\ kept[j].severity \in {"critical", "high"}
  OBVIOUS
<1>3. kept # <<>> => 1 \in first
  <2> SUFFICES ASSUME kept # <<>> PROVE 1 \in first
    OBVIOUS
  <2>1. 1 \in DOMAIN kept
    BY EmptyLists
  <2>2. \A k \in 1 .. 1 - 1 : FALSE
    OBVIOUS
  <2> QED
    BY <2>1, <2>2
<1> HIDE DEF R
<1>4. \A row \in Rows(kept, blocking) : \E j \in first : row = R(j)
  BY <1>1
<1>5. kept # <<>> => R(1) \in Rows(kept, blocking)
  BY <1>1, <1>3
<1> QED
  BY <1>2, <1>4, <1>5

LEMMA WorstIsOnRecord == ScanInv => WorstDecides
<1> SUFFICES ASSUME ScanInv PROVE WorstDecides
  OBVIOUS
<1> DEFINE findings == Parsed(scan.kind, tool)
           kept     == Retained(findings)
           Least(f) == \E row \in rows : Rank(row.severity) >= Rank(f.severity)
           Most(f)  == \A row \in rows : row.problem = f.problem => Rank(row.severity) >= Rank(f.severity)
<1>0. ScanIs /\ ReportIs /\ OutcomeIs /\ Stored
  BY DEF ScanInv
<1>1. CASE scan.stage \in {"queued", "running", "failed"}
  <2>1. rows = {}
    BY <1>0, <1>1 DEF Stored
  <2> QED
    BY <1>1, <2>1 DEF WorstDecides
<1>2. CASE scan.stage = "unavailable"
  <2>1. outcome = Result(scan, tool) /\ rows = Rows(outcome.findings, outcome.status = "blocked") /\ outcome.status = "unavailable"
    BY <1>0, <1>2, ResultStatus DEF Stored, OutcomeIs
  <2>2. outcome.findings = <<>>
    <3>1. StatusFor(scan, findings) # "unavailable"
      BY DEF StatusFor
    <3> QED
      BY <2>1, <3>1 DEF Result
  <2>3. rows = {}
    BY <2>1, <2>2 DEF Rows
  <2> QED
    BY <1>2, <2>3 DEF WorstDecides
<1>3. CASE scan.stage \in {"succeeded", "blocked"}
  <2>1. outcome = Result(scan, tool) /\ rows = Rows(outcome.findings, outcome.status = "blocked")
        /\ scan.stage = IF outcome.status \in {"passed", "warning"} THEN "succeeded" ELSE outcome.status
    BY <1>0, <1>3 DEF Stored, OutcomeIs
  <2>2. Usable(scan, tool)
    BY <1>3, <2>1 DEF Result
  <2>3. outcome.status = StatusFor(scan, findings) /\ outcome.findings = kept
    BY <2>1, <2>2 DEF Result
  <2>4. findings \in Seq(Reportable)
    BY <1>0, ParsedIs DEF ReportIs
  <2>5. /\ kept \in Seq(Reportable)
        /\ \A n \in DOMAIN kept : \A f \in ToSet(findings) :
               Rank(f.severity) > Rank(kept[n].severity) => \E k \in 1 .. n - 1 : kept[k] = f
        /\ ToSet(kept) \subseteq ToSet(findings)
        /\ findings # <<>> => kept # <<>>
    BY <2>4, RetainedIsWorst
  <2> HIDE DEF kept
  <2>p. PICK blocking \in BOOLEAN : blocking <=> outcome.status = "blocked"
    OBVIOUS
  <2>r. rows = Rows(kept, blocking)
    BY <2>1, <2>3, <2>p
  <2>6. /\ \A row \in rows : \E j \in DOMAIN kept :
                  /\ row.problem = kept[j].problem /\ row.severity = kept[j].severity
                  /\ row.blocking <=> blocking /\ kept[j].severity \in {"critical", "high"}
                  /\ \A k \in 1 .. j - 1 : kept[k].problem # kept[j].problem
        /\ kept # <<>> => \E row \in rows :
                  /\ row.severity = kept[1].severity
                  /\ row.blocking <=> blocking /\ kept[1].severity \in {"critical", "high"}
    BY <2>5, <2>r, RowsAre
  <2>f. \A f \in ToSet(findings) : f \in Reportable /\ Rank(f.severity) \in 1 .. 4
    <3> SUFFICES ASSUME NEW i \in DOMAIN findings PROVE findings[i] \in Reportable
      BY RankOfReportable DEF ToSet
    <3> HIDE DEF findings
    <3> QED
      BY <2>4
  <2>k. \A n \in DOMAIN kept : kept[n] \in Reportable /\ Rank(kept[n].severity) \in 1 .. 4
    <3> SUFFICES ASSUME NEW n \in DOMAIN kept PROVE kept[n] \in Reportable
      BY RankOfReportable
    <3> QED
      BY <2>5
  <2> HIDE DEF findings
  <2>7. ASSUME NEW f \in ToSet(findings) PROVE Least(f)
    <3>1. findings # <<>>
      BY <2>4, EmptyLists
    <3>2. kept # <<>> /\ 1 \in DOMAIN kept
      BY <2>5, <3>1, EmptyLists
    <3>3. ~(Rank(f.severity) > Rank(kept[1].severity))
      <4>1. \A k \in 1 .. 1 - 1 : FALSE
        OBVIOUS
      <4> QED
        BY <2>5, <3>2, <4>1
    <3>4. Rank(kept[1].severity) >= Rank(f.severity)
      BY <2>f, <2>k, <3>2, <3>3
    <3> QED
      BY <2>6, <3>2, <3>4
  <2>8. ASSUME NEW f \in ToSet(findings), NEW row \in rows, row.problem = f.problem
        PROVE  Rank(row.severity) >= Rank(f.severity)
    <3>1. PICK j \in DOMAIN kept :
              /\ row.problem = kept[j].problem /\ row.severity = kept[j].severity
              /\ \A k \in 1 .. j - 1 : kept[k].problem # kept[j].problem
      BY <2>6
    <3>2. ~(Rank(f.severity) > Rank(kept[j].severity))
      BY ZenonT(30), <2>5, <2>8, <3>1
    <3> QED
      BY <2>f, <2>k, <3>1, <3>2
  <2>9. ASSUME scan.stage = "succeeded", NEW f \in ToSet(findings), f.severity = "critical"
        PROVE  scan.demo /\ scan.kind = "container"
    <3>1. StatusFor(scan, findings) # "blocked"
      BY <2>1, <2>3, <2>9
    <3>2. \E i \in DOMAIN findings : findings[i].severity = "critical"
      BY <2>9 DEF ToSet
    <3>3. ~BlocksCritical(scan)
      BY <3>1, <3>2 DEF StatusFor
    <3> QED
      BY <3>3 DEF BlocksCritical
  <2>10. ASSUME scan.stage = "succeeded", rows = {}
         PROVE  tool.ended = "exit" /\ tool.code = "clean"
    <3>1. findings = <<>>
      BY <2>5, <2>6, <2>10
    <3> QED
      BY <2>2, <3>1 DEF Usable, ExitCodes, findings
  <2>11. scan.stage = "blocked" => \E row \in rows : row.blocking
    <3> SUFFICES ASSUME scan.stage = "blocked" PROVE \E row \in rows : row.blocking
      OBVIOUS
    <3>1. outcome.status = "blocked"
      BY <2>1
    <3>2. \E i \in DOMAIN findings : findings[i].severity = "critical"
      BY <2>3, <3>1 DEF StatusFor
    <3>3. PICK f \in ToSet(findings) : f.severity = "critical"
      BY <3>2 DEF ToSet
    <3>4. findings # <<>>
      BY <2>4, <3>3, EmptyLists
    <3>5. kept # <<>> /\ 1 \in DOMAIN kept
      BY <2>5, <3>4, EmptyLists
    <3>6. ~(Rank(f.severity) > Rank(kept[1].severity))
      <4>1. \A k \in 1 .. 1 - 1 : FALSE
        OBVIOUS
      <4> QED
        BY <2>5, <3>5, <4>1
    <3>7. Rank(f.severity) = 4
      BY <3>3, RanksAre
    <3>8. Rank(kept[1].severity) = 4
      BY <2>k, <3>5, <3>6, <3>7
    <3>9. kept[1].severity = "critical"
      BY <2>k, <3>5, <3>8, RankOfReportable
    <3> QED
      BY <2>6, <2>p, <3>1, <3>5, <3>9
  <2>12. (\E row \in rows : row.blocking) => scan.stage = "blocked"
    <3> SUFFICES ASSUME NEW row \in rows, row.blocking PROVE scan.stage = "blocked"
      OBVIOUS
    <3>1. blocking
      BY <2>6
    <3> QED
      BY <2>1, <2>p, <3>1
  <2>13. \A f \in ToSet(findings) : Least(f) /\ Most(f)
    BY <2>7, <2>8
  <2> QED
    BY <2>9, <2>10, <2>11, <2>12, <2>13 DEF WorstDecides, findings
<1> QED
  BY <1>0, <1>1, <1>2, <1>3 DEF ScanIs

\* Of however many findings, reported in whatever order: the worst decides, and is on record.
THEOREM WorstFindingsDecide == EvidenceSpec => []WorstDecides
<1>1. EvidenceInit => ScanInv
  BY ScansInitInv DEF EvidenceInit
<1>2. ScanInv /\ [EvidenceNext]_evidenceVars => ScanInv'
  BY ScansStep, ScanStutter DEF EvidenceNext, evidenceVars
<1> QED
  BY <1>1, <1>2, WorstIsOnRecord, PTL DEF EvidenceSpec
=============================================================================
