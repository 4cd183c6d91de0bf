--------------------------- MODULE DeploymentQueue ---------------------------
(***************************************************************************)
(* The PostgreSQL release queue (worker/job_queue.py), the worker loop     *)
(* that drains it (worker/main.py, worker/terraform_runner.py), the writes *)
(* the release pipeline makes outside the lease (services/pipeline.py) and *)
(* the API's start-up reconciliation (backend/main.py).                    *)
(*                                                                         *)
(* A deployment_jobs row and its deployments row are created together, one *)
(* job per deployment, so both are indexed by Jobs.                        *)
(*                                                                         *)
(* Data left out, because no guard of these handlers reads it: worker_id   *)
(* (the lease token alone identifies a claim), failure_reason, live_url,   *)
(* the timestamps, projects.status and decision_evaluations.status.  Time  *)
(* is reduced to whether lease_expires_at has passed.  The recovery batch  *)
(* limit (25 rows) is taken to be at least the number of jobs.             *)
(***************************************************************************)
EXTENDS Naturals, ReleaseVocabulary

CONSTANTS
    Jobs,             \* deployment_jobs rows, each with its deployments row
    Workers,          \* worker processes
    Api,              \* the API process, whose start-up also reconciles
    NoJob,            \* a worker that holds no claim
    MaxAttempts,      \* WORKER_MAX_ATTEMPTS
    MaxFaults,        \* bound: crashes and handler outages in one behaviour
    MaxApiRestarts    \* bound: API start-ups in one behaviour

ASSUME MaxAttemptsAssumption == MaxAttempts \in Nat \ {0}
ASSUME BoundsAssumption == MaxFaults \in Nat /\ MaxApiRestarts \in Nat
ASSUME NamesAssumption == Api \notin Workers /\ NoJob \notin Jobs

VARIABLES
    jobStatus,     \* deployment_jobs.status
    attemptCount,  \* deployment_jobs.attempt_count
    leaseToken,    \* deployment_jobs.lease_token: the claim that minted it, 0 = NULL
    leaseExpired,  \* lease_expires_at < NOW()
    depStatus,     \* deployments.status
    runStatus,     \* pipeline_runs.status (and failure_code) of the deployment's run
    cloudCalls,    \* rollouts the cloud provider received for the deployment
    pc,            \* where each worker's loop stands
    claim,         \* the claim each worker holds: [job, token]
    leaseLost,     \* the worker's lease_lost event
    stopAs,        \* how the failing pipeline will record its outcome
    scan,          \* rows an open reconciliation selected, with the deployment status it read
    faults,        \* crashes and handler outages so far
    apiRestarts    \* API start-ups so far

rowVars    == <<jobStatus, attemptCount, leaseToken, leaseExpired>>
recordVars == <<depStatus, runStatus, cloudCalls>>
workerVars == <<pc, claim, leaseLost, stopAs>>
envVars    == <<faults, apiRestarts>>
vars       == <<rowVars, recordVars, workerVars, scan, envVars>>

Reconcilers == Workers \cup {Api}

\* Where a worker's loop can stand.  "idle" is the top of the polling loop.
Polling   == {"idle", "reconcile", "claim"}
Preparing == {"prepare", "prove"}
Pipeline  == {"enter", "checks", "rollout", "verify", "failing"}
Recording == {"finished", "completing", "refusing", "error", "compensate"}
Phases    == Polling \cup Preparing \cup Pipeline \cup Recording

\* Phases of one execution of execute_job, during which the heartbeat runs.
Executing == Preparing \cup Pipeline \cup Recording

NoClaim == [job |-> NoJob, token |-> 0]

\* The rows `worker_id`/`lease_token` still name this worker's claim.
Owns(w) ==
    /\ claim[w].job \in Jobs
    /\ jobStatus[claim[w].job] = "running"
    /\ leaseToken[claim[w].job] = claim[w].token

Stale(j) == jobStatus[j] = "running" /\ leaseExpired[j]

-----------------------------------------------------------------------------
Init ==
    /\ jobStatus = [j \in Jobs |-> "absent"]
    /\ attemptCount = [j \in Jobs |-> 0]
    /\ leaseToken = [j \in Jobs |-> 0]
    /\ leaseExpired = [j \in Jobs |-> FALSE]
    /\ depStatus = [j \in Jobs |-> "absent"]
    /\ runStatus = [j \in Jobs |-> "queued"]
    /\ cloudCalls = [j \in Jobs |-> 0]
    /\ pc = [w \in Workers |-> "idle"]
    /\ claim = [w \in Workers |-> NoClaim]
    /\ leaseLost = [w \in Workers |-> FALSE]
    /\ stopAs = [w \in Workers |-> "failed"]
    /\ scan = [r \in Reconcilers |-> [j \in Jobs |-> NotSelected]]
    /\ faults = 0
    /\ apiRestarts = 0

\* start_deploy commits the deployment, its run and its job together.
StartDeploy(j) ==
    /\ jobStatus[j] = "absent"
    /\ jobStatus' = [jobStatus EXCEPT ![j] = "queued"]
    /\ depStatus' = [depStatus EXCEPT ![j] = "queued"]
    /\ UNCHANGED <<attemptCount, leaseToken, leaseExpired, runStatus, cloudCalls,
                   workerVars, scan, envVars>>

\* Nobody renewed the lease for WORKER_LEASE_SECONDS.
ExpireLease(j) ==
    /\ jobStatus[j] = "running"
    /\ ~leaseExpired[j]
    /\ leaseExpired' = [leaseExpired EXCEPT ![j] = TRUE]
    /\ UNCHANGED <<jobStatus, attemptCount, leaseToken, recordVars, workerVars, scan, envVars>>

\* reject_pipeline_run, when the owner turns the waiting release down.  The
\* run and the deployment are written together, the deployment whatever it says.
RejectPipelineRun(j) ==
    /\ runStatus[j] = "awaiting_approval"
    /\ runStatus' = [runStatus EXCEPT ![j] = "cancelled"]
    /\ depStatus' = [depStatus EXCEPT ![j] = "stopped"]
    /\ UNCHANGED <<rowVars, cloudCalls, workerVars, scan, envVars>>

-----------------------------------------------------------------------------
(***************************************************************************)
(* Reconciliation of expired claims.  The SELECT joins deployments under   *)
(* one statement snapshot but locks only the job rows, and passes over the *)
(* rows that another reconciliation has locked: a job whose latest version *)
(* is still stale is reconciled with the deployment status of the snapshot. *)
(***************************************************************************)
Select(r) == scan' = [scan EXCEPT ![r] = [j \in Jobs |-> IF Stale(j) THEN depStatus[j] ELSE NotSelected]]

Seized(r, j) == scan[r][j] # NotSelected /\ Stale(j)

\* The job rows after every seized row took the status its disposition calls for.
ReleaseRows(r, disposition) ==
    /\ jobStatus' = [j \in Jobs |-> IF Seized(r, j) THEN DispositionStatus[disposition[j]] ELSE jobStatus[j]]
    /\ leaseToken' = [j \in Jobs |-> IF Seized(r, j) THEN 0 ELSE leaseToken[j]]
    /\ leaseExpired' = [j \in Jobs |-> IF Seized(r, j) THEN FALSE ELSE leaseExpired[j]]
    /\ scan' = [scan EXCEPT ![r] = [j \in Jobs |-> NotSelected]]
    /\ UNCHANGED attemptCount

WorkerDisposition(r) == [j \in Jobs |-> StaleJobDisposition(scan[r][j], attemptCount[j], MaxAttempts)]
ApiDisposition == [j \in Jobs |-> FallbackDisposition(scan[Api][j], attemptCount[j], MaxAttempts)]

\* pop_job opens with recover_stale_jobs.
PollQueue(w) ==
    /\ pc[w] = "idle"
    /\ pc' = [pc EXCEPT ![w] = "reconcile"]
    /\ Select(w)
    /\ UNCHANGED <<rowVars, recordVars, claim, leaseLost, stopAs, envVars>>

\* Mutated form of RecoverStaleJobs: trusts the status it selected.
RecoverStaleJobsUnchecked(w) ==
    /\ pc[w] = "reconcile"
    /\ ReleaseRows(w, WorkerDisposition(w))
    /\ depStatus' = [j \in Jobs |->
          IF Seized(w, j) /\ WorkerDisposition(w)[j] = "fail" THEN "failed" ELSE depStatus[j]]
    /\ pc' = [pc EXCEPT ![w] = "claim"]
    /\ UNCHANGED <<runStatus, cloudCalls, claim, leaseLost, stopAs, envVars>>

\* recover_stale_jobs: the deployment UPDATE re-tests the current status.
RecoverStaleJobs(w) ==
    /\ pc[w] = "reconcile"
    /\ ReleaseRows(w, WorkerDisposition(w))
    /\ depStatus' = [j \in Jobs |->
          IF Seized(w, j) /\ WorkerDisposition(w)[j] = "fail" /\ depStatus[j] \in ActiveReleases
          THEN "failed" ELSE depStatus[j]]
    /\ pc' = [pc EXCEPT ![w] = "claim"]
    /\ UNCHANGED <<runStatus, cloudCalls, claim, leaseLost, stopAs, envVars>>

ApiStart ==
    /\ apiRestarts < MaxApiRestarts
    /\ apiRestarts' = apiRestarts + 1
    /\ Select(Api)
    /\ UNCHANGED <<rowVars, recordVars, workerVars, faults>>

\* recover_interrupted_deployments: the decision to fail the deployment is
\* taken on the loaded row and written by primary key.
RecoverInterruptedDeployments ==
    /\ \E j \in Jobs : scan[Api][j] # NotSelected
    /\ ReleaseRows(Api, ApiDisposition)
    /\ depStatus' = [j \in Jobs |->
          IF Seized(Api, j) /\ ApiDisposition[j] = "fail" /\ scan[Api][j] \in ActiveReleases
          THEN "failed" ELSE depStatus[j]]
    /\ UNCHANGED <<runStatus, cloudCalls, workerVars, envVars>>

-----------------------------------------------------------------------------
(***************************************************************************)
(* The worker.                                                             *)
(***************************************************************************)
Claimable(j) == jobStatus[j] = "queued" /\ attemptCount[j] < MaxAttempts

\* The new uuid lease token is named by the attempt that minted it: attempts
\* only grow, so a token is never issued twice for a job.
ClaimJob(w, j) ==
    /\ pc[w] = "claim"
    /\ Claimable(j)
    /\ jobStatus' = [jobStatus EXCEPT ![j] = "running"]
    /\ attemptCount' = [attemptCount EXCEPT ![j] = @ + 1]
    /\ leaseToken' = [leaseToken EXCEPT ![j] = attemptCount[j] + 1]
    /\ leaseExpired' = [leaseExpired EXCEPT ![j] = FALSE]
    /\ claim' = [claim EXCEPT ![w] = [job |-> j, token |-> attemptCount[j] + 1]]
    /\ leaseLost' = [leaseLost EXCEPT ![w] = FALSE]
    /\ pc' = [pc EXCEPT ![w] = "prepare"]
    /\ UNCHANGED <<recordVars, stopAs, scan, envVars>>

ClaimNothing(w) ==
    /\ pc[w] = "claim"
    /\ \A j \in Jobs : ~Claimable(j)
    /\ pc' = [pc EXCEPT ![w] = "idle"]
    /\ UNCHANGED <<rowVars, recordVars, claim, leaseLost, stopAs, scan, envVars>>

\* The heartbeat thread renews an owned claim, expired or not, and raises
\* lease_lost for good when the row no longer names it.
Heartbeat(w) ==
    /\ pc[w] \in Executing
    /\ ~leaseLost[w]
    /\ IF Owns(w)
       THEN leaseExpired' = [leaseExpired EXCEPT ![claim[w].job] = FALSE] /\ UNCHANGED leaseLost
       ELSE leaseLost' = [leaseLost EXCEPT ![w] = TRUE] /\ UNCHANGED leaseExpired
    /\ UNCHANGED <<jobStatus, attemptCount, leaseToken, recordVars, pc, claim, stopAs, scan, envVars>>

\* The database refused the renewal: the thread gives up although the row may
\* still be this worker's.
HeartbeatFails(w) ==
    /\ pc[w] \in Executing
    /\ ~leaseLost[w]
    /\ leaseLost' = [leaseLost EXCEPT ![w] = TRUE]
    /\ UNCHANGED <<rowVars, recordVars, pc, claim, stopAs, scan, envVars>>

\* A step of execute_job that only moves the worker on.
Goto(w, phase) == pc' = [pc EXCEPT ![w] = phase]

\* _persist_internal_iac_metadata: fenced by the lease and the queued status.
PersistMetadata(w) ==
    /\ pc[w] = "prepare"
    /\ ~leaseLost[w]
    /\ Owns(w)
    /\ depStatus[claim[w].job] = "queued"
    /\ Goto(w, "prove")
    /\ UNCHANGED <<rowVars, recordVars, claim, leaseLost, stopAs, scan, envVars>>

\* Mutated form of BeginPipeline: the row is written by primary key.
BeginPipelineUnfenced(w) ==
    /\ pc[w] = "prove"
    /\ ~leaseLost[w]
    /\ depStatus' = [depStatus EXCEPT ![claim[w].job] = "building"]
    /\ Goto(w, "enter")
    /\ UNCHANGED <<rowVars, runStatus, cloudCalls, claim, leaseLost, stopAs, scan, envVars>>

\* _require_completed_terraform_apply, then _begin_pipeline: one statement
\* locks the owned job row and moves the deployment across the boundary.
BeginPipeline(w) ==
    /\ pc[w] = "prove"
    /\ ~leaseLost[w]
    /\ Owns(w)
    /\ depStatus[claim[w].job] = "queued"
    /\ depStatus' = [depStatus EXCEPT ![claim[w].job] = "building"]
    /\ Goto(w, "enter")
    /\ UNCHANGED <<rowVars, runStatus, cloudCalls, claim, leaseLost, stopAs, scan, envVars>>

\* Before the boundary anything can raise: a lost lease, missing input, a
\* missing apply proof, a fenced write that matched no row.
FailBeforePipeline(w) ==
    /\ pc[w] \in Preparing
    /\ Goto(w, "error")
    /\ UNCHANGED <<rowVars, recordVars, claim, leaseLost, stopAs, scan, envVars>>

Stop(w, how) ==
    /\ Goto(w, "failing")
    /\ stopAs' = [stopAs EXCEPT ![w] = how]

\* run_deployment_pipeline starts the source stage, unless the release left
\* "building", the pipeline is disabled, a record is missing, the database
\* raised or the lease was seen lost.
EnterPipeline(w) ==
    LET j == claim[w].job IN
    /\ pc[w] = "enter"
    /\ \/ /\ \E how \in {"failed", "blocked", "unavailable"} : Stop(w, how)
          /\ UNCHANGED runStatus
       \/ /\ depStatus[j] = "building"
          /\ ~leaseLost[w]
          /\ runStatus' = [runStatus EXCEPT ![j] = "running"]
          /\ Goto(w, "checks")
          /\ UNCHANGED stopAs
    /\ UNCHANGED <<rowVars, depStatus, cloudCalls, claim, leaseLost, scan, envVars>>

\* A stage or its evidence did not pass, or the lease was seen lost.
PipelineStops(w) ==
    /\ pc[w] \in {"checks", "verify"}
    /\ \E how \in StopOutcomes :
          /\ how = "awaiting_approval" => pc[w] = "checks" /\ ~leaseLost[w]
          /\ Stop(w, how)
    /\ UNCHANGED <<rowVars, recordVars, claim, leaseLost, scan, envVars>>

\* A commit that ends the run.  The log flush that follows it may still raise,
\* and the failure handler then meets a run that already succeeded.
Conclude(w, release) ==
    /\ ~leaseLost[w]
    /\ runStatus' = [runStatus EXCEPT ![claim[w].job] = "succeeded"]
    /\ depStatus' = [depStatus EXCEPT ![claim[w].job] = release]
    /\ \/ Goto(w, "finished") /\ UNCHANGED stopAs
       \/ Stop(w, "failed")
    /\ UNCHANGED <<rowVars, cloudCalls, claim, leaseLost, scan, envVars>>

\* validate_only mode ends without a release.
FinishValidation(w) == pc[w] = "checks" /\ Conclude(w, "stopped")

\* application_deployment starts; the deployment row is written by primary
\* key, without the lease.
StartRollout(w) ==
    /\ pc[w] = "checks"
    /\ ~leaseLost[w]
    /\ depStatus' = [depStatus EXCEPT ![claim[w].job] = "deploying"]
    /\ Goto(w, "rollout")
    /\ UNCHANGED <<rowVars, runStatus, cloudCalls, claim, leaseLost, stopAs, scan, envVars>>

\* app_service.deploy_image: the lease is not looked at again before the call.
RollOut(w) ==
    /\ pc[w] = "rollout"
    /\ cloudCalls' = [cloudCalls EXCEPT ![claim[w].job] = @ + 1]
    /\ \/ Goto(w, "verify") /\ UNCHANGED stopAs
       \/ \E how \in {"failed", "unavailable"} : Stop(w, how)
    /\ UNCHANGED <<rowVars, depStatus, runStatus, claim, leaseLost, scan, envVars>>

\* Health and smoke tests passed: the final commit, again by primary key.
FinishRelease(w) == pc[w] = "verify" /\ Conclude(w, "running")

\* The failure handler, in a session of its own and with no lease guard.  An
\* illegal run transition rolls the whole handler back and escapes; so does a
\* failed log flush, after the commit.
HandlePipelineFailure(w) ==
    LET j == claim[w].job
        target == stopAs[w]
    IN
    /\ pc[w] = "failing"
    /\ IF CanTransition(StatusOf(runStatus[j]), StatusOf(target))
       THEN /\ runStatus' = [runStatus EXCEPT ![j] = target]
            /\ depStatus' = [depStatus EXCEPT ![j] = IF stopAs[w] = "awaiting_approval" THEN "stopped" ELSE "failed"]
            /\ Goto(w, "finished") \/ Goto(w, "error")
       ELSE /\ Goto(w, "error")
            /\ UNCHANGED <<runStatus, depStatus>>
    /\ UNCHANGED <<rowVars, cloudCalls, claim, leaseLost, stopAs, scan, envVars>>

\* The database refuses the handler's transaction.
FailureHandlerFails(w) ==
    /\ pc[w] = "failing"
    /\ faults < MaxFaults
    /\ faults' = faults + 1
    /\ Goto(w, "error")
    /\ UNCHANGED <<rowVars, recordVars, claim, leaseLost, stopAs, scan, apiRestarts>>

\* Mutated form of MarkJob: the job row is written by primary key.
MarkJobUnfenced(w, status) ==
    LET j == claim[w].job IN
    /\ jobStatus' = [jobStatus EXCEPT ![j] = status]
    /\ leaseToken' = [leaseToken EXCEPT ![j] = 0]
    /\ leaseExpired' = [leaseExpired EXCEPT ![j] = FALSE]
    /\ UNCHANGED attemptCount

\* _mark_job: fenced by status, worker and token; reports whether it matched.
MarkJob(w, status) ==
    LET j == claim[w].job IN
    IF Owns(w)
    THEN /\ jobStatus' = [jobStatus EXCEPT ![j] = status]
         /\ leaseToken' = [leaseToken EXCEPT ![j] = 0]
         /\ leaseExpired' = [leaseExpired EXCEPT ![j] = FALSE]
         /\ UNCHANGED attemptCount
    ELSE UNCHANGED rowVars

Retire(w) ==
    /\ Goto(w, "idle")
    /\ claim' = [claim EXCEPT ![w] = NoClaim]
    /\ leaseLost' = [leaseLost EXCEPT ![w] = FALSE]
    /\ stopAs' = [stopAs EXCEPT ![w] = "failed"]

\* The pipeline returned: the outcome is read in a transaction of its own.
ReadOutcome(w) ==
    LET j == claim[w].job IN
    /\ pc[w] = "finished"
    /\ Goto(w, IF JobOutcome(depStatus[j], runStatus[j]) = "failed" THEN "refusing" ELSE "completing")
    /\ UNCHANGED <<rowVars, recordVars, claim, leaseLost, stopAs, scan, envVars>>

\* Mutated form of RecordOutcome: goes on after a failed outcome.
RecordOutcomeCompleted(w) ==
    /\ pc[w] \in {"completing", "refusing"}
    /\ MarkJob(w, "completed")
    /\ Retire(w)
    /\ UNCHANGED <<recordVars, scan, envVars>>

\* The job is given the outcome that was read, whatever the release says by now.
RecordOutcome(w) ==
    /\ pc[w] \in {"completing", "refusing"}
    /\ MarkJob(w, IF pc[w] = "completing" THEN "completed" ELSE "failed")
    /\ Retire(w)
    /\ UNCHANGED <<recordVars, scan, envVars>>

\* Mutated form of RecordError: the deployment is left as it stands.
RecordErrorOnly(w) ==
    /\ pc[w] = "error"
    /\ MarkJob(w, "failed")
    /\ Retire(w)
    /\ UNCHANGED <<recordVars, scan, envVars>>

\* execute_job's except clause, first statement.
RecordError(w) ==
    /\ pc[w] = "error"
    /\ MarkJob(w, "failed")
    /\ IF Owns(w)
       THEN Goto(w, "compensate") /\ UNCHANGED <<claim, leaseLost, stopAs>>
       ELSE Retire(w)
    /\ UNCHANGED <<recordVars, scan, envVars>>

\* _mark_deployment_failed, a statement of its own on an autocommit connection.
FailDeployment(w) ==
    LET j == claim[w].job IN
    /\ pc[w] = "compensate"
    /\ depStatus' = [depStatus EXCEPT ![j] = IF @ \in ActiveReleases THEN "failed" ELSE @]
    /\ Retire(w)
    /\ UNCHANGED <<rowVars, runStatus, cloudCalls, scan, envVars>>

\* The process dies, or an exception escapes execute_job, at any point.
Crash(w) ==
    /\ pc[w] # "idle"
    /\ faults < MaxFaults
    /\ faults' = faults + 1
    /\ scan' = [scan EXCEPT ![w] = [j \in Jobs |-> NotSelected]]
    /\ Retire(w)
    /\ UNCHANGED <<rowVars, recordVars, apiRestarts>>

-----------------------------------------------------------------------------
\* The steps of a worker's own loop: what a scheduled thread keeps taking.
WorkerStep(w) ==
    \/ PollQueue(w)
    \/ RecoverStaleJobs(w)
    \/ \E j \in Jobs : ClaimJob(w, j)
    \/ ClaimNothing(w)
    \/ PersistMetadata(w)
    \/ BeginPipeline(w)
    \/ FailBeforePipeline(w)
    \/ EnterPipeline(w)
    \/ PipelineStops(w)
    \/ FinishValidation(w)
    \/ StartRollout(w)
    \/ RollOut(w)
    \/ FinishRelease(w)
    \/ HandlePipelineFailure(w)
    \/ ReadOutcome(w)
    \/ RecordOutcome(w)
    \/ RecordError(w)
    \/ FailDeployment(w)

Next ==
    \/ \E j \in Jobs : StartDeploy(j) \/ ExpireLease(j) \/ RejectPipelineRun(j)
    \/ \E w \in Workers : WorkerStep(w) \/ Heartbeat(w) \/ HeartbeatFails(w) \/ FailureHandlerFails(w) \/ Crash(w)
    \/ ApiStart
    \/ RecoverInterruptedDeployments

Spec == Init /\ [][Next]_vars

\* Worker threads keep running and wall-clock time passes.  Nothing obliges a
\* heartbeat to be on time, a user to deploy or the API to restart; an API
\* that selected rows carries its transaction through.
Fairness ==
    /\ \A w \in Workers : WF_vars(WorkerStep(w))
    /\ \A j \in Jobs : WF_vars(ExpireLease(j))
    /\ WF_vars(RecoverInterruptedDeployments)

FairSpec == Spec /\ Fairness

-----------------------------------------------------------------------------
(* Properties. *)

RowTypes ==
    /\ jobStatus \in [Jobs -> JobStatuses]
    /\ attemptCount \in [Jobs -> 0 .. MaxAttempts]
    /\ leaseToken \in [Jobs -> 0 .. MaxAttempts]
    /\ leaseExpired \in [Jobs -> BOOLEAN]

RecordTypes ==
    /\ depStatus \in [Jobs -> ReleaseStatuses]
    /\ runStatus \in [Jobs -> RunStates]
    /\ cloudCalls \in [Jobs -> Nat]

WorkerTypes ==
    /\ pc \in [Workers -> Phases]
    /\ claim \in [Workers -> [job : Jobs \cup {NoJob}, token : 0 .. MaxAttempts]]
    /\ leaseLost \in [Workers -> BOOLEAN]
    /\ stopAs \in [Workers -> StopOutcomes]

EnvTypes ==
    /\ scan \in [Reconcilers -> [Jobs -> ReleaseStatuses \cup {NotSelected}]]
    /\ faults \in 0 .. MaxFaults
    /\ apiRestarts \in 0 .. MaxApiRestarts

\* The values every variable may hold: statuses the tables' CHECK constraints
\* allow, attempts within WORKER_MAX_ATTEMPTS.
TypeOK == RowTypes /\ RecordTypes /\ WorkerTypes /\ EnvTypes

\* However claims expire, are requeued, are taken again or are worked on by a
\* worker that lost them, the cloud provider is asked to roll a release out at
\* most once ("replay is withheld", job_queue.stale_job_disposition).
RolledOutAtMostOnce == \A j \in Jobs : cloudCalls[j] <= 1

\* At most one worker is ever inside the pipeline of a release: not even a
\* worker whose claim was taken away and given to another runs beside it.
OnePipelinePerRelease ==
    \A v, w \in Workers :
        pc[v] \in Pipeline /\ pc[w] \in Pipeline /\ claim[v].job = claim[w].job => v = w

\* A queued job can still be claimed: requeueing never leaves a row whose
\* attempts are used up, which pop_job would pass over for ever.
QueuedIsClaimable == \A j \in Jobs : jobStatus[j] = "queued" => attemptCount[j] < MaxAttempts

\* Live, and rolled out, or stopped on purpose (_pipeline_job_outcome) and
\* perhaps rejected since.
EndedWell(j) ==
    \/ depStatus[j] = "running" /\ cloudCalls[j] = 1
    \/ depStatus[j] = "stopped" /\ runStatus[j] \in {"succeeded", "awaiting_approval", "cancelled"}

\* A completed job never overstates its release, although the outcome was read
\* in an earlier transaction than the one that completes the job.
CompletionIsTruthful == \A j \in Jobs : jobStatus[j] = "completed" => EndedWell(j)

\* A deployment reported running has a succeeded run and reached the cloud.
RunningIsVerified ==
    \A j \in Jobs : depStatus[j] = "running" => runStatus[j] = "succeeded" /\ cloudCalls[j] = 1

\* The rows of a job, its release and its workers tell one story: each part is
\* what one reader of these tables takes for granted.
QueueIsConsistent ==
    /\ TypeOK
    /\ OnePipelinePerRelease
    /\ QueuedIsClaimable
    /\ CompletionIsTruthful
    /\ RunningIsVerified

\* A settled job row is never rewritten, not even by a worker or a
\* reconciliation that selected it before it settled.
SettledIsFinal == [][\A j \in Jobs : jobStatus[j] \in SettledJobs => jobStatus'[j] = jobStatus[j]]_vars

\* Every queued release is settled in the end, whichever workers crash.
EveryJobSettles == \A j \in Jobs : jobStatus[j] = "queued" ~> jobStatus[j] \in SettledJobs

\* Unless a process fails, settling the job leaves no deployment in an active
\* status: the project is never shown a release that nobody is working on.
EveryReleaseEnds ==
    \A j \in Jobs : jobStatus[j] \in SettledJobs ~> depStatus[j] \notin ActiveReleases \/ faults > 0

\* A release that was verified as running keeps that status, whichever worker
\* reconciles, fails late or compensates: only the API's start-up takes it away,
\* from a row it read before the release was verified.
VerifiedStaysRunning ==
    [][RecoverInterruptedDeployments
       \/ \A j \in Jobs : depStatus[j] = "running" => depStatus'[j] = "running"]_vars

TicketFor(status) ==
    CASE status = "absent" -> "none"
      [] status = "queued" -> "issued"
      [] OTHER -> "spent"

VerdictFor(status) == IF status \in SettledJobs THEN status ELSE "open"

\* The queue as the owner of a release sees it.
Contract == INSTANCE ReleaseContract WITH
    Releases <- Jobs,
    ticket   <- [j \in Jobs |-> TicketFor(depStatus[j])],
    rollouts <- cloudCalls,
    verdict  <- [j \in Jobs |-> VerdictFor(jobStatus[j])]

\* Tickets are spent once, spent before the cloud is reached, and verdicts are
\* final and truthful, whatever workers and reconciliations do to each other.
KeepsContract == Contract!Spec
=============================================================================
