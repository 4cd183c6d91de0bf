-------------------------- MODULE ReleaseVocabulary --------------------------
(***************************************************************************)
(* The statuses the release tables hold and the pure decisions taken on    *)
(* them: which lifecycle transition is legal (pipeline_state.py), what     *)
(* becomes of an expired claim (job_queue.py, and the fallback that        *)
(* backend/main.py really uses) and what a finished pipeline means for its *)
(* job (terraform_runner.py).                                              *)
(***************************************************************************)
EXTENDS Naturals

JobStatuses == {"absent", "queued", "running", "completed", "failed", "cancelled"}
SettledJobs == {"completed", "failed", "cancelled"}

\* Without "rolled_back", which the tables allow and no path writes.
ReleaseStatuses == {"absent", "queued", "building", "deploying", "running", "stopped", "failed"}
ActiveReleases  == {"queued", "building", "deploying"}

\* A row a reconciliation did not select.
NotSelected == "not selected"

-----------------------------------------------------------------------------
(* The lifecycle shared by pipeline runs and stage attempts. *)

ExecutionStatuses ==
    {"queued", "running", "succeeded", "failed", "skipped", "blocked", "unavailable", "cancelled"}

\* _ALLOWED_TRANSITIONS, without the authorized resume no caller asks for.
AllowedTransitions ==
    [s \in ExecutionStatuses |->
        CASE s = "queued"  -> {"running", "skipped", "blocked", "unavailable", "cancelled"}
          [] s = "running" -> {"succeeded", "failed", "blocked", "unavailable", "cancelled"}
          [] s = "blocked" -> {"cancelled"}
          [] OTHER -> {}]

CanTransition(from, to) == from = to \/ to \in AllowedTransitions[from]

-----------------------------------------------------------------------------
(* What an expired claim becomes. *)

Dispositions == {"requeue", "complete", "cancel", "fail"}

\* Mutated form of StaleJobDisposition: one attempt too many.
StaleJobDispositionOffByOne(status, attempts, max) ==
    IF status = "running" THEN "complete"
    ELSE IF status \in {"stopped", "rolled_back"} THEN "cancel"
    ELSE IF status = "queued" /\ attempts <= max THEN "requeue"
    ELSE "fail"

StaleJobDisposition(status, attempts, max) ==
    IF status = "running" THEN "complete"
    ELSE IF status \in {"stopped", "rolled_back"} THEN "cancel"
    ELSE IF status = "queued" /\ attempts < max THEN "requeue"
    ELSE "fail"

\* worker.queue does not exist, so the API always takes the function of its
\* except clause: a stopped release fails its job.
FallbackDisposition(status, attempts, max) ==
    IF status = "queued" /\ attempts < max THEN "requeue"
    ELSE IF status = "running" THEN "complete"
    ELSE IF status = "rolled_back" THEN "cancel"
    ELSE "fail"

DispositionStatus ==
    [requeue |-> "queued", complete |-> "completed", cancel |-> "cancelled", fail |-> "failed"]

-----------------------------------------------------------------------------
(* How a pipeline ends. *)

\* PipelineExecutionError.status, and the one blocked outcome with its own code.
StopOutcomes == {"failed", "blocked", "unavailable", "awaiting_approval"}

\* A blocked run whose failure_code is DEPLOYMENT_APPROVAL_REQUIRED is told
\* apart from the other blocked runs.
RunStates == ExecutionStatuses \cup {"awaiting_approval"}

StatusOf(run) == IF run = "awaiting_approval" THEN "blocked" ELSE run

\* Mutated form of JobOutcome: any blocked run passes for a pending approval.
JobOutcomeFromRun(release, run) ==
    CASE release = "running" /\ run = "succeeded" -> "deployed"
      [] release = "stopped" /\ run = "succeeded" -> "validation_completed"
      [] StatusOf(run) = "blocked" -> "approval_required"
      [] OTHER -> "failed"

JobOutcome(release, run) ==
    CASE release = "running" /\ run = "succeeded" -> "deployed"
      [] release = "stopped" /\ run = "succeeded" -> "validation_completed"
      [] release = "stopped" /\ run = "awaiting_approval" -> "approval_required"
      [] OTHER -> "failed"
=============================================================================
