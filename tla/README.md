# ZeroOps AI: specifications of the release and control plane

TLA+ modules, TLC configurations and TLAPS proofs for the parts of ZeroOps AI
that decide whether a customer's application or cloud is changed, by whom, how
often and on what evidence. The modules are written from the code; a comment above
each definition names the function or statement it stands for, and `PROJECT.json`
gives its lines.

## 1. The system

ZeroOps AI is a FastAPI back end, a Next.js dashboard, a release worker, a set of
virtual machines that run Terraform, three Azure Functions, and PostgreSQL,
Service Bus, Key Vault and Blob storage between them.

```
 dashboard --HTTP--> API (backend/main.py, backend/routes)
                      |  rows: deployments, pipeline_runs, stage attempts, deployment_jobs,
                      |        operation_runs, approvals, workflow_outbox_messages, ...
                      v
                  PostgreSQL  <--poll, lease, heartbeat--  release worker (worker/main.py)
                      |                                       | run_deployment_pipeline
                      | outbox dispatcher                     v
                      v                                   Azure App Service
                  Service Bus --> generation and analysis functions --> plan queue --> VM worker
                      ^                                                            (vmss_main.py)
                      |  event queue <------ events of functions and VM workers ------'
                      v
                  history projector --> operation_runs, activity events, plan results
```

### Components

For each: the state it keeps, its operations, what is hard about it, what makes it
correct. `PROJECT.json` lists the same components with their files and status.

| component | state and operations | hard | correct when |
| --- | --- | --- | --- |
| release queue (`worker/job_queue.py`) | `deployment_jobs`: enqueue, claim with `SKIP LOCKED`, heartbeat, reconcile expired claims | a claim expires under a live worker; the reconciliation acts on a deployment's status that is older than its lock on the job | a release is deployed once, each job settles once and truthfully |
| release worker (`worker/main.py`, `terraform_runner.py`) | the claim in hand, the `lease_lost` event: begin, run the pipeline, mark the job, compensate | everything between two statements can be interrupted | one worker crosses the begin boundary |
| delivery pipeline (`services/pipeline*.py`) | run, 24 stage attempts, deployment status: plan, re-plan, start, pass, stop, roll out, verify, conclude, clean up | an exception from anywhere; the handler itself may be refused | nothing runs over a failed stage; gate and mode are respected |
| releases of a project (`routes/devsecops.py`, `main.py`, `pipeline_approval.py`) | decisions, configuration versions, webhook deliveries: start, approve, reject, retry, rollback, delete, push | requests race with each other, redelivery and the worker | what runs was approved; one release per cause |
| workflow outbox (`services/workflow_outbox.py`) | rows with back-off: enqueue, dispatch in batches | a crash between send and commit; refused messages | at least once, repeats only after a cut-off batch, no starvation |
| Terraform workflow (`services/terraform_workflow.py`, plans in `main.py`) | plan, target, run, cost evidence, approval | loads and saves around waits; approvals expire, retries meet earlier selves | the proof of an apply is of exactly this plan and target |
| Terraform executor (`worker/vmss_main.py` and its adapters) | locks, blob leases, receipts, claims, saved plans | redelivery, leases lost under a running tool, crashes | an approved plan is applied once, and events are true |
| functions (`functions/*`) | stored inputs and results, messages | redelivery, a model that answers differently | what is shown is what is stored |
| history (`history_store.py`, `services/history.py`) | operation runs, activity events | late, duplicated, reordered events of several attempts, two kinds of writers | status follows from the events |
| repository analysis (`services/repository_workflow.py`) | idempotency key, blobs, command | concurrent requests | one run, bound to its inputs |
| ephemeral resources (`services/ephemeral_resources.py`) | a row and what Azure has: provision, extend, delete, reap | minutes of waiting between writes of one row, several processes | nothing outlives its row |
| investigations and model gateway (`pipeline.py`, `model_gateway.py`) | the record of a failed run's investigation: ask, repair, fall back, give up | a late answer against the reconciliation | a diagnosis is genuine, and there is an end |
| start-up, schema, secrets (`main.py`, `database.py`, `vault.py`) | versions, flag `database_available`, variables in table and vault | several processes, `create_all` outside the lock | applied once, served complete, secret kept |
| workspaces (`routes/workspaces.py`) | members, roles, invitations | stale memberships, row locks in different orders | an owner remains, an invitation is used once |
| incidents and remediation (`routes/devsecops.py`, `incident_detection.py`) | samples, incidents, proposals, executions | reads without locks, late samples | one open incident, closed stays closed |
| cloud connections (`main.py`, `azure_connector.py`, `deployment_targets.py`) | row, secret, fingerprint | two stores without a common transaction | a verified row was validated and fits its secret |
| change detection (`change_detection.py`, `pipeline_evidence.py`) | snapshots, analyses | overlapping runs, missing Git evidence | reuse is sound, nothing relevant hidden |
| repository checks, scans (`repository_checks.py`, `repository_executor.py`, `security_scanner.py`) | commands, containers, findings | Docker calls that fail half-way, caps and de-duplication | verdicts complete, the worst finding decides |
| accounts, billing, notifications, dashboard, infrastructure code | single rows, pure I/O | no second actor | not modelled |

## 2. Modules

A module states one component; a composing module lets components share a run or
checks one against another. `MC*` modules only give sets to TLC, `*Proofs` modules
hold theorems.

| module | models | checked through | proved in |
| --- | --- | --- | --- |
| `ReleaseVocabulary` | statuses, legal transitions, dispositions of expired claims, outcome of a pipeline | users below | users below |
| `DeploymentQueue`, `ReleaseContract` | queue, workers, heartbeats, reconciliations, API start-up; the abstract promise to an owner | `MCDeploymentQueue` | `DeploymentQueueProofs` |
| `PipelineRun`, `PipelineInQueue` | the 24-stage program; its refinement of the queue's outline | `MCPipelineInQueue` | `PipelineRunProofs` |
| `ReleaseControl` | the releases of one project across requests, pushes, plans and deletions | `MCReleaseControl` | `ReleaseControlProofs` |
| `TerraformExecutor` | plan and apply job from delivery to settlement | `MCTerraformExecutor` | `TerraformExecutorProofs` |
| `HistoryProjection` | projectors and API writing one run's timeline | `MCHistoryProjection` | `HistoryProjectionProofs` |
| `TerraformWorkflow` | plan, target, generation, evidence, approval, proof of an apply | `MCTerraformWorkflow` | `TerraformWorkflowProofs` |
| `WorkflowOutbox`, `RepositoryAnalysis`, composed by `WorkflowCommands` | dispatch of commands; one analysis from request to history | `WorkflowCommands` | `ApiProcessProofs` |
| `EphemeralResources`, `Investigations` (over `ModelGateway`), composed by `Maintenance` | what the maintenance task looks after | `MCMaintenance` | `ApiProcessProofs` |
| `SchemaUpgrade`, `ProjectSecrets`, composed by `ApiStartUp` | a process from start to requests | `MCApiStartUp` | `ApiProcessProofs` |
| `Workspaces`, `Remediation`, `CloudConnections`, composed by `WorkspaceRecords` | records written by overlapping requests | `MCWorkspaceRecords` | `WorkspaceRecordsProofs` |
| `ChangeDetection`, `RepositoryChecks`, `SecurityScans`, composed by `SourceEvidence` | what a run establishes about its source | `MCSourceEvidence`, `MCChangeDetection` | `PipelineRunProofs` |

`Maintenance`, `WorkspaceRecords`, `SourceEvidence` and `WorkflowCommands` put
components that share no row into one run: a behaviour is about one of them.
`ApiStartUp` really composes: a process moves secrets only on the schema that it
brought up to date, and its requests are the ones that create and delete variables.

### DeploymentQueue

A job and its deployment are created together, so both are functions of `Jobs`.
`jobStatus`, `attemptCount`, `leaseToken`, `leaseExpired` are the job row;
`depStatus` and `runStatus` the deployment and run rows; `cloudCalls` counts calls
of `app_service.deploy_image`. A worker is a program counter, a claim and its
`lease_lost` event. What the code identifies by a fresh UUID is identified by the
attempt that minted it. Time is reduced to whether the lease has expired. Each
action is one committed statement or one exception.

*Reconciliation is two steps* (`PollQueue`/`ApiStart`, then `RecoverStaleJobs`/
`RecoverInterruptedDeployments`): the SELECT reads the deployment under its
statement snapshot and locks only job rows, so what is applied is the status of the
snapshot (`scan`) to rows that are still stale when they are locked. *So is the end of
a job* (`ReadOutcome`, then `RecordOutcome`): `execute_job` reads deployment and run in
one transaction and settles the job in the next, and a rejection, a reconciliation or
the API's start-up may come in between. *The API
uses its own disposition*: `backend/main.py:513` imports from `worker.queue`, which
does not exist, so the function of the `except` clause is the one that runs.

Left out: `worker_id`, `failure_reason`, `live_url`, timestamps, `projects.status`
and `decision_evaluations.status` (no guard reads them), the claim order, the
recovery batch size (25), `update_job_status`, `receive_worker_event`.

### PipelineRun and PipelineInQueue

A stage is its `stage_order`. `stage`, `run`, `current`, `release` and `decision`
are the persisted columns; `pc` is the place in `run_deployment_pipeline`,
`stopAs` the status of the exception on its way to the handler. `Due(s)` is the
walk through the stages in order; `RunStage`, `PassStage`, `StopStage`,
`RefuseStage`, `ContinueDemo` and `AwaitApproval` are what the code does with one;
`Abort` is every other exception; `HandleFailure` is the handler, one transaction
that is undone as a whole when the run's transition is refused. `Init` ranges over
every configuration, over infrastructure the request knew of, and over evidence
that verifies or does not. The environment step `FailRelease` stands for what
reconciliations and the calling worker write to the deployment, which test its status as
they write; `ApiStart` and `RecoverInterruptedDeployments` for the API's start-up, which
decides on rows that it loaded earlier and writes by primary key. `PipelineInQueue` maps the program to the outline that
the queue's worker follows.

Left out: stage evidence and scans (`SourceEvidence`), log lines, notifications;
the AKS branch (`pipeline.py:1551-1555` always asks for App Service).

### ReleaseControl

`releases` lists the deployments of a project with their runs in order of creation:
commit, configuration version, plan revision, status, decision, and what they
answer (`origin`, `of`). `req[q]` is what an open request has read before it waits
for GitHub, Azure or a row lock; `Locked` is the row lock of a decision.
`Configure`, `EditPlan`, `ApprovePlan`, `Push`, `Owner`, `Webhook` and `Work` are
the owner's changes, GitHub's deliveries, the endpoints and the worker. All App
Service releases of a project share one web app, `app`. How a worker obtains or
loses a release is `DeploymentQueue`'s matter.

### TerraformExecutor

One workflow has one plan job and one apply job, on two session queues, and one
Terraform state. `message`, `holder`, `deliveries` are what the broker knows of a
job's message; `lease` is the worker's own blob lease, `stateLock` Terraform's;
`receipt`, `claimed` and `saved` are blobs; `events` the workflow events sent. `pc`
is the place in `_process_message`, `reason` the exception on its way out of the
`with` block, which `lease.__exit__` may replace. A saved plan is named by the
delivery of the plan job that made it, and `serial` counts changes of the state.
External, from how the worker uses them: peek-locks that lapse, `max_delivery_count`,
blob leases, Terraform's refusal of a saved plan whose state has changed. The SDK
counts deliveries from 0, so `delivery_count >= 4` is met on the last delivery:
`GiveUpAt`. Left out: malformed envelopes, guardrails (gate failures), the health
endpoint.

### HistoryProjection

`queue` is the session of one run, whose head is delivered again and again until it
is settled or dead-lettered (`buried`); `rows` are the activity events, `run` the
status, last attempt and `completed_at` of the operation. Projectors and API
requests each read (`seen`) and write under the advisory lock `lock`. Events carry
attempt, kind and the clock at which they were stamped; a redelivered job sends its
events again, with the same ids and perhaps another time.

### TerraformWorkflow

`plan` is the row of the one plan, `snap` what each request has loaded of it,
`target` the active connection. `runs[r]` is the operation run of revision `r`
(the idempotency key), bound to the digest and the target; `result`, `cost`,
`fresh`, `approval` its rows; `consent` an approval between its reads and its
commit, which is also the row lock. `Dispatch` is the outbox's interface,
`Generation*`, `PlanEnds` and `ApplyEnds` those of function and executor, `Project`
that of the history. `jobTarget` is the target that the inputs of the plan job were made
for when its command was enqueued, and `orphaned` the runs that were committed without a
command: a later request may queue one for another target. `applied` records what really
happened in Azure, which is what the saved plan was made for, whatever the approval says. `Flush` says
what SQLAlchemy does with an assignment: nothing, if the loaded value is assigned.

### WorkflowOutbox, RepositoryAnalysis

A row's `wait` is `next_attempt_at - now`; a dispatcher has rows to send, sent and
refused ones, all uncommitted until `Commit`; `CutOff` loses the batch and its
locks. An analysis goes from `caller` (scan, advisory lock, stored inputs) over
`record` (the transaction) and `job` to `worker`, `results`, `events` and `shown`.

### Maintenance

`EphemeralResources`: `resource`, the row with its remaining time; in Azure the
deployment (`azure`), what it has yet to create (`awaited`) and what exists (`present`);
and where each provisioning, deletion and reaper task stands. A deletion goes call by
call, the template's resources (`Managed`) first and the deployment last, and the
deployment may create one behind it (`missed`). A call may fail, or take effect without
an answer.
`Investigations`: the row, whether it is older than 15 minutes, the worker that asks
`ModelGateway` and the daemons that give up.

### ApiStartUp

`SchemaUpgrade` follows each process and each request through `init_db`: connect,
`create_all` outside the lock, the advisory lock, the fourteen versions and the
compatibility block; columns are named where a version adds or uses them.
`ProjectSecrets` has every call of the vault as a step of its own.

### WorkspaceRecords

`Workspaces` takes a request apart at its load, its wait for a row lock and its
commit, with the `FOR KEY SHARE` that inserting a membership takes. `Remediation`
keeps samples, incidents, proposals and executions; two of the eight rules stand
for their kinds. `CloudConnections` has row, secret and compensation, with
calls and commits that fail or take effect without an answer and the variable
`AZURE_CLIENT_SECRET` for a vault that cannot be read (`FallbackSecret`), and records in
`excuses` what the handlers do not compensate.

### SourceEvidence

`ChangeDetection` classifies the files of a commit (one per kind the classifier
tells apart) and compares them with the newest snapshot, with or without Git
evidence. `RepositoryChecks` plans commands from manifests and runs them in
containers or, in a demonstration, in place; `Programs` are those that may really run for
a command, which in a demonstration need not be the one it names. `SecurityScans` takes one report to
findings and to the stage's end.

## 3. Runs

Each run asks one question of one module or composition.

| run | question | instance |
| --- | --- | --- |
| `queue` | does a release reach the cloud once, do job, deployment and workers tell one story, is the contract kept, is every job settled | 1 job, 2 workers, 2 attempts, 2 faults, 1 API start-up |
| `run_lifecycle` | what does a run leave behind, was its rollout authorised, is finished history left alone, does it settle, does it fit the queue's outline | every mode with and without its switchable checks, 1 fault, any number of API start-ups |
| `executor` | is an approved plan applied once, are events, receipts and settled messages true | 2 workers, 2 deliveries, 2 faults |
| `history` | do writers of a timeline exclude each other, is a terminal status final, does the queue drain | 2 projectors and the API, 2 attempts, 2 deliveries, 4 events, 1 fault |
| `workflow` | is the proof of an apply exact, does an approval go on to stand for what was seen | 1 planner, 1 approver, 3 targets (one another's twin), 1 edit, 3 reconnections, 3 of the two together, 2 evidence refreshes, 1 fault |
| `release` | is there one release per push and per approval, does the web app run what was approved | 2 requests, 2 deliveries, 2 commits, 2 releases, 1 change |
| `maintenance` | is every resource destroyed and none forgotten, is a diagnosis genuine, does an investigation end | 2 API processes, 1 reaper, 1 resource in the template, lifetime 2, 1 stop of a process |
| `start_up` | is each version applied once and before it is served, is a legacy secret kept, is every process ready in the end | 2 processes, 2 requests, 2 faults, 1 row, 1 refusal of the vault |
| `records` | do memberships, incidents and connections survive overlapping requests | 2 users, 2 requests, 2 invitations, 2 collectors, window 2, 2 incidents, a fallback secret |
| `source_evidence` | when may evidence be reused, are verdicts complete, are containers removed, does the worst finding decide | 3 runs, 3 commits, 3 commands, 2 outages of Docker, 3 reported findings of which 2 are kept |
| `commands` | is every command sent and repeated only after a crash, is what is shown of an analysis stored, does it end | 3 commands, 2 dispatchers with batches of 1, 1 crash; 2 callers, 2 workers, 2 deliveries, 2 failures |
| `change_detection_rerun` | does every run keep its own evidence (section 6: it does not) | 3 runs, 3 commits |

**Why the bounds are enough to see the interesting cases.** Two of a kind (workers,
projectors, processes, requests) are the fewest that overlap, with a stale and a
current owner among them. Two attempts or deliveries are the fewest with a
repetition, and the second is also the last. In `queue` two faults let both owners
die, or one die and the other's failure handler be refused; in `executor` they are
the fewest that put two workers into one job, a lapsed peek-lock and a lapsed lease.
In `history` four sends repeat an event under another stamp and let a second attempt
begin. `workflow` has a target that is reconnected with the same identity (the
twin) and one that is not, and reconnections to leave the first target, queue for its twin
and come back. An edit beside all three reconnections (3.9 million states) and two
requests on the plan at once with one reconnection (2.1 million) were checked too. `maintenance` has one resource in the template; two,
with three tasks, were checked for safety (1.6 million). `release` needs two releases for an approval and its
successor. `source_evidence` needs three commits for a chain of reused evidence and
one finding more than is retained for truncation. `commands` has a batch smaller
than the rows due, so that a refused row can stand in the way of others.

The theorems of section 4 remove the bounds from every safety property of these
runs, except the counterexample. Before they were proved, the invariants they use were
checked by TLC on instances of the size of the runs or, where a run's liveness properties
keep it small, larger. The largest runs are `release` with 2.9 million distinct states up
to symmetry, `records` with 2.7 million, `workflow` with 1.2 million, `source_evidence` with
0.7 million, and, with liveness, `queue` with 0.3 million and `maintenance` with 0.2 million.

`CHECK_DEADLOCK FALSE` is given wherever the bounds let a system come to rest: a
run has ended, messages are used up, nobody asks again. The queue alone may never
stop: its workers poll for ever. Symmetry is declared in runs without liveness
properties only.

### Fairness

Liveness is checked under the fairness that the code's scheduling justifies, and
nothing is assumed of users, crashes, restarts or heartbeats.

* *Queue*: weak fairness of each worker's loop (the process or its replacement goes
  on), of lease expiry (time passes), of the API's open transaction.
* *Run*: weak fairness of the program; nobody has to decide about a waiting run.
* *History*: weak fairness of each projector's next step and of the end of an API
  transaction that has the lock.
* *Maintenance*: weak fairness of each task, of the end of a deployment and of the
  clock; that Azure does not go on for ever failing to delete, which a retry of the reaper
  needs; strong fairness of giving up a stale investigation, which a late answer may
  disable for a while.
* *Start-up*: weak fairness of each process; strong fairness of taking the advisory
  lock, which the database grants in turn.
* *Outbox*: weak fairness of the dispatchers' turns, and that the broker does not
  refuse a command every time, except those it refuses for ever (`poison`).
* *Analysis*: weak fairness of the next step of function, broker or projector.

## 4. What is proved

TLAPS checks the theorems listed in `PROJECT.json` for every value of the constants
that satisfies the named assumptions: bounds in `Nat` (attempts and deliveries above
0), distinct names, inputs of the stated shape. The sets of jobs, workers, callers
or requests may be of any size, infinite too, unless an assumption says otherwise.
Each module of proofs has the same plan: an inductive invariant made of named parts,
a lemma per action (for the parts that the action can disturb), and the properties
as consequences.

| module | proves | of the run's properties |
| --- | --- | --- |
| `DeploymentQueueProofs` | safety, the action properties, the refinement of `ReleaseContract` | `QueueIsConsistent`, `RolledOutAtMostOnce`, `VerifiedStaysRunning`, `KeepsContract` |
| `PipelineRunProofs` | safety, immutability of history, the refinement of the queue's outline; safety of the evidence a run decides by | `RunIsConsistent`, `RolloutIsAuthorised`, `HistoryIsImmutable`, `FollowsTheQueue`; `ReuseIsSound`, `RelevantChangesAreSeen`, `VerdictsAreComplete`, `ContainersAreRemoved`, `WorstDecides` |
| `TerraformExecutorProofs` | safety | `AppliedAtMostOnce`, `ReportsAreTrue` |
| `HistoryProjectionProofs` | safety and the finality of a terminal status | `HistoryIsSound`, `TerminalIsFinal` |
| `TerraformWorkflowProofs` | safety | `ApprovalsAreSound`, `ProofIsExact` |
| `ReleaseControlProofs` | safety | `OneReleasePerCause`, `ServesWhatWasApproved` |
| `ApiProcessProofs` | safety of what an API process does beside its requests: outbox and analysis, alone and composed, resources, diagnoses, schema and secrets | `RepeatsAreCutOffs`, `ShownIsStored`; `ResourcesAreSound`, `DiagnosisIsGenuine`, `SchemaIsSound`, `SecretIsKept` |
| `WorkspaceRecordsProofs` | safety of members, incidents and connections, alone and composed, and that closed incidents stay closed | `MembershipIsSound`, `IncidentsAreSound`, `ClosedStaysClosed`, `VerifiedIsUsable` |

**The queue.** `RolledOutAtMostOnce` is not inductive: it says nothing about a
worker that is about to roll out. The invariant adds who may. A worker from `enter`
until its rollout *holds the ticket* of its release: it moved the deployment out of
`queued`, so `TicketIsSpent`, and since no one else can do so again,
`OneTicketHolder`. `RolloutsMatchPhase` says how many rollouts a release can have
received given where its ticket holder stands; `ScanIsStillTrue` and `StoppedIsQuiet`
say what a snapshot or a stopped deployment still guarantees when it is used;
`AbsentIsPristine` and `ClaimsAJob` tie the rows to the workers. The lease is hardly
used: what makes a release unique is the conditional update of `_begin_pipeline`,
which is why a lost lease is harmless before it, and why its absence in the later
writes does not double a rollout. `ReadingStands` says that what a worker read of its release before it
completes the job is still so when it does, or the job was settled meanwhile.
`VerifiedStaysRunning` needs the same invariant: a
deployment shown as running has a succeeded run, so the failure handler of its own
worker is refused, and no other worker is inside its pipeline. `Implements` maps each action to a step of `ReleaseContract` or a stutter.

**The run.** `Safe` consists of the frontier (`Frontier`: every stage before the one
in hand is finished, every later one untouched), what the program counter says of
the run (`EntryIsFresh`, `RunMatchesProgram`, `PlanningIsEarly`), what may be skipped
(`SkipsFitTheMode`, `ValidationIsPlannedAway`), and what a rollout, a pass of the
gate and a wait imply (`RolloutFitsTheStage`, `NothingPassesUnproven`,
`WaitsOnlyAtTheGate`). The guard `PredecessorsComplete` re-establishes the frontier
at each start; the failure handler closes it.

**From the run to the queue.** `RefinesTheOutline` shows that `DeploymentQueue`,
whose pipeline is five phases, and `PipelineRun`, whose program is 24 stages, are about
the same worker. The mapping gives every variable of the queue its value for one
release and one worker. It needs one fact more than the types, `PhaseTells`: a run
that concludes without a rollout is a validation. `QueueStops`, `QueueEnters` and
`QueueStopsAtTheDoor` say which queue action a failure maps to, depending on whether
the program had begun.

**The executor.** Work is named by the delivery that brought it (`WorkIsDistinct`),
so what two workers save never collides, although both may be past the lease.
`PhasesAreEarned` says what a worker's place in the program rests on;
`EarlyIsUnpublished` and `SavedIsOld` say that a plan does not change after it was
reported; `ApprovedIsFixed` that an approved plan was made before anything was
applied. An apply moves `serial`, and Terraform refuses a saved plan of an older
serial: that is what one apply rests on, not on lease, claim or receipt, none of
which excludes a second worker.

**The history.** `LockIsHeld` and `ReadIsCurrent` say that the advisory lock makes
read and write one step, for projectors and API alike. `SessionHasHead` ties a
projector to the queue's head. `StartedComesFirst` says that in rows, queue and hand
no event of an attempt comes before its `started` event, unless that one was
dead-lettered; `RunFollowsRows` and `RunTellsItsHistory` then determine the status.
TLC refuted an earlier form of the last: `completed_at` outlives a terminal status
when the next attempt's `started` event was dead-lettered, because only that event
clears it (`history_store.py:437`, `708-712`). The property now says so.

**The Terraform workflow.** `ConsentsHold` is the heart: what an approval checked
before its commit still holds at the commit, for the rows that it has locked. It
does not hold of plan and target, which are read without a lock, and the proof does
not need it to, because the proof of an apply is compared with both when it is asked
for. `RevisionsAreCounted` bounds stale snapshots, `RunsAreReviewed` says whose data a
run is bound to, `ApprovalsStand` that evidence stays put, `TargetsAgree` that the inputs of
a plan job are for its run's own target unless the run was committed without its command,
`AppliesHappened` that what is shown was approved and done.

**The releases.** `DecisionsAreOpen` says what a request that holds a decision's lock
may rely on after its waits; `ApprovalsRepeat` and `ConsumedIsReleased` pair each
consumed approval with its successor; `OneEach` is uniqueness, and `GateIsPassed`
that nothing else gets past the gate, even after its row was deleted and the web
app still runs it. `RoomIsReserved` bounds the releases under way; its proof needs
the theorems on cardinality.

**Commands.** In the outbox an accepted command is recorded, in one batch, or was
lost with a batch that a crash cut off (`EveryRepeatHasACrash`), and a row is in one
batch at a time (`RowsAreApart`): so a command is accepted at most once more than
there were crashes. In the analysis `OneBinding` says that the advisory lock lets one
request record the run; `WorkIsGenuine` and `EventsAreGenuine` that a worker's result
and every event rest on stored results made of that request's facts; `StatusIsShown`
ties the status to an event. TLC checked the invariant on 200 412 states before
it was proved.

**Workspace records.** The three components are consistent for three different reasons.
*Members*: a request acts on a role from before its lock, so the invariant says what it
does know (`RequestsKnow`): the caller once had the role it needs, and who holds the
workspace to invite a person keeps that person out. What is checked again under the lock
(`RowsFit`: an owner remains, one pending invitation each) follows from that. *Incidents*:
nothing is locked. `LookedWell` says that a condition without an open incident when it was
looked for has none at the commit, because incidents only close (`OnlyCloses`) and posts
are assumed not to overlap; `ExecutionsRun` that an execution under way belongs to one
request, whose number the unique key gave it, so `RecordStays`: what passed is on record for
good, and a resolved incident points to it. *Connection*: that a verified row was validated
needs no assumption about overlaps, since a fingerprint is only ever written with the
settings that Azure confirmed (`RowsAreGenuine`), and a commit that mixes columns of two
requests leaves a fingerprint that fits none or one. That the secret fits needs `excuses = {}`:
then at most one request is under way, what it loaded is what is there (`UpToDate`), and
between store and commit the vault fits the new row and `previous` the old one (`Between`).
`HasLatest` states that a finite set of rows has a latest one, which the choice in
`ActiveConnection` relies on, as an invariant, because the provers cannot do the induction.

**Maintenance.** What a deletion removes stays away only if nothing is deployed after it.
So the invariant orders them: `DeletionsAreLast` says that while a task deletes, none is
about to deploy, `PassedIsGone` that of what a deletion has passed only what it missed
exists, `AwaitedOfTheDeployment` that only a running deployment creates, and
`DeletedStaysGone` and `DestroyedStaysGone` what follows when a deletion has concluded. They
hold unless a deletion was over before Azure had all of the resource (`early`): it began
while a request was still about to ask Azure, or it had passed what the deployment created
afterwards. The property excepts both because the code does them. The bound of
48 hours is that of each extension (`Extended`) against the age of the row. A diagnosis
is genuine because of the gateway alone (`ModelAnswersSatisfyTheContract`: it calls an
answer the model's only if the answer or its one repair satisfied the contract); that one
with an error came late follows from `GivenUpWhenOld`.

**Start-up.** *Schema*: `MissingIsMissing` says that what the holder of the advisory lock
has read as missing is missing until it commits, which is why a version is applied once.
That production serves whole schemas only does not follow from the flag
`database_available`: a request may clear it, and one that finds it cleared may skip the
migrations. It follows from `FlagWhileStarting` and `UpIsFull`: in production nothing
clears the flag of a process before it has requests, so a process that is up has been
through the migrations, and a schema never shrinks. *Secrets*: a value is in its row or
in the vault; the invariant says that whoever is about to clear or to insert a row without
its value has filled the vault before (`MovedIsKept`, `StoredIsKept`), and that the vault
does not become empty but by a deletion of that name.

**The source evidence.** *Reuse*: a decision is made from one baseline and recorded later,
when newer snapshots may exist, so the invariant says what a decision knew
(`DecisionsStand`: it stands for its two commits) and what a link of a chain means
(`LinksAreSound`: both ends have the same architecture). That the origin at the end of a
chain has it too is an induction over the chain; so is that there is an origin at all
(`OriginsExist`), since a recursive function is only worth its equation if some function
satisfies it. *Changes*: `RelevantChangesAreSeen` is about any two commits, and rests on the
fingerprints alone, because Git's evidence may be missing: for each kind of file that
matters, some field that is compared differs.

**Checks and scans.** *Containers*: the executor knows what it holds and what it prepares
(`Known`), and whatever else exists was lost by an outage that is counted (`KnownOrLost`).
*Verdicts*: a stage that passed has nothing left out for two reasons. What its manifests ask
for is planned: `PlannedCommands` and `PlansLeaveNothingOut` say, for every tree, that the
lists of names, the joined lists of components and the list without repetitions lose no
member. And what is planned is done or still to be done while the stage is at work
(`WorkIsPlanned`), the empty list being the only way to pass (`PassedAreDone`). That each
command had a container of its own (`EachOnItsOwn`) needs the attestation
(`NewContainer`: a container in hand is of this stage and this source and has run nothing).
*Scans*: the findings kept are the worst, in the order of their severity and cut off at the
end (`WorstFirst`), so one that was left out is no worse than any that is on record, and the
verdict was formed before the cut. *Skipped stages*: `IncapableIsNotAsked` says that where no
component is capable of a stage, no readable manifest asks for one.

*Induction.* The provers cannot use the library's induction rules, which take an operator.
`NaturalsByInduction` states induction for a set instead, and follows from the theorem on
well-founded sets that has no such parameter: a property of all lists, or of all chains,
is the set of lengths for which it holds. This is how the recursive functions and folds
that the models use (`Origin`, `At`, `FlattenSeq`) are shown to be defined and to do what
is needed of them.

**Only model-checked.** Liveness under fairness is outside TLAPS here:
`EveryJobSettles`, `EveryReleaseEnds`, `StartedRunSettles`, `QueueDrains`,
`ResourceIsDestroyed`, `InvestigationEnds`, `EveryProcessIsReady`, `EveryCommandIsSent`,
`QueuedAnalysisEnds`. Every safety property of a passing run is proved.

## 5. Mutants

Every property of a passing run has a mutant: a mapped definition with a plausible
error (an unfenced update, an off-by-one in the attempts, a lock that is not taken, a
handler that forgets the stages it never reached), under which TLC finds the property
violated. The mutated form stands before the definition it replaces.

## 6. Where the code and its documents disagree

The run `change_detection_rerun` has a counterexample for a document's claim:
`docs/change-detection.md` lets two runs of one commit keep separate evidence, but a
snapshot is unique per project, commit and fingerprint (`models.py:1771`) and looked
for only in the newest place (`pipeline.py:1106-1111`). A run whose commit was
overtaken, or two runs of one commit at once, lose their evidence and fail.

Disagreements met while reading and modelling; the models follow the code:

* `docs/pipeline.md:53-56` says that the lease fences a stale worker; the pipeline
  writes the deployment by primary key (`pipeline.py:2022` and others).
* `stale_job_disposition` says replay is withheld once building; the reconciliation
  acts on a status older than its lock (`job_queue.py:166`).
* `find_completed_apply_for_plan` returns proof "only when the current plan and target were
  applied exactly" (`terraform_workflow.py:156`). The run is created for the target of its
  first request, and its command is queued in a later transaction: when that fails, a
  request after a reconnection queues the command for the new target, the owner connects
  the first target again, approves, and gets the proof of what was applied to the other.
  `ProofIsExact` excepts such runs (`orphaned`).
* A demonstration on a host without `pytest` runs `python`, which has nothing to read and
  succeeds: the stage of the tests passes without a test (`demo_executor.py:115`).
* `docs/pipeline.md:161-167, 221` say that no executor is passed to the repository
  stages; `terraform_runner.py:871` passes one.
* A run that fails before its source stage keeps every stage queued, because the
  handler's own transition is refused (`pipeline.py:2364`).
* A demonstration logs that it is continuing, and its next stage is refused
  (`pipeline.py:822`).
* A successor whose evidence does not verify waits with the decision `approved`, which
  neither endpoint accepts (`devsecops.py:1665, 1872`).
* The runbook ends each executor job with an event; an exception of no known class on
  the last delivery dead-letters the message without one (`vmss_main.py:176`).
* `migrations/README` has each version in its transaction; all run in one. Version 6
  uses a column that the compatibility block adds later.
* `docs/monitoring.md:115-117` allows one open incident per condition; two posts that
  overlap and see different windows open two.
* An edit of a plan by chat keeps an approval given meanwhile (`main.py:3793-3814`).
* The time to live of an ephemeral resource does not hold after a crash in a deletion
  (`ephemeral_resources.py:463, 621`).

## 7. Limits

**Exceptions that properties state**, because the code does these things and no
document excludes them: the API's start-up may turn `running` into `failed`
(`VerifiedStaysRunning`), and the release of a run that waits or was rejected likewise
(`RunIsConsistent`, `overridden`); a job completed as stopped may belong to a run that was
rejected since (`QueueIsConsistent`); a worker that dies between failing its job and its
deployment leaves the deployment active (`EveryReleaseEnds`), and its run stays
`running` (`StartedRunSettles`); a deletion cut off by a crash is not taken up again, and one
that was over before Azure had all of the resource leaves what the deployment creates
later under a row that says destroyed (`ResourceIsDestroyed`, `ResourcesAreSound`,
`early`); with a
dispatch interval above the longest back-off, refused commands can fill every batch
(`EveryCommandIsSent` is stated of fewer); overlapping connections, and calls to the
vault or the database that take effect although their answer is lost, can leave a secret
without its row or a row without its secret (`VerifiedIsUsable`, `excuses`); a stage that
only an unreadable manifest asks for is skipped, and a demonstration may pass the tests of
Python without running any (`VerdictsAreComplete`).

**Hazards that a property names and does not catch**, because the case is one of these
exceptions: a worker's crash for `EveryReleaseEnds` and `StartedRunSettles`, the last
delivery of an executor's message for `ReportsAreTrue`, two overlapping posts of samples
for `IncidentsAreSound`, more refused commands than a batch holds for `EveryCommandIsSent`.

**Visible in the models, and not stated as properties**: deleting any release takes
down the web app that all releases of a project share; an apply or an analysis that
is reported failed and succeeds when redelivered stays failed (`history_store.py:424`);
a newer-stamped event of the same attempt hides an apply; a blocked push is answered
as a duplicate when it is redelivered; deleting a validation after its approval makes
the successor's gate refuse; the reaper deletes what it selected even if it was
extended meanwhile; a second starting process may overwrite a newer secret
(`main.py:469`); planned tools that the executor's image lacks end as unavailable.

**Not modelled**: accounts, sessions, second factors and billing; notifications; the
dashboard and infrastructure code; rendering of Terraform text and prompts; the AKS
branch, which is never taken; plan guardrails; discovery limits; `receive_worker_event`;
text, formatting and wording throughout. Messages, names and payloads are model
values or flags, a stage's check a nondeterministic verdict, and time is what
comparisons of time can tell apart.

## 8. Open ends

1. The executor as a refinement of an abstract job that is carried out at most once and
   reported, as the queue is of `ReleaseContract`.
2. The rows of accounts, sessions and billing, if they get a second actor.
3. The liveness properties have no proof; the runs check them on the instances of section 3.
