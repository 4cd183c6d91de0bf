---------------------------- MODULE ReleaseControl ----------------------------
(***************************************************************************)
(* The releases of one project as the API creates, decides and deletes     *)
(* them: manual releases and deletions (backend/main.py), the GitHub push  *)
(* webhook, the pipeline configuration and the approval endpoints          *)
(* (backend/routes/devsecops.py), and the part of the pipeline that        *)
(* depends on them.  Requests read, wait for GitHub, Azure or a row's      *)
(* lock, and commit; several are under way at the same time.               *)
(*                                                                         *)
(* A release stands for its deployment and its pipeline run.  How a worker *)
(* gets it, loses it or fails is DeploymentQueue's and PipelineRun's       *)
(* matter; when an owner's plan has an applied target, TerraformWorkflow's.*)
(* All App Service releases of a project share one web app.                *)
(***************************************************************************)
EXTENDS Naturals, Sequences, FiniteSets

CONSTANTS
    Requests,       \* API requests that can be open at the same time
    Deliveries,     \* GitHub's deliveries of push events
    Configurations, \* what owners configure: [mode, push]
    MaxCommits,     \* bound: commits of the tracked branch
    MaxReleases,    \* bound: releases of the project
    MaxChanges      \* bound: changes of the plan and the configuration

Modes == {"validate_only", "deploy_after_checks", "require_approval"}
ASSUME ConfigurationsAssumption == Configurations \subseteq [mode : Modes, push : BOOLEAN]
ASSUME BoundsAssumption ==
    MaxCommits \in Nat \ {0} /\ MaxReleases \in Nat /\ MaxChanges \in Nat

Ids == 1 .. MaxReleases
Commits == 1 .. MaxCommits

VARIABLES
    head,       \* last commit of the tracked branch
    carries,    \* commit that each delivery announces, 0: not sent
    handled,    \* webhook_deliveries: deliveries with a row
    configs,    \* project_pipeline_configurations by version
    plan,       \* revision and approval of the architecture plan
    releases,   \* deployments with their pipeline_runs, in order of creation
    deleted,    \* releases whose deployment has been deleted: the run stays
    app,        \* release whose image the web app runs, 0: there is no web app
    req         \* what each open request has read

vars == <<head, carries, handled, configs, plan, releases, deleted, app, req>>

\* of: the validation whose approval a release carries, 0 for the others
Origins == {"manual", "push", "approval"}
Versions == 1 .. MaxChanges + 1
Statuses == {"queued", "deploying", "verifying", "running", "failed", "validated", "waiting", "rejected"}
Active == {"queued", "deploying", "verifying"}
Release == [status : Statuses, origin : Origins, of : 0 .. MaxReleases, commit : Commits,
            config : Versions, revision : Versions,
            decision : {"not_required", "pending", "approved", "consumed", "rejected"}]

Known == DOMAIN releases
PlanIsApproved == plan.status = "approved"

Mode(i) == configs[releases[i].config].mode
Live(i) == i \in Known \ deleted

Kinds == {"push", "deploy", "approve", "reject", "delete", "forget"}
NoRequest == [kind |-> "none", on |-> 0, commit |-> 1, config |-> 1, revision |-> 1]

Init ==
    /\ head = 1
    /\ carries = [d \in Deliveries |-> 0]
    /\ handled = {}
    /\ configs \in {<<c>> : c \in Configurations}
    /\ plan = [revision |-> 1, status |-> "approved"]
    /\ releases = <<>> /\ deleted = {}
    /\ app = 0
    /\ req = [q \in Requests |-> NoRequest]

Open(q, kind, on, commit) ==
    /\ req[q] = NoRequest
    /\ req' = [req EXCEPT ![q] = [kind |-> kind, on |-> on, commit |-> commit,
                                  config |-> Len(configs), revision |-> plan.revision]]
    /\ UNCHANGED <<head, carries, handled, configs, plan, releases, deleted, app>>

Close(q) == req' = [req EXCEPT ![q] = NoRequest]

\* A release the open requests still may create counts towards the bound.
Creating == {q \in Requests : req[q].kind \in {"push", "deploy", "approve"}}
RoomForOne == Len(releases) + Cardinality(Creating) < MaxReleases

NewRelease(q, origin, of, commit) ==
    [status |-> "queued", origin |-> origin, of |-> of, commit |-> commit,
     config |-> req[q].config, revision |-> req[q].revision,
     decision |-> IF origin = "approval" THEN "approved"
                  ELSE IF configs[req[q].config].mode = "require_approval" THEN "pending" ELSE "not_required"]

-----------------------------------------------------------------------------
\* GitHub announces a new commit, or the last one again in another delivery.
Push(d) ==
    /\ carries[d] = 0
    /\ head' \in {head, head + 1} \cap Commits
    /\ carries' = [carries EXCEPT ![d] = head']
    /\ UNCHANGED <<handled, configs, plan, releases, deleted, app, req>>

MayChange == Len(configs) + plan.revision < MaxChanges + 2

\* update_pipeline_configuration; uq on the version makes one of two racing
\* updates fail.
Configure ==
    /\ MayChange
    /\ \E c \in Configurations : configs' = Append(configs, c)
    /\ UNCHANGED <<head, carries, handled, plan, releases, deleted, app, req>>

\* The architecture plan is changed, and approved again (TerraformWorkflow).
EditPlan ==
    /\ MayChange
    /\ plan' = [revision |-> plan.revision + 1, status |-> "draft"]
    /\ UNCHANGED <<head, carries, handled, configs, releases, deleted, app, req>>

ApprovePlan ==
    /\ ~PlanIsApproved
    /\ plan' = [plan EXCEPT !.status = "approved"]
    /\ UNCHANGED <<head, carries, handled, configs, releases, deleted, app, req>>

-----------------------------------------------------------------------------
\* start_deploy: the branch is resolved to a commit, the plan must be approved.
OpenDeploy(q) == PlanIsApproved /\ RoomForOne /\ Open(q, "deploy", 0, head)

CommitDeploy(q) ==
    /\ req[q].kind = "deploy"
    /\ releases' = Append(releases, NewRelease(q, "manual", 0, req[q].commit))
    /\ Close(q)
    /\ UNCHANGED <<head, carries, handled, configs, plan, deleted, app>>

\* Runs under the idempotency key push:project:commit.
PushedRuns(commit) == {i \in Known : releases[i].origin = "push" /\ releases[i].commit = commit}

\* The webhook_deliveries row is inserted first: another request with this delivery
\* waits for it.
Inserted(d) == d \in handled \/ \E q \in Requests : req[q].kind = "push" /\ req[q].on = d

PushEnabled == configs[Len(configs)].push

\* github_push_webhook answers duplicates at once and records a delivery that is
\* disabled, whose commit has a run, or that finds no approved plan.
IgnorePush(d) ==
    /\ carries[d] # 0 /\ ~Inserted(d)
    /\ ~PushEnabled \/ PushedRuns(carries[d]) # {} \/ ~PlanIsApproved
    /\ handled' = handled \cup {d}
    /\ UNCHANGED <<head, carries, configs, plan, releases, deleted, app, req>>

OpenPush(q, d) ==
    /\ carries[d] # 0 /\ ~Inserted(d)
    /\ PushEnabled /\ PushedRuns(carries[d]) = {} /\ PlanIsApproved
    /\ RoomForOne
    /\ Open(q, "push", d, carries[d])

\* Mutant of KeyIsFree: the read that looked for an existing run is all there is.
KeyWasFree(commit) == TRUE

\* uq_pipeline_runs_tenant_idempotency, when the run is inserted.
KeyIsFree(commit) == PushedRuns(commit) = {}

\* Everything is committed together.
CommitPush(q) ==
    /\ req[q].kind = "push"
    /\ KeyIsFree(req[q].commit)
    /\ releases' = Append(releases, NewRelease(q, "push", 0, req[q].commit))
    /\ handled' = handled \cup {req[q].on}
    /\ Close(q)
    /\ UNCHANGED <<head, carries, configs, plan, deleted, app>>

\* Preflight blocks a push for good: no connected target, no proof of an apply.
BlockPush(q) ==
    /\ req[q].kind = "push"
    /\ handled' = handled \cup {req[q].on}
    /\ Close(q)
    /\ UNCHANGED <<head, carries, configs, plan, releases, deleted, app>>

-----------------------------------------------------------------------------
\* Mutant of Locked: the rows are read without FOR UPDATE.
LockedByNobody(i) == FALSE

\* _owned_approval_run selects run and deployment FOR UPDATE.
Locked(i) == \E q \in Requests : req[q].kind \in {"approve", "reject"} /\ req[q].on = i

\* _approval_ready_stages: the run is blocked at its gate, the release stopped.
Decidable(i) == Live(i) /\ releases[i].status = "waiting" /\ releases[i].decision = "pending"

\* _exact_approval_inputs: plan and configuration are still the validated ones.
OpenApprove(q, i) ==
    /\ Decidable(i) /\ ~Locked(i)
    /\ PlanIsApproved /\ releases[i].revision = plan.revision
    /\ releases[i].config = Len(configs)
    /\ RoomForOne
    /\ Open(q, "approve", i, releases[i].commit)

\* A fresh release with signed evidence, and the decision is consumed.
CommitApprove(q) ==
    LET i == req[q].on IN
    /\ req[q].kind = "approve"
    /\ releases' = Append([releases EXCEPT ![i].decision = "consumed"],
                          NewRelease(q, "approval", i, releases[i].commit))
    /\ Close(q)
    /\ UNCHANGED <<head, carries, handled, configs, plan, deleted, app>>

OpenReject(q, i) == Decidable(i) /\ ~Locked(i) /\ Open(q, "reject", i, releases[i].commit)

CommitReject(q) ==
    /\ req[q].kind = "reject"
    /\ releases' = [releases EXCEPT ![req[q].on].status = "rejected", ![req[q].on].decision = "rejected"]
    /\ Close(q)
    /\ UNCHANGED <<head, carries, handled, configs, plan, deleted, app>>

-----------------------------------------------------------------------------
\* delete_deployment reads the status without a lock, takes the web app that the
\* release's record names down, if it can, and deletes the deployment.
OpenDelete(q, i) ==
    /\ Live(i) /\ releases[i].status \notin Active
    /\ Open(q, "delete", i, releases[i].commit)

\* Only a release that was reported running names a web app.
TearDown(q) ==
    /\ req[q].kind = "delete"
    /\ app' \in {app} \cup (IF releases[req[q].on].status = "running" THEN {0} ELSE {})
    /\ req' = [req EXCEPT ![q].kind = "forget"]
    /\ UNCHANGED <<head, carries, handled, configs, plan, releases, deleted>>

\* The run stays, without a deployment.
Forget(q) ==
    /\ req[q].kind = "forget" /\ ~Locked(req[q].on)
    /\ deleted' = deleted \cup {req[q].on}
    /\ Close(q)
    /\ UNCHANGED <<head, carries, handled, configs, plan, releases, app>>

\* A request fails, times out or dies with the API: nothing is committed.
Abandon(q) ==
    /\ req[q] # NoRequest
    /\ Close(q)
    /\ UNCHANGED <<head, carries, handled, configs, plan, releases, deleted, app>>

-----------------------------------------------------------------------------
Move(i, from, to) ==
    /\ Live(i) /\ releases[i].status = from
    /\ releases' = [releases EXCEPT ![i].status = to]
    /\ UNCHANGED <<head, carries, handled, configs, plan, deleted, req>>

\* Mutant of EvidenceHolds: a release that its owner started needs no evidence.
EvidenceIsOwners(i) == releases[i].origin # "push"

\* _validated_pipeline_approval: the approved run still waits at its gate, its
\* deployment exists, and source, plan and configuration are the same.
EvidenceHolds(i) ==
    LET v == releases[i].of IN
    /\ releases[i].origin = "approval"
    /\ Live(v) /\ releases[v].status = "waiting"
    /\ releases[v].commit = releases[i].commit
    /\ releases[v].revision = releases[i].revision /\ releases[v].config = releases[i].config

\* The checks of a worker end at the gate, which a validation has none of.
Validate(i) == Mode(i) = "validate_only" /\ Move(i, "queued", "validated") /\ UNCHANGED app

AwaitApproval(i) ==
    /\ Mode(i) = "require_approval" /\ ~EvidenceHolds(i)
    /\ Move(i, "queued", "waiting")
    /\ UNCHANGED app

PassGate(i) ==
    /\ Mode(i) # "validate_only"
    /\ Mode(i) = "require_approval" => EvidenceHolds(i)
    /\ Move(i, "queued", "deploying")
    /\ UNCHANGED app

RollOut(i) == Move(i, "deploying", "verifying") /\ app' = i

\* The health checks ask the web app, whichever image it runs.
Verify(i) == app # 0 /\ Move(i, "verifying", "running") /\ UNCHANGED app

Fail(i) == (\E from \in Active : Move(i, from, "failed")) /\ UNCHANGED app

Work(i) == Validate(i) \/ AwaitApproval(i) \/ PassGate(i) \/ RollOut(i) \/ Verify(i) \/ Fail(i)

Owner(q) ==
    \/ OpenDeploy(q) \/ CommitDeploy(q)
    \/ \E i \in Known : OpenApprove(q, i) \/ OpenReject(q, i) \/ OpenDelete(q, i)
    \/ CommitApprove(q) \/ CommitReject(q) \/ TearDown(q) \/ Forget(q) \/ Abandon(q)

Webhook(q) == CommitPush(q) \/ BlockPush(q) \/ \E d \in Deliveries : OpenPush(q, d)

Next ==
    \/ Configure \/ EditPlan \/ ApprovePlan
    \/ \E d \in Deliveries : Push(d) \/ IgnorePush(d)
    \/ \E q \in Requests : Owner(q) \/ Webhook(q)
    \/ \E i \in Known : Work(i)

Spec == Init /\ [][Next]_vars

-----------------------------------------------------------------------------
\* Types, and no row is locked by two requests.
TypeOK ==
    /\ head \in Commits
    /\ carries \in [Deliveries -> 0 .. MaxCommits] /\ handled \subseteq Deliveries
    /\ configs \in Seq(Configurations) /\ Len(configs) \in Versions
    /\ plan \in [revision : Versions, status : {"draft", "approved"}]
    /\ releases \in Seq(Release) /\ Len(releases) <= MaxReleases /\ deleted \subseteq Known
    /\ app \in 0 .. Len(releases)
    /\ \A q \in Requests :
          /\ req[q] = NoRequest \/ req[q].kind \in Kinds
          /\ req[q].commit \in Commits /\ req[q].config \in 1 .. Len(configs)
          /\ req[q].kind \in {"approve", "reject"} =>
                \A r \in Requests \ {q} : req[r].kind \in {"approve", "reject"} => req[r].on # req[q].on

\* A pushed commit is released by the webhook once, whether GitHub delivers it again,
\* announces it twice or its deployment has been deleted.
OneReleasePerPush == \A c \in Commits : Cardinality(PushedRuns(c)) <= 1

Successors(v) == {i \in Known : releases[i].origin = "approval" /\ releases[i].of = v}

\* docs/pipeline.md: an approval is consumed by exactly one new release and a rejected
\* release gets none, although both requests and deletions race for the same rows.
OneDecision ==
    \A v \in Known :
        Cardinality(Successors(v)) = IF releases[v].decision = "consumed" THEN 1 ELSE 0

\* What asks for a release, a pushed commit or an approval, is released once.
OneReleasePerCause == TypeOK /\ OneReleasePerPush /\ OneDecision

\* Whatever was pushed, configured, planned or deleted since: what the web app runs
\* under an approval mode is a commit that was validated with the same plan and
\* configuration and then approved.
ServesWhatWasApproved ==
    app # 0 /\ Mode(app) = "require_approval" =>
        \E v \in Known : /\ app \in Successors(v)
                         /\ releases[v].status = "waiting" /\ releases[v].decision = "consumed"
                         /\ releases[v].commit = releases[app].commit
                         /\ releases[v].config = releases[app].config
                         /\ releases[v].revision = releases[app].revision
=============================================================================
