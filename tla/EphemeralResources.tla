-------------------------- MODULE EphemeralResources --------------------------
(***************************************************************************)
(* A resource with a time to live (backend/services/ephemeral_resources.py): *)
(* a request deploys an ARM template, others extend the time to live or    *)
(* delete, and the maintenance task of every API process (backend/main.py) *)
(* selects expired resources and deletes them.  The tasks share the row of *)
(* ephemeral_resources and what is in Azure; each waits for Azure with its *)
(* row committed and no lock held.  Resources share nothing with each      *)
(* other but the maintenance task, which deletes one after another: here   *)
(* the others are the time that passes before it comes to this one.        *)
(*                                                                         *)
(* Azure is external: a deployment runs there whether or not the process   *)
(* that asked for it still does and creates the resources of the template  *)
(* one by one, deleting what does not exist succeeds, and a deployment     *)
(* cannot be deleted while it runs.                                        *)
(***************************************************************************)
EXTENDS Naturals, FiniteSets

CONSTANTS
    Servers,       \* API processes
    ResourceTasks, \* their maintenance tasks and the requests they serve at the same time
    Managed,       \* the resources of the template, which the row names
    MaxAge,        \* the 48 hours, in steps of the clock
    MaxStops       \* bound: times that an API process stops, by a crash or a new release

ASSUME ResourceTasksAssumption == ResourceTasks \subseteq Servers \X {"reaper", "request"}
ASSUME LimitsAssumption == MaxAge \in Nat \ {0} /\ MaxStops \in Nat

VARIABLES
    resource,  \* ephemeral_resources; left: expires_at - now, at least 0
    azure,     \* the ARM deployment
    awaited,   \* the resources that it has yet to create
    present,   \* the resources that exist
    task,      \* where each task stands
    early,     \* history: a deletion was over before Azure had all of the resource
    cutOff,    \* history: a process stopped while deleting it
    stops

resourceVars == <<resource, azure, awaited, present, task, early, cutOff, stops>>

inAzure == <<azure, awaited, present>>

Statuses == {"none", "provisioning", "active", "failed", "destroying", "destroyed", "unverified"}
Deployments == {"none", "running", "succeeded", "failed"}

\* marked: the row that the task loaded said "destroying" already; left: what it
\* has yet to delete; missed: what was created after the task had passed it
TaskRecords(steps) == [at : steps, marked : BOOLEAN, left : SUBSET Managed, missed : SUBSET Managed]
Steps == {"idle", "deploy", "wait", "confirmed", "failed", "begin", "delete", "deleted", "refused"}
At(step, marked) == [at |-> step, marked |-> marked, left |-> {}, missed |-> {}]
Idle == At("idle", FALSE)
Deleting == {"delete", "deleted", "refused"}

\* Rows of earlier versions name nothing in Azure.
NoRow == [status |-> "none", left |-> 0, age |-> 0, tracked |-> TRUE]
Legacy == [status |-> "active", left |-> MaxAge, age |-> 0, tracked |-> FALSE]

ResourcesInit ==
    /\ resource \in {NoRow, Legacy}
    /\ azure = "none" /\ awaited = {} /\ present = {}
    /\ task = [t \in ResourceTasks |-> Idle]
    /\ early = FALSE
    /\ cutOff = FALSE
    /\ stops = 0

Starts(t, kind, at, marked) ==
    /\ t[2] = kind /\ task[t] = Idle
    /\ task' = [task EXCEPT ![t] = At(at, marked)]

Moves(t, from, to) ==
    /\ task[t].at = from
    /\ task' = [task EXCEPT ![t] = At(to, FALSE)]

Ends(t, from) ==
    /\ task[t].at = from
    /\ task' = [task EXCEPT ![t] = Idle]

Writes(status) == resource' = [resource EXCEPT !.status = status]

-----------------------------------------------------------------------------
(* Provisioning and extending *)

\* The row is committed before Azure is asked.
Provision(t) ==
    /\ resource = NoRow
    /\ Starts(t, "request", "deploy", FALSE)
    /\ \E ttl \in 1 .. MaxAge : resource' = [NoRow EXCEPT !.status = "provisioning", !.left = ttl]
    /\ UNCHANGED <<inAzure, early, cutOff, stops>>

\* A call that fails may have reached Azure.
Deploy(t) ==
    /\ \/ /\ Moves(t, "deploy", "wait") \/ Moves(t, "deploy", "failed")
          /\ azure' = "running" /\ awaited' = Managed
       \/ Moves(t, "deploy", "failed") /\ UNCHANGED <<azure, awaited>>
    /\ UNCHANGED <<resource, present, early, cutOff, stops>>

\* Deletions under way that have passed the resource do not come back to it.
Create(r) ==
    /\ r \in awaited
    /\ awaited' = awaited \ {r}
    /\ present' = present \cup {r}
    /\ task' = [t \in ResourceTasks |->
                    IF task[t].at = "delete" /\ r \notin task[t].left
                    THEN [task[t] EXCEPT !.missed = @ \cup {r}]
                    ELSE task[t]]
    /\ UNCHANGED <<resource, azure, early, cutOff, stops>>

DeploymentEnds ==
    /\ azure = "running"
    /\ azure' \in {"succeeded", "failed"}
    /\ azure' = "succeeded" => awaited = {}
    /\ awaited' = {}
    /\ UNCHANGED <<resource, present, task, early, cutOff, stops>>

\* The process may lose sight of a deployment that still runs.
AwaitDeployment(t) ==
    /\ \/ Moves(t, "wait", "confirmed") /\ azure = "succeeded"
       \/ Moves(t, "wait", "failed")
    /\ UNCHANGED <<resource, inAzure, early, cutOff, stops>>

\* The status is written whatever the row says by now.
Activate(t) ==
    /\ Ends(t, "confirmed")
    /\ Writes("active")
    /\ UNCHANGED <<inAzure, early, cutOff, stops>>

\* What was created in part is deleted at once, and if that fails by the reaper.
FailProvision(t) ==
    /\ Moves(t, "failed", "begin")
    /\ resource' = [resource EXCEPT !.status = "failed", !.left = 0]
    /\ UNCHANGED <<inAzure, early, cutOff, stops>>

\* Mutant of Extended: only a single extension is limited.
ExtendedEachTime(more) == resource.left + more

\* What is left after an extension: the resource ends 48 hours after its creation.
Extended(more) == IF resource.left + more <= MaxAge - resource.age THEN resource.left + more ELSE MaxAge - resource.age

\* Loading and writing are one step: the write leaves the status alone.
Extend ==
    /\ resource.status = "active" /\ resource.tracked
    /\ \E more \in 1 .. MaxAge : resource' = [resource EXCEPT !.left = Extended(more)]
    /\ UNCHANGED <<inAzure, task, early, cutOff, stops>>

-----------------------------------------------------------------------------
(* Deleting *)

\* The expired resources are selected once, and not looked at again.
Reap(t) ==
    /\ resource.status \in {"active", "provisioning", "failed"} /\ resource.left = 0
    /\ Starts(t, "reaper", "begin", FALSE)
    /\ UNCHANGED <<resource, inAzure, early, cutOff, stops>>

\* A request may delete a resource in any status.
RequestDeletion(t) ==
    /\ resource.status # "none"
    /\ Starts(t, "request", "begin", resource.status = "destroying")
    /\ UNCHANGED <<resource, inAzure, early, cutOff, stops>>

\* A status equal to the one loaded is not written.
BeginDeletion(t) ==
    /\ task[t].at = "begin"
    /\ task' = [task EXCEPT ![t] = [At("delete", FALSE) EXCEPT !.left = Managed]]
    /\ IF task[t].marked THEN UNCHANGED resource ELSE Writes("destroying")
    /\ early' = (early \/ \E s \in ResourceTasks : task[s].at = "deploy")
    /\ UNCHANGED <<inAzure, cutOff, stops>>

\* Nothing is known of what an older row stands for.
LeaveUnverified(t) ==
    /\ ~resource.tracked
    /\ Ends(t, "delete")
    /\ Writes("unverified")
    /\ UNCHANGED <<inAzure, early, cutOff, stops>>

\* A resource that is not there counts as deleted; one that cannot be deleted
\* waits for the next round, after the others.
DeleteManaged(t) ==
    /\ resource.tracked
    /\ task[t].at = "delete"
    /\ \E r \in task[t].left :
           /\ task' = [task EXCEPT ![t].left = @ \ {r}]
           /\ present' = present \ {r}
    /\ UNCHANGED <<resource, azure, awaited, early, cutOff, stops>>

\* Mutant of Deletable: a deployment that cannot be deleted is left alone.
DeletableInPart == resource.tracked

\* Azure refuses to delete a deployment that still runs, and delete_all raises.
Deletable == resource.tracked /\ azure # "running"

\* The deployment is deleted last.  By then it may have created, and have ended,
\* what this deletion passed before.
DeleteDeployment(t) ==
    /\ Deletable
    /\ task[t].left = {}
    /\ Moves(t, "delete", "deleted")
    /\ azure' = IF azure = "running" THEN azure ELSE "none"
    /\ early' = (early \/ task[t].missed \cap present # {})
    /\ UNCHANGED <<resource, awaited, present, cutOff, stops>>

\* Azure deletes, and its answer does not arrive.
DeletedUnheard(t) ==
    /\ resource.tracked
    /\ task[t].at = "delete"
    /\ \/ /\ \E r \in task[t].left : present' = present \ {r}
          /\ UNCHANGED <<task, azure>>
       \/ /\ task[t].left = {} /\ azure # "running"
          /\ azure' = "none"
          /\ Moves(t, "delete", "refused")
          /\ UNCHANGED present
    /\ UNCHANGED <<resource, awaited, early, cutOff, stops>>

\* The connection is gone or changed, or Azure refuses all that is left.
DeletionFails(t) ==
    /\ resource.tracked
    /\ Moves(t, "delete", "refused")
    /\ UNCHANGED <<resource, inAzure, early, cutOff, stops>>

\* Mutant of ScheduleRetry: what could not be deleted keeps its status.
ScheduleNothing(t) ==
    /\ Ends(t, "refused")
    /\ UNCHANGED resource

\* The row becomes active again, and expires as it did.
ScheduleRetry(t) ==
    /\ Ends(t, "refused")
    /\ Writes("active")

ConcludeDeletion(t) ==
    /\ \/ Ends(t, "deleted") /\ Writes("destroyed")
       \/ ScheduleRetry(t)
    /\ UNCHANGED <<inAzure, early, cutOff, stops>>

-----------------------------------------------------------------------------
Tick ==
    /\ resource.status # "none"
    /\ resource' = [resource EXCEPT !.left = IF @ = 0 THEN 0 ELSE @ - 1,
                                    !.age = IF @ = MaxAge THEN @ ELSE @ + 1]
    /\ UNCHANGED <<inAzure, task, early, cutOff, stops>>

\* The tasks of the process stop where they are, and it starts again.
StopServer(a) ==
    /\ stops < MaxStops
    /\ stops' = stops + 1
    /\ cutOff' = (cutOff \/ \E t \in ResourceTasks : t[1] = a /\ task[t].at \in Deleting)
    /\ task' = [t \in ResourceTasks |-> IF t[1] = a THEN Idle ELSE task[t]]
    /\ UNCHANGED <<resource, inAzure, early>>

Step(t) ==
    \/ Deploy(t)
    \/ AwaitDeployment(t)
    \/ Activate(t)
    \/ FailProvision(t)
    \/ Reap(t)
    \/ BeginDeletion(t)
    \/ LeaveUnverified(t)
    \/ DeleteManaged(t)
    \/ DeleteDeployment(t)
    \/ DeletedUnheard(t)
    \/ DeletionFails(t)
    \/ ConcludeDeletion(t)

ResourcesNext ==
    \/ \E t \in ResourceTasks : Provision(t) \/ RequestDeletion(t) \/ Step(t)
    \/ \E r \in Managed : Create(r)
    \/ DeploymentEnds
    \/ Extend
    \/ Tick
    \/ \E a \in Servers : StopServer(a)

\* Tasks go on, the clock too, a deployment ends, and Azure does not fail to
\* delete for ever.
ResourcesFairness ==
    /\ \A t \in ResourceTasks :
           /\ WF_resourceVars(Step(t))
           /\ <>[][~(DeletedUnheard(t) \/ DeletionFails(t))]_resourceVars
    /\ WF_resourceVars(DeploymentEnds)
    /\ WF_resourceVars(Tick)

-----------------------------------------------------------------------------
(* Properties *)

\* Every variable has values of its kind, and however often it is extended the
\* resource expires within the 48 hours.
ResourceTypes ==
    /\ resource \in [status : Statuses, left : 0 .. MaxAge, age : 0 .. MaxAge, tracked : BOOLEAN]
    /\ azure \in Deployments
    /\ awaited \subseteq Managed
    /\ present \subseteq Managed
    /\ task \in [ResourceTasks -> TaskRecords(Steps)]
    /\ early \in BOOLEAN
    /\ cutOff \in BOOLEAN
    /\ stops \in 0 .. MaxStops
    /\ resource.tracked => resource.left <= MaxAge - resource.age

\* Of a resource that is shown as destroyed nothing exists in Azure, unless a
\* deletion was over before Azure had all of it: it began before the deployment
\* did, or it had passed what the deployment created then.  This is so however
\* many requests and maintenance tasks delete it, beside the one that creates it,
\* resource by resource, and even when one of them stops.
DestroyedIsGone == resource.status = "destroyed" /\ ~early => azure = "none" /\ present = {}

\* A row, with its 48 hours at most, does not promise less than there is in Azure.
ResourcesAreSound == ResourceTypes /\ DestroyedIsGone

\* A resource that was created is destroyed in the end and shown as such,
\* whatever fails on the way and even when the process that created it stops,
\* unless a process stopped while deleting it or a deletion came too early.
ResourceIsDestroyed ==
    resource.status = "provisioning" ~> early \/ cutOff \/ (resource.status = "destroyed" /\ azure = "none" /\ present = {})
=============================================================================
