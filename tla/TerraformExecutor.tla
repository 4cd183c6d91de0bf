-------------------------- MODULE TerraformExecutor --------------------------
(***************************************************************************)
(* The virtual machine workers that run Terraform for one workflow         *)
(* (worker/vmss_main.py, azure_adapters.py, terraform_executor.py,         *)
(* execution_gate.py): a plan job and, once an owner approved a reported   *)
(* plan, the apply job bound to it.  Both work on the workflow's own       *)
(* Terraform state.                                                        *)
(*                                                                         *)
(* Service Bus, Blob storage and Terraform itself are external and modelled*)
(* from how the worker uses them: peek-lock delivery with a delivery limit,*)
(* leases that expire, Terraform's own state lock, and its refusal of a    *)
(* saved plan whose state has moved on.  Every message is a valid envelope:*)
(* digests, sizes and guardrails appear as the gate failures they cause.   *)
(***************************************************************************)
EXTENDS Naturals

CONSTANTS
    Workers,
    Nobody,         \* holds no lock
    NotSaved,       \* no saved plan
    MaxDeliveries,  \* max_delivery_count of the queues
    GiveUpAt,       \* the delivery at which a Terraform failure is final
    MaxFaults       \* bound: crashes, lapsed locks and failed renewals

ASSUME DeliveriesAssumption == MaxDeliveries \in Nat \ {0} /\ GiveUpAt \in 1 .. MaxDeliveries
ASSUME FaultsAssumption == MaxFaults \in Nat
ASSUME NobodyAssumption == Nobody \notin Workers
ASSUME NotSavedAssumption == NotSaved \notin Nat

Jobs == {"plan", "apply"}

\* A plan is named by the delivery of the plan job that made it.
Deliveries == 1 .. MaxDeliveries
NoPlan == 0

VARIABLES
    message,       \* where the job's message is; "dead": dead-lettered by a worker,
                   \* "exhausted": by the broker, after its last delivery
    holder,        \* the worker with the message's peek-lock
    deliveries,    \* deliveries of the message so far
    lease,         \* holder of leases/{tenant}/{state key}.lock
    stateLock,     \* holder of Terraform's lock on the state
    serial,        \* changes made to the state, and with it to the cloud
    applied,       \* an apply ran to its end
    saved,         \* saved plans: the state each was made against
    receipt,       \* completion receipts: the delivery whose result each records, 0: none
    claimed,       \* the approval-claims blob exists
    approved,      \* the plan the apply message names
    expired,       \* the approval's expiry has passed
    events,        \* workflow events sent: [job, status, made]
    pc,            \* where _process_message stands on each worker
    work,          \* the job and delivery each worker has in hand
    reason,        \* the exception on its way out of the lease
    renewalError,  \* the lease's renewal thread gave up
    faults

busVars   == <<message, holder, deliveries>>
stateVars == <<lease, stateLock, serial, applied, saved>>
blobVars  == <<receipt, claimed>>
askVars   == <<approved, expired>>
workVars  == <<pc, work, reason, renewalError>>
vars == <<busVars, stateVars, blobVars, askVars, events, workVars, faults>>

MessageStates == {"absent", "queued", "locked", "completed", "dead", "exhausted"}

\* Inside the `with` block of the lease, and after it.
Leased   == {"claim", "prepare", "tool", "check", "publish", "receipt", "settle", "leave"}
Handling == {"report", "bury", "abandon"}
Phases   == {"idle", "acknowledge", "protect"} \cup Leased \cup Handling

\* The exceptions _process_message tells apart: a contract or gate refusal, a
\* Terraform failure, anything else.
Failures == {"gate", "tool", "other"}

NoWork == [job |-> "plan", delivery |-> 0]

\* The message in hand is still this worker's to settle.
Holds(w) == message[work[w].job] = "locked" /\ holder[work[w].job] = w

Event(w, status) ==
    [job |-> work[w].job, status |-> status, made |-> IF status = "completed" THEN work[w].delivery ELSE 0]

Reported(job, status) == \E e \in events : e.job = job /\ e.status = status

-----------------------------------------------------------------------------
\* The generation function has sent the plan job.
Init ==
    /\ message = [j \in Jobs |-> IF j = "plan" THEN "queued" ELSE "absent"]
    /\ holder = [j \in Jobs |-> Nobody]
    /\ deliveries = [j \in Jobs |-> 0]
    /\ lease = Nobody
    /\ stateLock = Nobody
    /\ serial = 0
    /\ applied = FALSE
    /\ saved = [d \in Deliveries |-> NotSaved]
    /\ receipt = [j \in Jobs |-> 0]
    /\ claimed = FALSE
    /\ approved = NoPlan
    /\ expired = FALSE
    /\ events = {}
    /\ pc = [w \in Workers |-> "idle"]
    /\ work = [w \in Workers |-> NoWork]
    /\ reason = [w \in Workers |-> "none"]
    /\ renewalError = [w \in Workers |-> FALSE]
    /\ faults = 0

\* approve_and_enqueue_apply, for a plan whose completion was reported.
ApproveApply ==
    /\ message["apply"] = "absent"
    /\ \E e \in events : e.job = "plan" /\ e.status = "completed" /\ approved' = e.made
    /\ message' = [message EXCEPT !["apply"] = "queued"]
    /\ UNCHANGED <<holder, deliveries, stateVars, blobVars, expired, events, workVars, faults>>

ExpireApproval ==
    /\ approved # NoPlan
    /\ ~expired
    /\ expired' = TRUE
    /\ UNCHANGED <<busVars, stateVars, blobVars, approved, events, workVars, faults>>

-----------------------------------------------------------------------------
(* The broker. *)

\* A message that was not settled goes back to its queue, or to the broker's
\* dead-letter queue after its last delivery.
Return(job) ==
    /\ message' = [message EXCEPT ![job] = IF deliveries[job] < MaxDeliveries THEN "queued" ELSE "exhausted"]
    /\ holder' = [holder EXCEPT ![job] = Nobody]

Settle(job, outcome) ==
    /\ message' = [message EXCEPT ![job] = outcome]
    /\ holder' = [holder EXCEPT ![job] = Nobody]

\* The receiver is gone, or its lock lapsed while it was working.
LoseLock(job) ==
    LET w == holder[job] IN
    /\ message[job] = "locked"
    /\ IF pc[w] = "idle" \/ work[w].job # job
       THEN UNCHANGED faults
       ELSE faults < MaxFaults /\ faults' = faults + 1
    /\ Return(job)
    /\ UNCHANGED <<deliveries, stateVars, blobVars, askVars, events, workVars>>

\* The blob lease lapses: nobody renews it, or its holder was held up.
ExpireLease ==
    /\ lease # Nobody
    /\ IF pc[lease] \notin Leased THEN UNCHANGED faults ELSE faults < MaxFaults /\ faults' = faults + 1
    /\ lease' = Nobody
    /\ UNCHANGED <<busVars, stateLock, serial, applied, saved, blobVars, askVars, events, workVars>>

\* The renewal thread stops at its first error.
RenewalFails(w) ==
    /\ pc[w] \in Leased
    /\ ~renewalError[w]
    /\ faults < MaxFaults
    /\ faults' = faults + 1
    /\ renewalError' = [renewalError EXCEPT ![w] = TRUE]
    /\ UNCHANGED <<busVars, stateVars, blobVars, askVars, events, pc, work, reason>>

-----------------------------------------------------------------------------
(* _process_message. *)

Goto(w, phase) == pc' = [pc EXCEPT ![w] = phase]

\* The handler returns or raises; the worker polls again.
Finish(w) ==
    /\ Goto(w, "idle")
    /\ work' = [work EXCEPT ![w] = NoWork]

\* Where an exception goes that was not raised under the lease.
Handler(w, why) ==
    CASE why = "gate" -> "report"
      [] why = "tool" -> IF work[w].delivery >= GiveUpAt THEN "report" ELSE "abandon"
      [] OTHER -> "abandon"

\* An exception leaves the `with` block first.
Leave(w, why) ==
    /\ Goto(w, "leave")
    /\ reason' = [reason EXCEPT ![w] = why]

\* _poll_queue hands a message over; was_completed is asked once, here.
Receive(w, job) ==
    /\ pc[w] = "idle"
    /\ message[job] = "queued"
    /\ message' = [message EXCEPT ![job] = "locked"]
    /\ holder' = [holder EXCEPT ![job] = w]
    /\ deliveries' = [deliveries EXCEPT ![job] = @ + 1]
    /\ work' = [work EXCEPT ![w] = [job |-> job, delivery |-> deliveries[job] + 1]]
    /\ Goto(w, IF receipt[job] # 0 THEN "acknowledge" ELSE "protect")
    /\ UNCHANGED <<stateVars, blobVars, askVars, events, reason, renewalError, faults>>

\* complete_message of a job that has its receipt; when it raises the message is
\* abandoned.
Acknowledge(w) ==
    /\ pc[w] = "acknowledge"
    /\ \/ Holds(w) /\ Settle(work[w].job, "completed") /\ Finish(w)
       \/ UNCHANGED <<message, holder, work>> /\ Goto(w, "abandon")
    /\ UNCHANGED <<deliveries, stateVars, blobVars, askVars, events, reason, renewalError, faults>>

\* Protection is refused, or the lease cannot be had; an acquisition that raises
\* may have taken it.
Refuse(w) ==
    /\ pc[w] = "protect"
    /\ \E why \in {"gate", "other"} : Goto(w, Handler(w, why))
    /\ lease' \in {lease, IF lease = Nobody THEN w ELSE lease}
    /\ UNCHANGED <<busVars, stateLock, serial, applied, saved, blobVars, askVars, events, work, reason,
                   renewalError, faults>>

\* protect and lease.__enter__.
EnterLease(w) ==
    /\ pc[w] = "protect"
    /\ lease = Nobody
    /\ lease' = w
    /\ Goto(w, IF work[w].job = "apply" THEN "claim" ELSE "prepare")
    /\ UNCHANGED <<busVars, stateLock, serial, applied, saved, blobVars, askVars, events, work, reason,
                   renewalError, faults>>

\* One workflow has one apply job, which may claim its approval again.
ClaimApproval(w) ==
    /\ pc[w] = "claim"
    /\ \/ claimed' = TRUE /\ Goto(w, "prepare") /\ UNCHANGED reason
       \/ claimed' \in {claimed, TRUE} /\ Leave(w, "other")
    /\ UNCHANGED <<busVars, stateVars, receipt, askVars, events, work, renewalError, faults>>

\* Anything under the lease can raise before Terraform touches the state: a
\* digest, an expired approval, a static check, a lost connection.
FailEarly(w) ==
    /\ pc[w] = "prepare"
    /\ \E why \in Failures : Leave(w, why)
    /\ UNCHANGED <<busVars, stateVars, blobVars, askVars, events, work, renewalError, faults>>

\* validate_saved_plan_gate passed; Terraform takes its own lock.
StartTool(w) ==
    /\ pc[w] = "prepare"
    /\ work[w].job = "apply" => ~expired
    /\ stateLock = Nobody
    /\ stateLock' = w
    /\ Goto(w, "tool")
    /\ UNCHANGED <<busVars, lease, serial, applied, saved, blobVars, askVars, events, work, reason,
                   renewalError, faults>>

\* _plan: a saved plan of the state as it is, under a path of its own.
MakePlan(w) ==
    /\ pc[w] = "tool"
    /\ work[w].job = "plan"
    /\ saved' = [saved EXCEPT ![work[w].delivery] = serial]
    /\ stateLock' = Nobody
    /\ Goto(w, "check")
    /\ UNCHANGED <<busVars, lease, serial, applied, blobVars, askVars, events, work, reason,
                   renewalError, faults>>

\* Mutated form of Fresh: Terraform plans afresh and applies the directory.
FreshPlan == TRUE

\* Terraform refuses a saved plan once its state has changed.
Fresh == saved[approved] = serial

\* _apply: the saved plan, and nothing else.
ApplyPlan(w) ==
    /\ pc[w] = "tool"
    /\ work[w].job = "apply"
    /\ Fresh
    /\ serial' = serial + 1
    /\ applied' = TRUE
    /\ stateLock' = Nobody
    /\ Goto(w, "check")
    /\ UNCHANGED <<busVars, lease, saved, blobVars, askVars, events, work, reason, renewalError, faults>>

\* What an interrupted tool leaves in the cloud: of a plan nothing, of an apply
\* nothing, a part or all.
LeaveTraces(w) ==
    \/ UNCHANGED <<serial, applied>>
    \/ /\ work[w].job = "apply"
       /\ Fresh
       /\ serial' = serial + 1
       /\ applied' \in {applied, TRUE}

\* Mutated form of FailTool: a failed command passes for a success.
FailToolUnchecked(w) ==
    /\ pc[w] = "tool"
    /\ Goto(w, "check")
    /\ UNCHANGED reason
    /\ LeaveTraces(w)
    /\ stateLock' \in {Nobody, w}
    /\ UNCHANGED <<busVars, lease, saved, blobVars, askVars, events, work, renewalError, faults>>

\* The command fails; one that is killed at its timeout leaves the state locked.
\* A plan may also be refused for what it would do, or not be stored.
FailTool(w) ==
    /\ pc[w] = "tool"
    /\ \E why \in Failures : (why = "tool" \/ work[w].job = "plan") /\ Leave(w, why)
    /\ LeaveTraces(w)
    /\ stateLock' \in {Nobody, w}
    /\ UNCHANGED <<busVars, lease, saved, blobVars, askVars, events, work, renewalError, faults>>

\* save_sanitized_result and assert_current.
CheckLease(w) ==
    /\ pc[w] = "check"
    /\ \/ Leave(w, "other")
       \/ renewalError[w] /\ Leave(w, "gate")
       \/ ~renewalError[w] /\ Goto(w, "publish") /\ UNCHANGED reason
    /\ UNCHANGED <<busVars, stateVars, blobVars, askVars, events, work, renewalError, faults>>

\* Mutated form of Publish: an error of the event sink is swallowed.
PublishQuietly(w) ==
    /\ pc[w] = "publish"
    /\ events' \in {events, events \cup {Event(w, "completed")}}
    /\ Goto(w, "receipt")
    /\ UNCHANGED <<busVars, stateVars, blobVars, askVars, work, reason, renewalError, faults>>

\* A send that raises may have been received.
Publish(w) ==
    /\ pc[w] = "publish"
    /\ \/ /\ events' = events \cup {Event(w, "completed")}
          /\ Goto(w, "receipt")
          /\ UNCHANGED reason
       \/ /\ events' \in {events, events \cup {Event(w, "completed")}}
          /\ Leave(w, "other")
    /\ UNCHANGED <<busVars, stateVars, blobVars, askVars, work, renewalError, faults>>

\* The first receipt stays.
MarkCompleted(w) ==
    LET Receipt == [receipt EXCEPT ![work[w].job] = IF @ = 0 THEN work[w].delivery ELSE @] IN
    /\ pc[w] = "receipt"
    /\ \/ receipt' = Receipt /\ Goto(w, "settle") /\ UNCHANGED reason
       \/ receipt' \in {receipt, Receipt} /\ Leave(w, "other")
    /\ UNCHANGED <<busVars, stateVars, claimed, askVars, events, work, renewalError, faults>>

CompleteMessage(w) ==
    /\ pc[w] = "settle"
    /\ \/ Holds(w) /\ Settle(work[w].job, "completed") /\ Leave(w, "none")
       \/ UNCHANGED <<message, holder>> /\ Leave(w, "other")
    /\ UNCHANGED <<deliveries, stateVars, blobVars, askVars, events, work, renewalError, faults>>

\* lease.__exit__: an error of release() replaces the exception that was on its
\* way; without one, a failed renewal is raised now.
LeaveLease(w) ==
    /\ pc[w] = "leave"
    /\ \E released \in BOOLEAN :
          LET why == CASE reason[w] = "none" /\ renewalError[w] -> "gate"
                       [] ~released -> "other"
                       [] OTHER -> reason[w]
          IN /\ released => lease \in {w, Nobody}
             /\ lease' = IF released THEN Nobody ELSE lease
             /\ IF why = "none" THEN Finish(w) ELSE Goto(w, Handler(w, why)) /\ UNCHANGED work
    /\ reason' = [reason EXCEPT ![w] = "none"]
    /\ renewalError' = [renewalError EXCEPT ![w] = FALSE]
    /\ UNCHANGED <<busVars, stateLock, serial, applied, saved, blobVars, askVars, events, faults>>

\* The failed event.  What raises here leaves the message to its lock.
Report(w) ==
    /\ pc[w] = "report"
    /\ \/ events' = events \cup {Event(w, "failed")} /\ Goto(w, "bury") /\ UNCHANGED work
       \/ events' \in {events, events \cup {Event(w, "failed")}} /\ Finish(w)
    /\ UNCHANGED <<busVars, stateVars, blobVars, askVars, reason, renewalError, faults>>

\* Mutated form of Bury: a refused message is taken off the queue before its
\* lock is given up.
BuryLocked(w) ==
    /\ pc[w] = "bury"
    /\ message' = IF Holds(w) THEN [message EXCEPT ![work[w].job] = "dead"] ELSE message
    /\ Finish(w)
    /\ UNCHANGED <<holder, deliveries, stateVars, blobVars, askVars, events, reason, renewalError, faults>>

\* dead_letter_message; a message whose lock is lost stays where it is.
Bury(w) ==
    /\ pc[w] = "bury"
    /\ IF Holds(w) THEN Settle(work[w].job, "dead") ELSE UNCHANGED <<message, holder>>
    /\ Finish(w)
    /\ UNCHANGED <<deliveries, stateVars, blobVars, askVars, events, reason, renewalError, faults>>

Abandon(w) ==
    /\ pc[w] = "abandon"
    /\ IF Holds(w) THEN Return(work[w].job) ELSE UNCHANGED <<message, holder>>
    /\ Finish(w)
    /\ UNCHANGED <<deliveries, stateVars, blobVars, askVars, events, reason, renewalError, faults>>

\* The machine or its process dies.  Terraform's lock may outlive it.
Crash(w) ==
    /\ pc[w] # "idle"
    /\ faults < MaxFaults
    /\ faults' = faults + 1
    /\ IF pc[w] = "tool"
       THEN LeaveTraces(w) /\ stateLock' \in {Nobody, w}
       ELSE UNCHANGED <<serial, applied, stateLock>>
    /\ Finish(w)
    /\ reason' = [reason EXCEPT ![w] = "none"]
    /\ renewalError' = [renewalError EXCEPT ![w] = FALSE]
    /\ UNCHANGED <<busVars, lease, saved, blobVars, askVars, events>>

-----------------------------------------------------------------------------
WorkerStep(w) ==
    \/ \E job \in Jobs : Receive(w, job)
    \/ Acknowledge(w)
    \/ Refuse(w)
    \/ EnterLease(w)
    \/ ClaimApproval(w)
    \/ FailEarly(w)
    \/ StartTool(w)
    \/ MakePlan(w)
    \/ ApplyPlan(w)
    \/ FailTool(w)
    \/ CheckLease(w)
    \/ Publish(w)
    \/ MarkCompleted(w)
    \/ CompleteMessage(w)
    \/ LeaveLease(w)
    \/ Report(w)
    \/ Bury(w)
    \/ Abandon(w)

Next ==
    \/ ApproveApply
    \/ ExpireApproval
    \/ \E job \in Jobs : LoseLock(job)
    \/ ExpireLease
    \/ \E w \in Workers : WorkerStep(w) \/ RenewalFails(w) \/ Crash(w)

Spec == Init /\ [][Next]_vars

-----------------------------------------------------------------------------
(* Properties. *)

\* Values, and what goes with what: a peek-lock is held exactly while the message
\* is locked, a worker between jobs has none in hand, and an apply message names
\* a plan.
TypeOK ==
    /\ message \in [Jobs -> MessageStates]
    /\ holder \in [Jobs -> Workers \cup {Nobody}]
    /\ \A j \in Jobs : message[j] = "locked" <=> holder[j] # Nobody
    /\ deliveries \in [Jobs -> 0 .. MaxDeliveries]
    /\ lease \in Workers \cup {Nobody}
    /\ stateLock \in Workers \cup {Nobody}
    /\ serial \in Nat
    /\ applied \in BOOLEAN
    /\ saved \in [Deliveries -> Nat \cup {NotSaved}]
    /\ receipt \in [Jobs -> 0 .. MaxDeliveries]
    /\ claimed \in BOOLEAN
    /\ approved \in 0 .. MaxDeliveries
    /\ message["apply"] = "absent" <=> approved = NoPlan
    /\ expired \in BOOLEAN
    /\ events \subseteq [job : Jobs, status : {"completed", "failed"}, made : 0 .. MaxDeliveries]
    /\ pc \in [Workers -> Phases]
    /\ work \in [Workers -> [job : Jobs, delivery : 0 .. MaxDeliveries]]
    /\ \A w \in Workers : pc[w] = "idle" <=> work[w] = NoWork
    /\ reason \in [Workers -> Failures \cup {"none"}]
    /\ renewalError \in [Workers -> BOOLEAN]
    /\ faults \in 0 .. MaxFaults

\* What an owner approved is applied once: however often the apply message is
\* delivered, to however many workers that think they hold it, the state and
\* the cloud change at most once (_apply hands Terraform the saved plan and
\* nothing else).
AppliedAtMostOnce == serial <= 1

\* A completed event tells the truth, whoever sent it and whatever happened to
\* its lease: the plan it names was saved, the apply ran to its end
\* (_process_message publishes what execute returned).
CompletionIsReal ==
    \A e \in events : e.status = "completed" =>
        IF e.job = "plan" THEN saved[e.made] # NotSaved ELSE applied

\* Nothing is put on record before it was sent (_process_message): a receipt,
\* which makes every later delivery be dropped unread, names a result that was
\* published; a completed message has a receipt, and one that a worker
\* dead-lettered its failed event.
SettledIsReported ==
    \A j \in Jobs :
        /\ receipt[j] # 0 => [job |-> j, status |-> "completed", made |-> receipt[j]] \in events
        /\ message[j] = "completed" => receipt[j] # 0
        /\ message[j] = "dead" => Reported(j, "failed")

\* What the rest of the system learns of a job is true and complete.
ReportsAreTrue == TypeOK /\ CompletionIsReal /\ SettledIsReported
=============================================================================
