-------------------------- MODULE HistoryProjection --------------------------
(***************************************************************************)
(* The history of one infrastructure pipeline run: its activity events and *)
(* the status projected from them.  Two kinds of writers number events of  *)
(* the same run: the history projector (functions/history_projector,       *)
(* history_store.py), which handles the workflow-events queue, and API     *)
(* requests (services/history.py), which append in their own transaction.  *)
(* Both take pg_advisory_xact_lock(hashtext(run id)) first.                *)
(*                                                                         *)
(* Service Bus is external: the queue is sessioned by run, so only the head*)
(* is delivered, again and again until it is settled or dead-lettered, and *)
(* to a second projector once the first one's session lock has lapsed.     *)
(* Producers build deterministic event ids and stamp occurred_at some time *)
(* before they send; a redelivered job sends its events once more.         *)
(***************************************************************************)
EXTENDS Naturals, Sequences, FiniteSetsExt

CONSTANTS
    Projectors,     \* running instances of the projector function
    Api,            \* an API request that appends the approval's event
    Nobody,
    MaxAttempt,     \* attempts of the workflow's jobs (the contract allows 10)
    MaxDeliveries,  \* max_delivery_count of the queue
    MaxClock,       \* bound: time
    MaxSends,       \* bound: events sent
    MaxFaults       \* bound: crashes and lapsed session locks

ASSUME ActorsAssumption ==
    Api \notin Projectors /\ Nobody \notin Projectors /\ Nobody # Api
ASSUME BoundsAssumption ==
    /\ MaxAttempt \in Nat \ {0} /\ MaxDeliveries \in Nat \ {0} /\ MaxClock \in Nat \ {0}
    /\ MaxSends \in Nat /\ MaxFaults \in Nat

Actors == Projectors \cup {Api}

VARIABLES
    clock,
    sent,        \* ids of the events sent so far
    sends,
    queue,       \* events not settled yet
    deliveries,  \* deliveries of the head of the queue
    session,     \* the projector with the session's lock
    buried,      \* dead-lettered events
    rows,        \* activity_events of the run
    run,         \* status, summary.last_attempt and completed_at of operation_runs
    plan,        \* planned_at of the terraform_plan_results row, 0: no row
    lock,        \* holder of the advisory lock on the run
    pc,
    hand,        \* the event each projector works on
    seen,        \* the duplicate and the sequence number each transaction has read
    faults

brokerVars == <<sent, sends, queue, deliveries, session, buried>>
tableVars  == <<rows, run, plan>>
actorVars  == <<lock, pc, hand, seen>>
vars == <<clock, brokerVars, tableVars, actorVars, faults>>

\* Events of one attempt.  "planned" stands for the completed events that do not end
\* an operation of this type, and carries the plan's control record.
Kinds == {"started", "planned", "applied", "failed"}
Event == [kind : Kinds, attempt : 1 .. MaxAttempt, at : 1 .. MaxClock]
Row == [kind : Kinds \cup {"approved"}, attempt : 1 .. MaxAttempt, at : 1 .. MaxClock, seq : Nat \ {0}]
NoEvent == [kind |-> "started", attempt |-> 1, at |-> 1]
NothingSeen == [copies |-> {}, next |-> 1]

\* external_event_id: deterministic in the job, its attempt and the event's type.
Id(e) == <<e.kind, e.attempt>>

\* _event_fingerprint leaves occurred_at out; the control record keeps planned_at.
SameContent(e, f) == e.kind = "planned" => e.at = f.at

Terminal(status) == status \in {"completed", "failed"}

\* _operation_status for the operation type infrastructure_pipeline
OperationStatus(kind) ==
    IF kind = "failed" THEN "failed" ELSE IF kind = "applied" THEN "completed" ELSE kind

-----------------------------------------------------------------------------
\* create_operation_run: the run is queued before any job of it is sent.
Init ==
    /\ clock = 1
    /\ sent = {} /\ sends = 0
    /\ queue = <<>>
    /\ deliveries = 0
    /\ session = Nobody
    /\ buried = {}
    /\ rows = {}
    /\ run = [status |-> "queued", attempt |-> 0, ended |-> 0]
    /\ plan = 0
    /\ lock = Nobody
    /\ pc = [a \in Actors |-> "idle"]
    /\ hand = [p \in Projectors |-> NoEvent]
    /\ seen = [a \in Actors |-> NothingSeen]
    /\ faults = 0

Tick == clock < MaxClock /\ clock' = clock + 1 /\ UNCHANGED <<brokerVars, tableVars, actorVars, faults>>

Approval == {r \in rows : r.kind = "approved"}

\* What must have happened before a producer builds the event.  Producers and the
\* API read one clock: an apply completes after the approval it carries.
Caused(e) ==
    /\ e.kind # "started" => <<"started", e.attempt>> \in sent
    /\ e.kind = "started" /\ e.attempt > 1 => <<"started", e.attempt - 1>> \in sent
    /\ e.kind = "applied" => \E r \in Approval : r.at <= e.at

\* A handler sends an event it stamped up to one time unit ago.
Send(e) ==
    /\ sends < MaxSends
    /\ e.at <= clock /\ e.at + 1 >= clock
    /\ Caused(e)
    /\ sent' = sent \cup {Id(e)}
    /\ sends' = sends + 1
    /\ queue' = Append(queue, e)
    /\ UNCHANGED <<clock, deliveries, session, buried, tableVars, actorVars, faults>>

-----------------------------------------------------------------------------
\* The broker hands the head of the queue to a projector that gets the session.
Receive(p) ==
    /\ pc[p] = "idle" /\ session = Nobody
    /\ queue # <<>>
    /\ session' = p
    /\ deliveries' = deliveries + 1
    /\ hand' = [hand EXCEPT ![p] = Head(queue)]
    /\ pc' = [pc EXCEPT ![p] = "begin"]
    /\ UNCHANGED <<clock, sent, sends, queue, buried, tableVars, lock, seen, faults>>

\* Mutant of GiveBack: nothing counts the deliveries.
GiveBackForever ==
    /\ session' = Nobody
    /\ UNCHANGED <<queue, buried, deliveries>>

\* The head goes back to the queue, or to the dead letters after its last delivery.
GiveBack ==
    /\ session' = Nobody
    /\ IF deliveries = MaxDeliveries
       THEN /\ buried' = buried \cup {Head(queue)}
            /\ queue' = Tail(queue)
            /\ deliveries' = 0
       ELSE UNCHANGED <<queue, buried, deliveries>>

\* The advisory lock of the transaction, which both kinds of writers take; then the
\* rows with the event's external id, and MAX(sequence_number) + 1.
LockRun(a) == lock = Nobody /\ lock' = a

ReadHistory(a, id) ==
    seen' = [seen EXCEPT ![a] = [copies |-> {r \in rows : Id(r) = id},
                                 next   |-> 1 + Max({r.seq : r \in rows} \cup {0})]]

Begin(p) ==
    /\ pc[p] = "begin"
    /\ LockRun(p)
    /\ ReadHistory(p, Id(hand[p]))
    /\ pc' = [pc EXCEPT ![p] = "write"]
    /\ UNCHANGED <<clock, brokerVars, tableVars, hand, faults>>

\* uq_activity_events_operation_sequence and uq_activity_events_tenant_external_event
Violates(row) == \E r \in rows : r.seq = row.seq \/ Id(r) = Id(row)

RowOf(p) == [kind |-> hand[p].kind, attempt |-> hand[p].attempt, at |-> hand[p].at, seq |-> seen[p].next]

\* Mutant of Newer: an event of the same instant counts as newer.
NewerOrAsOld(row) == \E r \in rows : r.attempt > row.attempt \/ (r.attempt = row.attempt /\ r.at >= row.at)

\* The conditions of _update_operation's NOT EXISTS.
Newer(row) ==
    \E r \in rows : \/ r.attempt > row.attempt
                    \/ /\ r.attempt = row.attempt
                       /\ (r.at > row.at \/ (r.at = row.at /\ r.seq > row.seq))

StaleAttempt(e) == e.attempt < run.attempt

\* Mutant of AttemptIsAlreadyTerminal: it asks for completed only.
AttemptIsAlreadyCompleted(e) == e.attempt = run.attempt /\ run.status = "completed"

AttemptIsAlreadyTerminal(e) == e.attempt = run.attempt /\ Terminal(run.status)

Reopens(e) == e.kind = "started" /\ e.attempt > run.attempt

UpdateOperation(row) ==
    run' = [status  |-> OperationStatus(row.kind),
            attempt |-> row.attempt,
            ended   |-> IF Terminal(OperationStatus(row.kind)) THEN row.at
                        ELSE IF Reopens(row) THEN 0 ELSE run.ended]

\* _assert_duplicate_matches and _project_terraform_plan_control raise on these;
\* the constraints do on the third.
ReplayDiffers(p) == \E r \in seen[p].copies : ~SameContent(hand[p], r)
PlanDiffers(p) ==
    seen[p].copies = {} /\ hand[p].kind = "planned" /\ plan \notin {0, hand[p].at}
Conflicts(p) == seen[p].copies = {} /\ Violates(RowOf(p))

Raises(p) == ReplayDiffers(p) \/ PlanDiffers(p) \/ Conflicts(p)

\* A duplicate changes nothing.  A new event is inserted, its plan recorded, and
\* the operation updated unless the event is late.
Project(p) ==
    /\ pc[p] = "write" /\ ~Raises(p)
    /\ IF seen[p].copies # {}
       THEN UNCHANGED tableVars
       ELSE /\ rows' = rows \cup {RowOf(p)}
            /\ plan' = IF hand[p].kind = "planned" THEN hand[p].at ELSE plan
            /\ IF StaleAttempt(hand[p]) \/ AttemptIsAlreadyTerminal(hand[p]) \/ Newer(RowOf(p))
               THEN UNCHANGED run
               ELSE UpdateOperation(RowOf(p))
    /\ lock' = Nobody
    /\ pc' = [pc EXCEPT ![p] = "settle"]
    /\ hand' = [hand EXCEPT ![p] = NoEvent]
    /\ seen' = [seen EXCEPT ![p] = NothingSeen]
    /\ UNCHANGED <<clock, brokerVars, faults>>

\* The exception rolls the transaction back and the host abandons the message.
Refuse(p) ==
    /\ pc[p] = "write" /\ Raises(p)
    /\ lock' = Nobody
    /\ pc' = [pc EXCEPT ![p] = "idle"]
    /\ hand' = [hand EXCEPT ![p] = NoEvent]
    /\ seen' = [seen EXCEPT ![p] = NothingSeen]
    /\ IF session = p THEN GiveBack ELSE UNCHANGED <<queue, buried, deliveries, session>>
    /\ UNCHANGED <<clock, sent, sends, tableVars, faults>>

\* Mutant of Settle: the host never completes the message.
SettleNothing(p) ==
    /\ pc[p] = "settle"
    /\ pc' = [pc EXCEPT ![p] = "idle"]
    /\ IF session = p
       THEN deliveries' = 0 /\ session' = Nobody
       ELSE UNCHANGED <<deliveries, session>>
    /\ UNCHANGED <<clock, sent, sends, queue, buried, tableVars, lock, hand, seen, faults>>

\* The handler returned: the host completes the message, if it still may.
Settle(p) ==
    /\ pc[p] = "settle"
    /\ pc' = [pc EXCEPT ![p] = "idle"]
    /\ IF session = p
       THEN queue' = Tail(queue) /\ deliveries' = 0 /\ session' = Nobody
       ELSE UNCHANGED <<queue, deliveries, session>>
    /\ UNCHANGED <<clock, sent, sends, buried, tableVars, lock, hand, seen, faults>>

-----------------------------------------------------------------------------
\* Mutant of AppendBegin: the request does not take the projector's lock.
AppendBeginUnlocked ==
    /\ pc[Api] = "idle"
    /\ plan # 0 /\ Approval = {}
    /\ ReadHistory(Api, <<"approved", 1>>)
    /\ pc' = [pc EXCEPT ![Api] = "write"]
    /\ UNCHANGED <<clock, brokerVars, tableVars, lock, hand, faults>>

\* approve_and_enqueue_apply's append_activity_event, for a recorded plan.  The
\* event's data names no attempt, which counts as attempt 1.
AppendBegin ==
    /\ pc[Api] = "idle"
    /\ plan # 0 /\ Approval = {}
    /\ LockRun(Api)
    /\ ReadHistory(Api, <<"approved", 1>>)
    /\ pc' = [pc EXCEPT ![Api] = "write"]
    /\ UNCHANGED <<clock, brokerVars, tableVars, hand, faults>>

ApprovalRow == [kind |-> "approved", attempt |-> 1, at |-> clock, seq |-> seen[Api].next]

AppendWrite ==
    /\ pc[Api] = "write"
    /\ rows' = IF Violates(ApprovalRow) THEN rows ELSE rows \cup {ApprovalRow}
    /\ lock' = IF lock = Api THEN Nobody ELSE lock
    /\ pc' = [pc EXCEPT ![Api] = "idle"]
    /\ seen' = [seen EXCEPT ![Api] = NothingSeen]
    /\ UNCHANGED <<clock, brokerVars, run, plan, hand, faults>>

-----------------------------------------------------------------------------
\* A process dies, or its connection: the database rolls back and unlocks, and the
\* session's lock expires.
Crash(a) ==
    /\ faults < MaxFaults /\ pc[a] # "idle"
    /\ faults' = faults + 1
    /\ pc' = [pc EXCEPT ![a] = "idle"]
    /\ lock' = IF lock = a THEN Nobody ELSE lock
    /\ hand' = [p \in Projectors |-> IF p = a THEN NoEvent ELSE hand[p]]
    /\ seen' = [seen EXCEPT ![a] = NothingSeen]
    /\ IF session = a THEN GiveBack ELSE UNCHANGED <<queue, buried, deliveries, session>>
    /\ UNCHANGED <<clock, sent, sends, tableVars>>

\* The session's lock expires under a projector that still works.
LapseSession ==
    /\ faults < MaxFaults /\ session # Nobody
    /\ faults' = faults + 1
    /\ GiveBack
    /\ UNCHANGED <<clock, sent, sends, tableVars, actorVars>>

Work(p) == Receive(p) \/ Begin(p) \/ Project(p) \/ Refuse(p) \/ Settle(p)

Request == AppendBegin \/ AppendWrite

Next ==
    \/ Tick
    \/ \E e \in Event : Send(e)
    \/ \E p \in Projectors : Work(p)
    \/ Request
    \/ \E a \in Actors : Crash(a)
    \/ LapseSession

\* The function host runs as long as there are messages; an open transaction ends.
Fairness ==
    /\ \A p \in Projectors : WF_vars(Work(p))
    /\ WF_vars(AppendWrite)

Spec == Init /\ [][Next]_vars /\ Fairness

-----------------------------------------------------------------------------
\* Types.
TypeOK ==
    /\ clock \in 1 .. MaxClock
    /\ sent \subseteq Kinds \X (1 .. MaxAttempt) /\ sends \in 0 .. MaxSends
    /\ queue \in Seq(Event)
    /\ deliveries \in 0 .. MaxDeliveries
    /\ session \in Projectors \cup {Nobody}
    /\ buried \subseteq Event
    /\ rows \subseteq Row
    /\ run \in [status : {"queued", "started", "planned", "completed", "failed"},
                attempt : 0 .. MaxAttempt, ended : 0 .. MaxClock]
    /\ plan \in 0 .. MaxClock
    /\ lock \in Actors \cup {Nobody}
    /\ pc \in [Actors -> {"idle", "begin", "write", "settle"}]
    /\ hand \in [Projectors -> Event]
    /\ seen \in [Actors -> [copies : SUBSET rows, next : Nat \ {0}]]
    /\ faults \in 0 .. MaxFaults

\* The lock that the projector and the API share makes what a transaction read of
\* the timeline true until it writes: no writer loses a race for a sequence number
\* or an event id, so the projector raises on replays that differ and on nothing
\* else, and no event is dead-lettered because of a concurrent writer.
NoLostRace ==
    /\ \A p \in Projectors : pc[p] = "write" => ~Conflicts(p)
    /\ pc[Api] = "write" => ~Violates(ApprovalRow)

\* history_store.py: a terminal attempt is not regressed by a late event; only an
\* event of a later attempt takes the run out of completed or failed, whatever the
\* order of arrival, redeliveries and the projectors' interleaving.
TerminalIsFinal ==
    [][Terminal(run.status) /\ run'.status # run.status => run'.attempt > run.attempt]_vars

\* completed_at is set while the status is terminal and cleared when an attempt
\* reopens the run, which only the attempt's started event does: it outlives the
\* status if that event was dead-lettered.  And an apply that is the last event of
\* the last attempt, with no failure recorded before it, is what the run shows from
\* then on (history_store.py, project and _update_operation).
RunTellsItsHistory ==
    /\ Terminal(run.status) => run.ended # 0
    /\ run.ended # 0 => \/ Terminal(run.status)
                        \/ \E e \in buried : e.kind = "started" /\ e.attempt = run.attempt
    /\ \A r \in rows :
          /\ r.kind = "applied"
          /\ \A s \in rows \ {r} :
                /\ s.attempt <= r.attempt
                /\ s.attempt = r.attempt /\ s.seq < r.seq => s.at <= r.at /\ s.kind # "failed"
          => run.status = "completed" /\ run.ended = r.at

\* What the run shows follows from its events, and no writer spoils another's.
HistoryIsSound == TypeOK /\ NoLostRace /\ RunTellsItsHistory

\* No event blocks the run's session for ever: what is queued is projected, found
\* to be a duplicate, or dead-lettered.
QueueDrains == queue # <<>> ~> queue = <<>>
=============================================================================
