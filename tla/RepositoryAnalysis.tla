-------------------------- MODULE RepositoryAnalysis --------------------------
(***************************************************************************)
(* The analysis of one revision of a repository                            *)
(* (backend/services/repository_workflow.py and artifacts.py, the function *)
(* functions/repository_analysis, functions/common/zeroops_functions).     *)
(* A request stores what the scanner found and enqueues a job in one       *)
(* transaction; the function reads it, asks a model, stores the result     *)
(* under its digest and tells the history; the broker redelivers a job     *)
(* whose handler raised, stopped or lost its lock.  Every delivery is      *)
(* attempt 1, and the ids of its events are functions of the job.          *)
(*                                                                         *)
(* The outbox and the projector of the history are modelled by             *)
(* WorkflowOutbox and HistoryProjection: here a committed command is       *)
(* dispatched, and the events of the run are projected in their order.     *)
(***************************************************************************)
EXTENDS Naturals, Sequences

CONSTANTS
    Callers,       \* overlapping requests for an analysis of the revision
    Workers,       \* instances of the function
    NoOne,
    Scans,         \* what a scan of the revision may find: sets of evidence
    Answers,       \* well-formed answers of the model: the evidence each refers to
    NoAnswer,      \* no route gave one: the result has deterministic facts only
    MaxTries,      \* max_delivery_count of the queue
    MaxFailures    \* bound: failures of a call, crashes and locks that lapse

ASSUME ActorsAssumption == NoOne \notin Callers \cup Workers /\ NoAnswer \notin Answers
ASSUME TriesAssumption == MaxTries \in Nat \ {0} /\ MaxFailures \in Nat

VARIABLES
    caller,   \* where each request stands and what it scanned
    advisory, \* the caller that holds the advisory lock on the idempotency key
    inputs,   \* stored blobs <<caller, kind>>
    results,  \* stored results, each at the path of its digest
    record,   \* operation_runs, its two artifact rows and the outbox row, written together
    job,      \* the message of the job
    worker,   \* what each instance has in hand
    events,   \* events on their way to the projector
    sent,     \* ids of events that the broker remembers
    shown,    \* activity_events: the content of each id
    failures

tableVars == <<record, shown>>
busVars == <<job, events, sent>>
blobVars == <<inputs, results>>
analysisVars == <<caller, advisory, blobVars, tableVars, busVars, worker, failures>>

NoRecord == [by |-> NoOne, status |-> "none"]
Resting == [at |-> "rest", result |-> NoAnswer]

AnalysisInit ==
    /\ caller \in [Callers -> {[at |-> "new", scan |-> s] : s \in Scans}]
    /\ advisory = NoOne
    /\ inputs = {}
    /\ results = {}
    /\ record = NoRecord
    /\ job = [at |-> "none", lock |-> NoOne, tries |-> 0]
    /\ worker = [w \in Workers |-> Resting]
    /\ events = <<>>
    /\ sent = {}
    /\ shown = <<>>
    /\ failures = 0

-----------------------------------------------------------------------------
(* enqueue_repository_analysis *)

Goes(c, at) == caller' = [caller EXCEPT ![c].at = at]

\* _assert_operation_idempotency_match: the digest of what the caller scanned.
Mismatch(c) == record.by # NoOne /\ caller[record.by].scan # caller[c].scan

\* create_operation_run: the lock is held until the transaction ends.
Open(c) ==
    /\ caller[c].at = "new" /\ advisory = NoOne
    /\ IF record.by = NoOne
       THEN Goes(c, "source") /\ advisory' = c
       ELSE Goes(c, IF Mismatch(c) THEN "refused" ELSE "queued") /\ UNCHANGED advisory
    /\ UNCHANGED <<blobVars, tableVars, busVars, worker, failures>>

\* persist_user_artifact, once for the manifest and once for the facts.
Store(c) ==
    /\ \/ caller[c].at = "source" /\ Goes(c, "facts") /\ inputs' = inputs \cup {<<c, "source">>}
       \/ caller[c].at = "facts" /\ Goes(c, "commit") /\ inputs' = inputs \cup {<<c, "facts">>}
    /\ UNCHANGED <<advisory, results, tableVars, busVars, worker, failures>>

CommitRequest(c) ==
    /\ caller[c].at = "commit"
    /\ Goes(c, "queued")
    /\ advisory' = NoOne
    /\ record' = [by |-> c, status |-> "queued"]
    /\ UNCHANGED <<blobVars, shown, busVars, worker, failures>>

\* A step of the transaction fails or its process stops: the rows are rolled
\* back, the blob whose row was refused is deleted, and the user asks again.
RollBack(c) ==
    /\ advisory = c /\ failures < MaxFailures
    /\ failures' = failures + 1
    /\ Goes(c, "new")
    /\ advisory' = NoOne
    /\ \/ UNCHANGED inputs
       \/ caller[c].at = "facts" /\ inputs' = inputs \ {<<c, "source">>}
       \/ caller[c].at = "commit" /\ inputs' = inputs \ {<<c, "facts">>}
    /\ UNCHANGED <<results, tableVars, busVars, worker>>

Dispatch ==
    /\ record.by # NoOne /\ job.at = "none"
    /\ job' = [job EXCEPT !.at = "ready"]
    /\ UNCHANGED <<caller, advisory, blobVars, tableVars, events, sent, worker, failures>>

-----------------------------------------------------------------------------
(* handle_repository_analysis *)

\* The broker drops an event whose id it remembers, which it does for 10 minutes.
Send(event) ==
    \/ events' = Append(events, event) /\ sent' = sent \cup {event.id}
    \/ event.id \in sent /\ UNCHANGED <<events, sent>>

Fault == failures < MaxFailures /\ failures' = failures + 1
Holds(w) == job.lock = w

Goto(w, at) == worker' = [worker EXCEPT ![w].at = at]

\* Abandoned: the message is delivered again, or dead-lettered.
Returned(w) == IF Holds(w) THEN [job EXCEPT !.lock = NoOne, !.at = IF job.tries = MaxTries THEN "dead" ELSE "ready"]
               ELSE job

Receive(w) ==
    /\ worker[w] = Resting
    /\ job.at = "ready" /\ job.lock = NoOne /\ job.tries < MaxTries
    /\ job' = [job EXCEPT !.lock = w, !.tries = @ + 1]
    /\ Goto(w, "begin")
    /\ UNCHANGED <<caller, advisory, blobVars, tableVars, events, sent, failures>>

\* The started event is sent outside the handler's try.
Begin(w) ==
    /\ worker[w].at = "begin"
    /\ Goto(w, "work")
    /\ Send([id |-> "started", result |-> NoAnswer])
    /\ UNCHANGED <<caller, advisory, blobVars, tableVars, job, failures>>

\* The facts are read and verified against their digest and the job.
ReadFacts(w) ==
    /\ worker[w].at = "work"
    /\ <<record.by, "facts">> \in inputs
    /\ Goto(w, "ask")
    /\ UNCHANGED <<caller, advisory, blobVars, tableVars, busVars, failures>>

\* _validate_evidence
Supported(answer, facts) == answer \subseteq facts

Answered(w, answer) ==
    worker' = [worker EXCEPT ![w] = [at |-> "upload",
                                     result |-> [facts |-> caller[record.by].scan, answer |-> answer]]]

\* The one route gave nothing that may be used: it is not configured, does not
\* answer, or refers to what is not in the facts, which is not repaired.
Unassisted(w) == Answered(w, NoAnswer)

Asking(w) == worker[w].at \in {"ask", "repair"}

\* The model's reply; one that is not well-formed is repaired once.
Ask(w) ==
    /\ Asking(w)
    /\ \/ \E answer \in Answers :
             IF Supported(answer, caller[record.by].scan) THEN Answered(w, answer) ELSE Unassisted(w)
       \/ IF worker[w].at = "ask" THEN Goto(w, "repair") ELSE Unassisted(w)
       \/ Unassisted(w)
    /\ UNCHANGED <<caller, advisory, blobVars, tableVars, busVars, failures>>

\* Mutant of Stored: one path for the results of the job, overwritten.
StoredOver(result) == {result}

\* upload_immutable_bytes: the path contains the digest; what is there already
\* is verified.
Stored(result) == results \cup {result}

Upload(w) ==
    /\ worker[w].at = "upload"
    /\ results' = Stored(worker[w].result)
    /\ Goto(w, "report")
    /\ UNCHANGED <<caller, advisory, inputs, tableVars, busVars, failures>>

Completed(w) == [id |-> "completed", result |-> worker[w].result]

Report(w) ==
    /\ worker[w].at = "report"
    /\ Send(Completed(w))
    /\ Goto(w, "settle")
    /\ UNCHANGED <<caller, advisory, blobVars, tableVars, job, failures>>

\* Completed by the host, if the lock is still the instance's.
Settle(w) ==
    /\ worker[w].at = "settle"
    /\ job' = IF Holds(w) THEN [job EXCEPT !.at = "settled", !.lock = NoOne] ELSE job
    /\ worker' = [worker EXCEPT ![w] = Resting]
    /\ UNCHANGED <<caller, advisory, blobVars, tableVars, events, sent, failures>>

\* Any exception in the try; sending the completion may have succeeded all the same.
Raise(w) ==
    /\ worker[w].at \in {"work", "ask", "repair", "upload", "report"} /\ Fault
    /\ \/ UNCHANGED <<events, sent>>
       \/ worker[w].at = "report" /\ Send(Completed(w))
    /\ Goto(w, "raised")
    /\ UNCHANGED <<caller, advisory, blobVars, tableVars, job>>

\* Mutant of Fail: the exception is logged, and the handler returns.
FailLogged(w) ==
    /\ worker[w].at = "raised"
    /\ job' = IF Holds(w) THEN [job EXCEPT !.at = "settled", !.lock = NoOne] ELSE job
    /\ worker' = [worker EXCEPT ![w] = Resting]
    /\ UNCHANGED <<caller, advisory, blobVars, tableVars, events, sent, failures>>

Fail(w) ==
    /\ worker[w].at = "raised"
    /\ Send([id |-> "failed", result |-> NoAnswer])
    /\ job' = Returned(w)
    /\ worker' = [worker EXCEPT ![w] = Resting]
    /\ UNCHANGED <<caller, advisory, blobVars, tableVars, failures>>

\* The instance stops, or cannot send the started or the failed event.
Stop(w) ==
    /\ worker[w] # Resting /\ Fault
    /\ job' = Returned(w)
    /\ worker' = [worker EXCEPT ![w] = Resting]
    /\ UNCHANGED <<caller, advisory, blobVars, tableVars, events, sent>>

\* The lock is lost while the handler goes on.
LoseLock(w) ==
    /\ Holds(w) /\ Fault
    /\ job' = Returned(w)
    /\ UNCHANGED <<caller, advisory, blobVars, tableVars, events, sent, worker>>

-----------------------------------------------------------------------------
(* The projector *)

Terminal == {"completed", "degraded", "failed"}

\* _operation_status
StatusOf(event) ==
    IF event.id = "completed" THEN IF event.result.answer = NoAnswer THEN "degraded" ELSE "completed"
    ELSE IF event.id = "failed" THEN "failed" ELSE "repository_analysis_started"

\* An id that is known is the same event, or refused until it is dead-lettered.
Project ==
    /\ events # <<>>
    /\ LET event == Head(events) IN
       /\ events' = Tail(events)
       /\ IF \E i \in DOMAIN shown : shown[i].id = event.id
          THEN UNCHANGED tableVars
          ELSE /\ shown' = Append(shown, event)
               /\ record' = IF record.status \in Terminal THEN record
                            ELSE [record EXCEPT !.status = StatusOf(event)]
    /\ UNCHANGED <<caller, advisory, blobVars, job, sent, worker, failures>>

Progress ==
    \/ \E c \in Callers : Open(c) \/ Store(c) \/ CommitRequest(c)
    \/ Dispatch
    \/ \E w \in Workers : Receive(w) \/ Begin(w) \/ ReadFacts(w) \/ Ask(w) \/ Upload(w) \/ Report(w) \/ Settle(w) \/ Fail(w)
    \/ Project

AnalysisNext ==
    \/ Progress
    \/ \E c \in Callers : RollBack(c)
    \/ \E w \in Workers : Raise(w) \/ Stop(w) \/ LoseLock(w)

\* Callers finish what they began, the outbox dispatches, the broker delivers,
\* the handler and the projector return.
AnalysisFairness == WF_analysisVars(Progress)

AnalysisSpec == AnalysisInit /\ [][AnalysisNext]_analysisVars /\ AnalysisFairness

-----------------------------------------------------------------------------
(* Properties *)

\* An analysis that is shown as completed or degraded names a result that is in
\* the storage, made of the facts that the run is bound to and referring to
\* nothing else, and it is degraded exactly if no answer was usable, whatever was
\* delivered again or answered differently (upload_immutable_bytes, input_digest,
\* _validate_evidence, ON CONFLICT DO NOTHING).
ShownIsStored ==
    record.status \in {"completed", "degraded"} =>
        \E i \in DOMAIN shown :
            /\ shown[i].id = "completed"
            /\ shown[i].result \in results
            /\ shown[i].result.facts = caller[record.by].scan
            /\ shown[i].result.answer # NoAnswer => shown[i].result.answer \subseteq shown[i].result.facts
            /\ StatusOf(shown[i]) = record.status

\* A queued analysis ends for its user, unless the broker gave up its job.
QueuedAnalysisEnds == record.status = "queued" ~> record.status \in Terminal \/ job.at = "dead"
=============================================================================
