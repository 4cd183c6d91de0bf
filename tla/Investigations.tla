--------------------------- MODULE Investigations ---------------------------
(***************************************************************************)
(* The investigation of a failed pipeline run                              *)
(* (_persist_failure_investigation in backend/services/pipeline.py): the   *)
(* worker records it as running, asks the model gateway, and records what  *)
(* came of it; the maintenance task of every API process (backend/main.py) *)
(* records those that were running for too long as unavailable.  Neither   *)
(* locks the row, and each writes the columns it changed.                  *)
(***************************************************************************)
EXTENDS ModelGateway

CONSTANT Daemons \* the maintenance tasks of the API processes

ASSUME WorkerAssumption == Askers # {}

VARIABLES
    investigation, \* ai_investigations, the row of the run
    old,           \* it was started more than 15 minutes ago
    investigator,  \* where the worker stands
    daemon,        \* daemons that have selected the row and not committed yet
    verdict        \* history: the call that the worker recorded, and whether after the 15 minutes

investigationVars == <<investigation, old, investigator, daemon, verdict, call>>

\* The one worker that runs the pipeline.
Worker == CHOOSE c \in Askers : TRUE

NoInvestigation == [status |-> "none", provider |-> "none", error |-> "none"]

InvestigationInit ==
    /\ investigation = NoInvestigation
    /\ old = FALSE
    /\ investigator = "failed"
    /\ daemon = {}
    /\ verdict = [contract |-> FALSE, late |-> FALSE]
    /\ GatewayInit

\* Diagnosis is switched off in the project's policy.
SkipDiagnosis ==
    /\ investigator = "failed" /\ investigation.status \in {"none", "queued", "running"}
    /\ investigation' = [status |-> "skipped", provider |-> "disabled-by-project-policy", error |-> "AI_DIAGNOSIS_DISABLED"]
    /\ investigator' = "done"
    /\ UNCHANGED <<old, daemon, verdict, call>>

\* Committed before the model is asked.
Investigate ==
    /\ investigator = "failed" /\ investigation.status \in {"none", "queued", "running"}
    /\ investigation' = [status |-> "running", provider |-> "pending", error |-> "none"]
    /\ investigator' = "asking"
    /\ Call(Worker, "repository_analysis")
    /\ UNCHANGED <<old, daemon, verdict>>

AskModel ==
    /\ investigator = "asking"
    /\ Proceed(Worker)
    /\ UNCHANGED <<investigation, old, investigator, daemon, verdict>>

\* validate_failure_review may turn down what satisfied the contract.
Reviewed(k) == k.at = "model"

Diagnosed(ai) ==
    IF ai THEN [status |-> "succeeded", provider |-> "azure-foundry", error |-> "none"]
    ELSE [status |-> "unavailable", provider |-> "azure-foundry", error |-> "AI_PROVIDER_UNAVAILABLE"]

\* The error of a success is the one that the worker had loaded: it is not
\* written, and one that a daemon wrote meanwhile stays.
RecordDiagnosis ==
    /\ investigator = "asking"
    /\ \E ai \in BOOLEAN :
          /\ ai => Reviewed(call[Worker])
          /\ investigation' = IF ai THEN [Diagnosed(ai) EXCEPT !.error = investigation.error] ELSE Diagnosed(ai)
    /\ Return(Worker)
    /\ investigator' = "done"
    /\ verdict' = [contract |-> call[Worker].contract, late |-> old]
    /\ UNCHANGED <<old, daemon>>

WorkerStops ==
    /\ investigator \in {"failed", "asking"}
    /\ investigator' = "gone"
    /\ call' = [call EXCEPT ![Worker] = NoCall]
    /\ UNCHANGED <<investigation, old, daemon, verdict>>

FifteenMinutes ==
    /\ investigation.status = "running" /\ ~old
    /\ old' = TRUE
    /\ UNCHANGED <<investigation, investigator, daemon, verdict, call>>

\* Mutant of Stale: only investigations that no worker has taken up.
StaleQueued == investigation.status = "queued" /\ old

Stale == investigation.status = "running" /\ old

SelectStale(d) ==
    /\ Stale /\ d \notin daemon
    /\ daemon' = daemon \cup {d}
    /\ UNCHANGED <<investigation, old, investigator, verdict, call>>

Interrupt(d) ==
    /\ d \in daemon
    /\ investigation' = [status |-> "unavailable", provider |-> "unavailable", error |-> "AI_INVESTIGATION_INTERRUPTED"]
    /\ daemon' = daemon \ {d}
    /\ UNCHANGED <<old, investigator, verdict, call>>

DaemonStops(d) ==
    /\ d \in daemon
    /\ daemon' = daemon \ {d}
    /\ UNCHANGED <<investigation, old, investigator, verdict, call>>

InvestigationNext ==
    \/ SkipDiagnosis \/ Investigate \/ AskModel \/ RecordDiagnosis \/ WorkerStops
    \/ FifteenMinutes
    \/ \E d \in Daemons : SelectStale(d) \/ Interrupt(d) \/ DaemonStops(d)

\* Time passes, and the daemons come round again and again; a process is not
\* stopped every time it has selected the row.
InvestigationFairness ==
    /\ WF_investigationVars(FifteenMinutes)
    /\ \A d \in Daemons : WF_investigationVars(SelectStale(d)) /\ SF_investigationVars(Interrupt(d))

-----------------------------------------------------------------------------
(* Properties *)

\* A diagnosis is shown as a model's only if its answer, the first or the
\* repaired one, satisfied the contract; it is shown without an error unless it
\* came when the investigation had been given up.
DiagnosisIsGenuine ==
    investigation.status = "succeeded" => verdict.contract /\ (investigation.error = "none" \/ verdict.late)

\* An investigation does not stay running, even when its worker stops.
InvestigationEnds == investigation.status = "running" ~> investigation.status \in {"succeeded", "unavailable"}
=============================================================================
