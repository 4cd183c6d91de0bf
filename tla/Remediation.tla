----------------------------- MODULE Remediation -----------------------------
(***************************************************************************)
(* Incidents of one deployment and what is done about them                 *)
(* (backend/routes/devsecops.py, backend/services/incident_detection.py):  *)
(* the samples that collectors post, the rules over the latest of them, the *)
(* incidents they open or update, the owner's decisions, and the repeated  *)
(* health check that resolves an incident.  OwnerRequests run in several API    *)
(* processes, and none of them locks a row: each reads, works on what it   *)
(* read, and commits.                                                      *)
(*                                                                         *)
(* The eight rules are of three kinds.  Here are two of them: a metric over *)
(* a threshold in every sample of a window ("cpu"; memory, errors, latency *)
(* and availability are alike), and the state in the latest sample         *)
(* ("health"; failed pods are alike).  The restart burst compares the ends *)
(* of a window and opens incidents in the same way.                        *)
(***************************************************************************)
EXTENDS Naturals, Sequences, FiniteSetsExt

CONSTANTS
    Collectors,   \* posts of a sample that may be under way at the same time
    OwnerRequests,     \* requests of the owner that may be under way at the same time
    Window,       \* samples over which a condition must last (3)
    SampleLimit,  \* samples that the rules look at (10)
    MaxTime,      \* bound: instants of samples
    MaxIncidents, \* bound: incidents
    MaxAttempts   \* bound: executions of a proposal

ASSUME LimitsAssumption == {Window, SampleLimit, MaxTime, MaxIncidents, MaxAttempts} \subseteq Nat \ {0}

VARIABLES
    metrics,    \* deployment_metrics: the sample of each instant
    incidents,  \* incidents in the order of their creation
    proposals,  \* remediation_proposals: the status of the incident's proposal
    lapsed,     \* incidents whose proposal is older than its 24 hours
    executions, \* remediation_executions of each proposal, by attempt
    ingest,     \* posts of samples under way
    request,    \* requests under way
    deployed,   \* the deployment exists, with its address
    overlapped  \* history: two posts were under way at the same time

remediationVars == <<metrics, incidents, proposals, lapsed, executions, ingest, request, deployed, overlapped>>

Times == 1 .. MaxTime
Ids == 1 .. MaxIncidents
Rules == {"cpu", "health"}

\* A collector of the platform posts metrics, a health check a state, another both.
Samples == {[cpu |-> "high", health |-> "none"], [cpu |-> "low", health |-> "healthy"],
            [cpu |-> "none", health |-> "failed"]}
NoSample == [cpu |-> "absent", health |-> "absent"]

OpenStatuses == {"open", "investigating", "mitigated"}
ClosedStatuses == {"resolved", "dismissed"}

NoIngest == [at |-> "idle", time |-> 0, sample |-> NoSample, signals |-> {}, found |-> [r \in Rules |-> 0]]
NoOwnerRequest == [at |-> "idle", id |-> 0, n |-> 0, seen |-> "none"]

RemediationInit ==
    /\ metrics = [t \in Times |-> NoSample]
    /\ incidents = <<>>
    /\ proposals = [i \in Ids |-> "none"]
    /\ lapsed = {}
    /\ executions = [i \in Ids |-> <<>>]
    /\ ingest = [c \in Collectors |-> NoIngest]
    /\ request = [q \in OwnerRequests |-> NoOwnerRequest]
    /\ deployed = TRUE
    /\ overlapped = FALSE

-----------------------------------------------------------------------------
(* Detection: m gives the samples, NoSample where there is none *)

Latest(times, n) == {t \in times : Cardinality({u \in times : u > t}) < n}
Considered(m) == Latest({t \in Times : m[t] # NoSample}, SampleLimit)

\* Samples without the metric neither trigger the rule nor clear it.
SustainedWindow(m) == Latest({t \in Considered(m) : m[t].cpu # "none"}, Window)

CpuSignal(m) ==
    LET w == SustainedWindow(m) IN
    IF Cardinality(w) = Window /\ \A t \in w : m[t].cpu = "high"
    THEN {[rule |-> "cpu", first |-> Min(w), last |-> Max(w)]} ELSE {}

HealthSignal(m) ==
    {[rule |-> "health", first |-> t, last |-> t] : t \in {u \in Latest(Considered(m), 1) : m[u].health = "failed"}}

Signals(m) == CpuSignal(m) \cup HealthSignal(m)

-----------------------------------------------------------------------------
(* Posting a sample *)

\* Samples arrive late and out of order; two of one instant are left out.  The
\* rules are evaluated over what is committed and the sample itself.
IngestSample(c) ==
    /\ deployed
    /\ ingest[c] = NoIngest
    /\ \E t \in Times, s \in Samples :
          /\ metrics[t] = NoSample /\ \A d \in Collectors : ingest[d].time # t
          /\ ingest' = [ingest EXCEPT ![c] = [NoIngest EXCEPT !.at = "look", !.time = t, !.sample = s,
                                                 !.signals = Signals([metrics EXCEPT ![t] = s])]]
    /\ overlapped' = (overlapped \/ \E d \in Collectors \ {c} : ingest[d] # NoIngest)
    /\ UNCHANGED <<metrics, incidents, proposals, lapsed, executions, request, deployed>>

\* Mutant of OpenIncidents: an incident is looked for by the onset of its signal.
OpenIncidentsOfOnset(s) ==
    {i \in DOMAIN incidents : incidents[i].rule = s.rule /\ incidents[i].first = s.first
                              /\ incidents[i].status \in OpenStatuses}

OpenIncidents(s) == {i \in DOMAIN incidents : incidents[i].rule = s.rule /\ incidents[i].status \in OpenStatuses}

\* Of several open incidents any may come first.
LookForIncidents(c) ==
    /\ ingest[c].at = "look"
    /\ \E found \in [Rules -> 0 .. Len(incidents)] :
          /\ \A r \in Rules :
                LET open == UNION {OpenIncidents(s) : s \in {x \in ingest[c].signals : x.rule = r}}
                IN  IF open = {} THEN found[r] = 0 ELSE found[r] \in open
          /\ ingest' = [ingest EXCEPT ![c].at = "commit", ![c].found = found]
    /\ UNCHANGED <<metrics, incidents, proposals, lapsed, executions, request, deployed, overlapped>>

New(c) == {s \in ingest[c].signals : ingest[c].found[s.rule] = 0}
Known(c) == ingest[c].signals \ New(c)

\* uq_incidents_tenant_idempotency, whose key is the rule and its onset, and
\* ck_incidents_observed_order: the database refuses what breaks them.
Admitted(c) ==
    /\ \A s \in New(c) : \A i \in DOMAIN incidents : incidents[i].rule # s.rule \/ incidents[i].first # s.first
    /\ \A s \in Known(c) : s.last >= incidents[ingest[c].found[s.rule]].first

Updated(c) ==
    [i \in DOMAIN incidents |->
        IF \E s \in Known(c) : ingest[c].found[s.rule] = i
        THEN [incidents[i] EXCEPT !.last = (CHOOSE s \in Known(c) : ingest[c].found[s.rule] = i).last]
        ELSE incidents[i]]

Incident(s) == [rule |-> s.rule, first |-> s.first, last |-> s.last, status |-> "open"]

\* The incidents in the order of their rules, with the proposal of a failed state.
OpenedOf(c, r) ==
    LET new == {s \in New(c) : s.rule = r} IN IF new = {} THEN <<>> ELSE <<Incident(CHOOSE s \in new : TRUE)>>

Opened(c) == OpenedOf(c, "cpu") \o OpenedOf(c, "health")

\* The sample, the incidents and the proposals are one transaction: an incident
\* that is refused takes the sample with it.
CommitIngest(c) ==
    /\ ingest[c].at = "commit"
    /\ ingest' = [ingest EXCEPT ![c] = NoIngest]
    /\ IF Admitted(c)
       THEN LET opened == Opened(c) IN
            /\ Len(incidents) + Len(opened) <= MaxIncidents
            /\ metrics' = [metrics EXCEPT ![ingest[c].time] = ingest[c].sample]
            /\ incidents' = Updated(c) \o opened
            /\ proposals' = [i \in Ids |->
                  IF i - Len(incidents) \in DOMAIN opened
                  THEN IF opened[i - Len(incidents)].rule = "health" THEN "proposed" ELSE "none"
                  ELSE proposals[i]]
       ELSE UNCHANGED <<metrics, incidents, proposals>>
    /\ UNCHANGED <<lapsed, executions, request, deployed, overlapped>>

-----------------------------------------------------------------------------
(* Decisions of the owner: read, then commit *)

Opens(q, at, i, seen) ==
    /\ request[q] = NoOwnerRequest
    /\ request' = [request EXCEPT ![q] = [at |-> at, id |-> i, n |-> 0, seen |-> seen]]

Ends(q, at) == request[q].at = at /\ request' = [request EXCEPT ![q] = NoOwnerRequest]

WritesProposal(q, status) == proposals' = [proposals EXCEPT ![request[q].id] = status]
WritesIncident(q, status) == incidents' = [incidents EXCEPT ![request[q].id].status = status]

AskDismiss(q, i) == incidents[i].status # "resolved" /\ Opens(q, "dismiss", i, "none")

Dismiss(q) ==
    /\ Ends(q, "dismiss")
    /\ WritesIncident(q, "dismissed")
    /\ UNCHANGED <<proposals, executions>>

\* Approving and executing look at the time before they look at the status.
AskApprove(q, i) ==
    \/ i \in lapsed /\ Opens(q, "expire", i, "none")
    \/ i \notin lapsed /\ proposals[i] = "proposed" /\ Opens(q, "approve", i, "none")

AskReject(q, i) == proposals[i] \in {"proposed", "approved"} /\ Opens(q, "reject", i, "none")

AskExecute(q, i) ==
    \/ i \in lapsed /\ Opens(q, "expire", i, "none")
    \/ i \notin lapsed /\ proposals[i] \in {"proposed", "approved"} /\ Opens(q, "count", i, "none")

Decide(q) ==
    /\ \/ Ends(q, "approve") /\ WritesProposal(q, "approved")
       \/ Ends(q, "reject") /\ WritesProposal(q, "denied")
       \/ Ends(q, "expire") /\ WritesProposal(q, "expired")
    /\ UNCHANGED <<incidents, executions>>

-----------------------------------------------------------------------------
(* Executing the repeated health check *)

CountAttempts(q) ==
    /\ request[q].at = "count"
    /\ Len(executions[request[q].id]) < MaxAttempts
    /\ request' = [request EXCEPT ![q].at = "insert", ![q].n = Len(executions[request[q].id]) + 1]
    /\ UNCHANGED <<incidents, proposals, executions>>

\* uq_remediation_executions_proposal_attempt admits one execution of a number.
InsertExecution(q) ==
    LET i == request[q].id IN
    /\ request[q].at = "insert"
    /\ IF request[q].n = Len(executions[i]) + 1
       THEN /\ executions' = [executions EXCEPT ![i] = Append(@, "running")]
            /\ request' = [request EXCEPT ![q].at = "check"]
       ELSE /\ request' = [request EXCEPT ![q] = NoOwnerRequest]
            /\ UNCHANGED executions
    /\ UNCHANGED <<incidents, proposals>>

Concludes(q, status) == executions' = [executions EXCEPT ![request[q].id][request[q].n] = status]

\* No endpoint, or none with the name that the provider gave it.
NothingToCheck(q) ==
    /\ Ends(q, "check") /\ ~deployed
    /\ Concludes(q, "unavailable")
    /\ UNCHANGED <<incidents, proposals>>

\* The public endpoint answers; the incident is read before the commit.
CheckPasses(q) ==
    /\ request[q].at = "check" /\ deployed
    /\ request' = [request EXCEPT ![q].at = "conclude", ![q].seen = incidents[request[q].id].status]
    /\ UNCHANGED <<incidents, proposals, executions>>

\* Mutant of CheckFails: the incident is closed although the check failed.
CheckFailsQuietly(q) ==
    /\ Ends(q, "check")
    /\ Concludes(q, "failed")
    /\ WritesIncident(q, "resolved")
    /\ UNCHANGED proposals

CheckFails(q) ==
    /\ Ends(q, "check") /\ deployed
    /\ Concludes(q, "failed")
    /\ UNCHANGED <<incidents, proposals>>

\* Mutant of Conclude: an incident that was closed meanwhile gets back the status that was read.
ConcludeAsRead(q) ==
    /\ Ends(q, "conclude")
    /\ Concludes(q, "succeeded")
    /\ WritesProposal(q, "executed")
    /\ WritesIncident(q, request[q].seen)

Conclude(q) ==
    /\ Ends(q, "conclude")
    /\ Concludes(q, "succeeded")
    /\ WritesProposal(q, "executed")
    /\ IF request[q].seen \in ClosedStatuses THEN UNCHANGED incidents ELSE WritesIncident(q, "resolved")

-----------------------------------------------------------------------------
AskRemediation(q, i) ==
    /\ \/ AskDismiss(q, i)
       \/ proposals[i] # "none" /\ (AskApprove(q, i) \/ AskReject(q, i) \/ AskExecute(q, i))
    /\ UNCHANGED <<incidents, proposals, executions>>

Answer(q) ==
    \/ Dismiss(q)
    \/ Decide(q)
    \/ CountAttempts(q)
    \/ InsertExecution(q)
    \/ NothingToCheck(q)
    \/ CheckPasses(q)
    \/ CheckFails(q)
    \/ Conclude(q)

\* The process that serves the request stops: before the first commit of the
\* request that is as if it had not been made.
AbandonRequest(q) ==
    /\ request[q].at \in {"check", "conclude"}
    /\ request' = [request EXCEPT ![q] = NoOwnerRequest]
    /\ UNCHANGED <<incidents, proposals, executions>>

\* 24 hours pass after a proposal was made.
LapseProposal(i) ==
    /\ proposals[i] # "none" /\ i \notin lapsed
    /\ lapsed' = lapsed \cup {i}
    /\ UNCHANGED <<metrics, incidents, proposals, executions, ingest, request, deployed, overlapped>>

\* Incidents and proposals outlive their deployment.
DeleteDeployment ==
    /\ deployed
    /\ deployed' = FALSE
    /\ UNCHANGED <<metrics, incidents, proposals, lapsed, executions, ingest, request, overlapped>>

RemediationNext ==
    \/ \E c \in Collectors : IngestSample(c) \/ LookForIncidents(c) \/ CommitIngest(c)
    \/ \E q \in OwnerRequests :
          /\ (\E i \in DOMAIN incidents : AskRemediation(q, i)) \/ Answer(q) \/ AbandonRequest(q)
          /\ UNCHANGED <<metrics, lapsed, ingest, deployed, overlapped>>
    \/ \E i \in Ids : LapseProposal(i)
    \/ DeleteDeployment

RemediationSpec == RemediationInit /\ [][RemediationNext]_remediationVars

-----------------------------------------------------------------------------
(* Properties *)

\* Without two posts at the same time a condition that lasts, disappears behind
\* samples of other kinds or is reported late has one open incident
\* (docs/monitoring.md: updated rather than duplicated).
OneOpenIncident ==
    ~overlapped => \A i, j \in DOMAIN incidents :
        i # j /\ incidents[i].rule = incidents[j].rule =>
            incidents[i].status \in ClosedStatuses \/ incidents[j].status \in ClosedStatuses

\* An incident is resolved only by a repeated check that was executed and
\* passed, whatever other requests decided meanwhile.
ResolvedWasChecked ==
    \A i \in DOMAIN incidents :
        incidents[i].status = "resolved" => \E n \in DOMAIN executions[i] : executions[i][n] = "succeeded"

\* The incidents of a deployment are one per condition, and end with a check.
IncidentsAreSound == OneOpenIncident /\ ResolvedWasChecked

\* What a request or a late sample finds out about a closed incident never
\* opens it again.
ClosedStaysClosed ==
    [][\A i \in DOMAIN incidents : incidents[i].status \in ClosedStatuses => incidents'[i].status \in ClosedStatuses]_remediationVars
=============================================================================
