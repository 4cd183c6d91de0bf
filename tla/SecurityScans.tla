---------------------------- MODULE SecurityScans ----------------------------
(***************************************************************************)
(* One security scan of a pipeline run (_run_security_stage in             *)
(* backend/services/pipeline.py): a scanner is run on the checkout or the  *)
(* image, what it says is validated (services/security_scanner.py), the    *)
(* validated result is stored (services/pipeline_evidence.py), and the     *)
(* stage ends as the result says.  A finding is the problem it is about,   *)
(* which is what its stored digest covers, and its severity.               *)
(***************************************************************************)
EXTENDS Naturals, Sequences, FiniteSets, SequencesExt

CONSTANTS
    Problems,    \* rules at places
    MaxReported, \* bound: findings in a report
    MaxFindings  \* _MAX_FINDINGS

ASSUME ScansAssumption == MaxReported \in Nat /\ MaxFindings \in Nat \ {0}

ScanKinds  == {"sast", "dependencies", "secrets", "container", "iac", "kubernetes", "sbom"}
Severities == <<"unknown", "low", "high", "critical">>
Rank(severity) == CHOOSE i \in DOMAIN Severities : Severities[i] = severity

\* A finding as a scanner reports it, which may leave out the severity.
Reportable == [problem : Problems, severity : ToSet(Severities)]

\* What a scanner does: it is not there, does not end in time, or ends with an exit
\* code and a report; its version may remain unknown.
Execution ==
    [ended : {"absent", "late", "exit"}, code : {"clean", "findings", "error"},
     report : {"empty", "invalid", "valid"}, findings : Seq(Reportable), version : BOOLEAN]

NoExecution == [ended |-> "absent", code |-> "error", report |-> "empty", findings |-> <<>>, version |-> FALSE]

Exit(code, report, findings, version) ==
    [ended |-> "exit", code |-> code, report |-> report, findings |-> findings, version |-> version]

Executions ==
    {NoExecution, [NoExecution EXCEPT !.ended = "late"]}
        \cup {Exit(code, report, <<>>, version) :
                 code \in {"clean", "findings", "error"}, report \in {"empty", "invalid", "valid"}, version \in BOOLEAN}
        \cup {Exit(code, "valid", findings, TRUE) :
                 code \in {"clean", "findings", "error"}, findings \in BoundedSeq(Reportable, MaxReported)}

VARIABLES
    scan,   \* the stage: its kind and status, whether an image was built, and a demonstration's policy
    tool,   \* what the scanner did
    outcome, \* the validated result
    rows    \* security_findings

scanVars == <<scan, tool, outcome, rows>>

NoResult == [status |-> "none", findings |-> <<>>]

ScansInit ==
    /\ scan \in [kind : ScanKinds, stage : {"queued"}, image : BOOLEAN, demo : BOOLEAN]
    /\ tool = NoExecution
    /\ outcome = NoResult
    /\ rows = {}

-----------------------------------------------------------------------------
(* What a report says *)

\* Gitleaks' findings are critical, Checkov's high where it does not say; an SBOM has none.
Assigned(kind, severity) ==
    IF kind = "secrets" THEN "critical"
    ELSE IF kind = "iac" /\ severity = "unknown" THEN "high" ELSE severity

Parsed(kind, x) ==
    IF kind = "sbom" THEN <<>>
    ELSE [i \in DOMAIN x.findings |-> [x.findings[i] EXCEPT !.severity = Assigned(kind, @)]]

\* Only Gitleaks may have nothing to say; the others have an envelope for it.
Validates(kind, x) == x.report = "valid" \/ (x.report = "empty" /\ kind = "secrets")

\* _TOOL_EXIT_CODES: Syft has no exit code for findings.
ExitCodes(kind) == IF kind = "sbom" THEN {"clean"} ELSE {"clean", "findings"}

\* An image is scanned by the digest its registry returned, with a login for that
\* registry; without one there is nothing to scan.
Scannable(s) == s.kind = "container" => s.image

\* A result is used if the scanner ended as it should and nothing contradicts it.
Usable(s, x) ==
    /\ x.ended = "exit"
    /\ Scannable(s)
    /\ Validates(s.kind, x)
    /\ x.code \in ExitCodes(s.kind)
    /\ x.code = "findings" => Parsed(s.kind, x) # <<>>
    /\ x.version

-----------------------------------------------------------------------------
(* The result *)

\* The policy of the pipeline, by which high findings never block, and that of the
\* container scan of a demonstration, by which none does.
BlocksCritical(s) == ~(s.kind = "container" /\ s.image /\ s.demo)

StatusFor(s, findings) ==
    IF BlocksCritical(s) /\ \E i \in DOMAIN findings : findings[i].severity = "critical" THEN "blocked"
    ELSE IF findings = <<>> THEN "passed" ELSE "warning"

OfSeverity(findings, severity) ==
    MapThenFoldSet(LAMBDA finding, kept : Append(kept, finding), <<>>, LAMBDA i : findings[i], Max,
                   {i \in DOMAIN findings : findings[i].severity = severity})

\* Mutant of Retained: the first findings of the report are kept.
RetainedInOrder(findings) == SubSeq(findings, 1, IF Len(findings) < MaxFindings THEN Len(findings) ELSE MaxFindings)

\* _retained_findings: "truncation can never hide a blocker".
Retained(findings) ==
    LET ranked == OfSeverity(findings, "critical") \o OfSeverity(findings, "high")
                      \o OfSeverity(findings, "low") \o OfSeverity(findings, "unknown")
    IN  SubSeq(ranked, 1, IF Len(ranked) < MaxFindings THEN Len(ranked) ELSE MaxFindings)

Result(s, x) ==
    IF Usable(s, x)
    THEN [status |-> StatusFor(s, Parsed(s.kind, x)), findings |-> Retained(Parsed(s.kind, x))]
    ELSE [status |-> "unavailable", findings |-> <<>>]

\* The stage is started and the scanner run in a thread.
RunScan ==
    /\ scan.stage = "queued"
    /\ scan' = [scan EXCEPT !.stage = "running"]
    /\ \E x \in Executions : tool' = x /\ outcome' = Result(scan, x)
    /\ UNCHANGED rows

-----------------------------------------------------------------------------
(* What is stored *)

\* One row for each problem, of the first finding about it.
Rows(findings, blocking) ==
    {[problem |-> findings[i].problem, severity |-> findings[i].severity,
      blocking |-> blocking /\ findings[i].severity \in {"critical", "high"}] :
        i \in {j \in DOMAIN findings : \A k \in 1 .. j - 1 : findings[k].problem # findings[j].problem}}

\* The findings and the end of the stage are committed together.
ConcludeScan ==
    /\ scan.stage = "running"
    /\ scan' = [scan EXCEPT !.stage = IF outcome.status \in {"passed", "warning"} THEN "succeeded" ELSE outcome.status]
    /\ rows' = Rows(outcome.findings, outcome.status = "blocked")
    /\ UNCHANGED <<tool, outcome>>

\* The lease is lost or the worker fails in between: the failure handler ends the stage.
AbandonScan ==
    /\ scan.stage = "running"
    /\ scan' = [scan EXCEPT !.stage = "failed"]
    /\ UNCHANGED <<tool, outcome, rows>>

ScansNext == RunScan \/ ConcludeScan \/ AbandonScan

-----------------------------------------------------------------------------
(* Properties *)

\* The worst that a scanner reported decides its stage and is on record, although
\* the report is cut to a number of findings and a problem is stored once: a stage
\* that succeeded met nothing critical that its policy blocks and was not told of
\* findings it could not read, and one that is blocked has the row that blocks it
\* (docs/devsecops.md, Security tools and policy).
WorstDecides ==
    LET reported == ToSet(Parsed(scan.kind, tool))
    IN  /\ scan.stage \in {"succeeded", "blocked"} =>
               /\ \A f \in reported : \E row \in rows : Rank(row.severity) >= Rank(f.severity)
               /\ \A f \in reported : \A row \in rows :
                      row.problem = f.problem => Rank(row.severity) >= Rank(f.severity)
        /\ scan.stage = "succeeded" =>
               /\ \A f \in reported : f.severity = "critical" => scan.demo /\ scan.kind = "container"
               /\ rows = {} => tool.ended = "exit" /\ tool.code = "clean"
        /\ scan.stage = "blocked" <=> \E row \in rows : row.blocking
=============================================================================
