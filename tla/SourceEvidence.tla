---------------------------- MODULE SourceEvidence ----------------------------
(***************************************************************************)
(* What a pipeline run establishes about its source before anything is     *)
(* built: what changed in it since the project's last snapshot, whether    *)
(* the commands it asks for succeed, and what scanners say of it.  They    *)
(* share no state: a behaviour is about one of them.                       *)
(***************************************************************************)
EXTENDS ChangeDetection, RepositoryChecks, SecurityScans

VARIABLE question

evidenceVars == <<changeVars, checkVars, scanVars, question>>

NoVenue == venue = "none" /\ tree = CHOOSE t \in Trees : TRUE
OneCommit == commits = <<CHOOSE files \in Repositories : TRUE>>
NoScan == scan = [kind |-> "sbom", stage |-> "queued", image |-> FALSE, demo |-> FALSE]

\* The part that a behaviour is not about starts in one way only.
EvidenceInit ==
    /\ \/ question = "changes" /\ NoVenue /\ NoScan
       \/ question = "checks" /\ OneCommit /\ NoScan
       \/ question = "scans" /\ OneCommit /\ NoVenue
    /\ ChangesInit /\ ChecksInit /\ ScansInit

EvidenceNext ==
    /\ UNCHANGED question
    /\ \/ question = "changes" /\ ChangesNext /\ UNCHANGED <<checkVars, scanVars>>
       \/ question = "checks" /\ ChecksNext /\ UNCHANGED <<changeVars, scanVars>>
       \/ question = "scans" /\ ScansNext /\ UNCHANGED <<changeVars, checkVars>>

EvidenceSpec == EvidenceInit /\ [][EvidenceNext]_evidenceVars
=============================================================================
