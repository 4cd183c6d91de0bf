--------------------------- MODULE ChangeDetection ---------------------------
(***************************************************************************)
(* What a pipeline run finds out about its source                          *)
(* (backend/services/change_detection.py, pipeline_evidence.py and         *)
(* repository_snapshot.py): the files of its commit are classified and     *)
(* fingerprinted, compared with the newest snapshot that another run of    *)
(* the project left, and the analysis of the repository is repeated or     *)
(* reused.  Runs of one project overlap: a snapshot is read at the         *)
(* beginning of a step that may ask a model, and written at its end.       *)
(*                                                                         *)
(* A repository has at most one file of each kind below, the kinds being   *)
(* those that the classifier tells apart; a hash of files is the files.    *)
(***************************************************************************)
EXTENDS Naturals, Sequences, Functions

CONSTANTS
    Runs,         \* pipeline runs of the project
    Repositories, \* first commits
    MaxCommits    \* bound: commits

ASSUME CommitsAssumption == MaxCommits \in Nat \ {0}

-----------------------------------------------------------------------------
(* Files: 0 is a file that does not exist.  A yaml file is a manifest in its *)
(* version 2 only; entry is application code that decides the framework;     *)
(* bundle is in a directory of generated files.                              *)

Kinds == {"readme", "bundle", "code", "entry", "auth", "lockfile", "dockerfile", "terraform", "chart", "yaml",
          "workflow", "compose", "env"}

ASSUME RepositoriesAssumption == Repositories \subseteq [Kinds -> 0 .. 2]

PathCategories ==
    [readme |-> {}, bundle |-> {}, yaml |-> {},
     code |-> {"application"}, entry |-> {"application"}, auth |-> {"security", "application"},
     lockfile |-> {"dependency"},
     dockerfile |-> {"deployment"}, workflow |-> {"deployment"}, env |-> {"deployment"},
     compose |-> {"deployment", "architecture"},
     terraform |-> {"infrastructure"}, chart |-> {"kubernetes"}]

\* With its content, a manifest is recognised wherever it is.
ContentCategories(k, content) ==
    IF k = "yaml" /\ content = 2 THEN {"kubernetes"} ELSE PathCategories[k]

Present(files) == {k \in Kinds : files[k] > 0}
FileCategories(files, k) == ContentCategories(k, files[k])

RepositoryCategories(files) == UNION {FileCategories(files, k) : k \in Present(files)}

\* Every category but application code asks for a new analysis.
TriggerCategories == {"dependency", "deployment", "infrastructure", "kubernetes", "security", "architecture"}

-----------------------------------------------------------------------------
(* The fingerprint of a commit *)

HashFiles(files, ks) == Restrict(files, ks \cap Present(files))

InCategory(files, categories) == {k \in Present(files) : FileCategories(files, k) \cap categories # {}}

\* Never the values of variables.
Names(files) == IF files["env"] > 0 THEN {"NAME"} ELSE {}

Fingerprint(files) ==
    [repository     |-> HashFiles(files, Kinds \ {"bundle", "env"}),
     dependency     |-> HashFiles(files, InCategory(files, {"dependency"})),
     dockerfile     |-> HashFiles(files, {"dockerfile"}),
     infrastructure |-> HashFiles(files, InCategory(files, {"infrastructure"})),
     kubernetes     |-> HashFiles(files, InCategory(files, {"kubernetes"})),
     configuration  |-> HashFiles(files, InCategory(files, {"deployment", "security", "architecture"})
                                             \ {"dockerfile", "env"}),
     framework      |-> files["entry"],
     names          |-> Names(files)]

Fields == {"repository", "dependency", "dockerfile", "infrastructure", "kubernetes", "configuration",
           "framework", "names"}

\* What the architecture fingerprint is computed from.
Architecture(files) == Restrict(Fingerprint(files), Fields \ {"repository"})

FieldCategory ==
    [dependency |-> "dependency", dockerfile |-> "deployment", infrastructure |-> "infrastructure",
     kubernetes |-> "kubernetes", configuration |-> "deployment", framework |-> "architecture",
     names |-> "deployment"]

-----------------------------------------------------------------------------
VARIABLES
    commits,   \* the commits of the branch in their order
    snapshots, \* repository_analysis_snapshots in the order of created_at
    analyses,  \* runs that have their row of change_analyses
    detection  \* where each run stands, what it found and decided

changeVars == <<commits, snapshots, analyses, detection>>

NoDecision == [required |-> FALSE, categories |-> {}]
NewRun == [at |-> "new", revision |-> 0, baseline |-> 0, decision |-> NoDecision]

ChangesInit ==
    /\ commits \in {<<files>> : files \in Repositories}
    /\ snapshots = <<>>
    /\ analyses = {}
    /\ detection = [r \in Runs |-> NewRun]

\* A commit adds, changes or removes one file.
Commits == {[commits[Len(commits)] EXCEPT ![k] = content] : k \in Kinds, content \in 0 .. 2} \ {commits[Len(commits)]}

Requested(r, revision) == detection' = [detection EXCEPT ![r].at = "detect", ![r].revision = revision]

\* A deployment or push takes the newest commit, the run after an approval that
\* of the run that waited.  Commits that no run takes are left out.
Request(r) ==
    /\ detection[r].at = "new"
    /\ \/ Requested(r, Len(commits)) /\ UNCHANGED commits
       \/ Len(commits) < MaxCommits /\ Requested(r, Len(commits) + 1)
            /\ \E files \in Commits : commits' = Append(commits, files)
       \/ /\ \E q \in Runs : detection[q].revision > 0 /\ Requested(r, detection[q].revision)
          /\ UNCHANGED commits
    /\ UNCHANGED <<snapshots, analyses>>

-----------------------------------------------------------------------------
(* Comparing *)

Files(r) == commits[detection[r].revision]

\* No run reads after it wrote, so that all are of other runs.
LatestSnapshot(r) == Len(snapshots)

\* The paths and categories that the diff gives: without a snapshot the whole
\* repository, with Git the paths that differ, without it nothing if the
\* repository's fingerprint is the same and else the whole repository again.
DiffCategories(before, files, git) ==
    CASE git -> UNION {PathCategories[k] : k \in {k \in Kinds : before[k] # files[k]}}
      [] ~git /\ Fingerprint(before).repository = Fingerprint(files).repository -> {}
      [] OTHER -> RepositoryCategories(files)

\* Mutant of Inferred: what the diff shows is taken to be complete.
InferredFromPaths(before, files) == {}

\* The categories of the fingerprints that differ.
Inferred(before, files) ==
    LET old == Fingerprint(before)
        new == Fingerprint(files)
    IN  {FieldCategory[f] : f \in {f \in Fields \ {"repository"} : old[f] # new[f]}}

FirstDecision(files) == [required |-> TRUE, categories |-> RepositoryCategories(files)]

\* A difference without a path, when nothing is left, counts as code.
Unexplained(before, files, git) ==
    IF ~git /\ Present(files) = {} /\ Fingerprint(before).repository # Fingerprint(files).repository
       /\ Inferred(before, files) = {}
    THEN {"application"} ELSE {}

\* decide_analysis_reuse
Decision(before, files, git) ==
    LET categories == DiffCategories(before, files, git) \cup Inferred(before, files)
                          \cup Unexplained(before, files, git)
    IN  [required |-> categories \cap TriggerCategories # {}, categories |-> categories]

\* Archives have no Git metadata, and fetching the baseline may fail.
Detect(r) ==
    /\ detection[r].at = "detect"
    /\ LET b == LatestSnapshot(r) IN
       \E git \in BOOLEAN :
          detection' = [detection EXCEPT ![r].at = "record", ![r].baseline = b,
                     ![r].decision = IF b = 0 THEN FirstDecision(Files(r))
                                     ELSE Decision(commits[snapshots[b].revision], Files(r), git)]
    /\ UNCHANGED <<commits, snapshots, analyses>>

-----------------------------------------------------------------------------
(* Recording *)

\* The newest snapshot when the run compared is of the same commit.
Identical(r) == detection[r].baseline > 0 /\ snapshots[detection[r].baseline].revision = detection[r].revision

\* uq_repository_snapshots_revision_fingerprint
Duplicate(r) == \E s \in DOMAIN snapshots : snapshots[s].revision = detection[r].revision

\* Mutant of Snapshot: the snapshot is looked up again when the run records.
SnapshotLookedUpAgain(r) ==
    [revision |-> detection[r].revision, reused |-> IF detection[r].decision.required THEN 0 ELSE Len(snapshots)]

Snapshot(r) ==
    [revision |-> detection[r].revision, reused |-> IF detection[r].decision.required THEN 0 ELSE detection[r].baseline]

\* _persist_pipeline_change_evidence, one transaction; the analysis before it,
\* of the model or deterministic, may take minutes.  A run whose worker stops or
\* loses its lease never takes this step.
Record(r) ==
    /\ detection[r].at = "record"
    /\ IF Identical(r)
       THEN /\ analyses' = analyses \cup {r}
            /\ detection' = [detection EXCEPT ![r].at = "recorded"]
            /\ UNCHANGED snapshots
       ELSE IF Duplicate(r)
       THEN /\ detection' = [detection EXCEPT ![r].at = "failed"]
            /\ UNCHANGED <<snapshots, analyses>>
       ELSE /\ analyses' = analyses \cup {r}
            /\ snapshots' = Append(snapshots, Snapshot(r))
            /\ detection' = [detection EXCEPT ![r].at = "recorded"]
    /\ UNCHANGED commits

ChangesNext == \E r \in Runs : Request(r) \/ Detect(r) \/ Record(r)

ChangesSpec == ChangesInit /\ [][ChangesNext]_changeVars

-----------------------------------------------------------------------------
(* Properties *)

\* The snapshot whose analysis a snapshot stands for.
Origin == LET origin[s \in DOMAIN snapshots] == IF snapshots[s].reused = 0 THEN s ELSE origin[snapshots[s].reused]
          IN  origin

\* However long the chain of reuse, and whichever runs overlapped with its
\* links: the analysis that a snapshot stands for was made of a repository with
\* the same architecture (decide_analysis_reuse, reused_from_snapshot_id).
ReuseIsSound ==
    \A s \in DOMAIN snapshots :
        Architecture(commits[snapshots[s].revision]) = Architecture(commits[snapshots[Origin[s]].revision])

\* What deploys differently: a manifest before or after, other variables, other
\* content of the remaining files.
Matters(k, before, after) ==
    /\ k \notin {"readme", "bundle", "code"}
    /\ k = "yaml" => 2 \in {before, after}
    /\ k = "env" => before = 0 \/ after = 0

\* No deployment-relevant change against the baseline is hidden, whatever
\* evidence there is of the difference (_diff_evidence: the fallback "can never
\* hide a deployment-relevant change"), and a change of infrastructure, which
\* closes the approval gate, is seen as one.
RelevantChangesAreSeen ==
    \A r \in Runs :
        detection[r].at \in {"record", "recorded"} /\ detection[r].baseline > 0 =>
            LET before == commits[snapshots[detection[r].baseline].revision]
                changed == {k \in Kinds : before[k] # Files(r)[k]}
            IN  /\ (\E k \in changed : Matters(k, before[k], Files(r)[k])) => detection[r].decision.required
                /\ "terraform" \in changed => "infrastructure" \in detection[r].decision.categories

\* A run is never refused its evidence: a fresh run of a commit that was analysed
\* before keeps a decision of its own (docs/change-detection.md, Retry history).
EveryRunKeepsItsEvidence == \A r \in Runs : detection[r].at # "failed"
=============================================================================
