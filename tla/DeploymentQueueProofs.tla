------------------------ MODULE DeploymentQueueProofs ------------------------
(***************************************************************************)
(* What the release queue promises, proved for any number of jobs, workers,*)
(* attempts, faults and API start-ups.                                     *)
(***************************************************************************)
EXTENDS DeploymentQueue, TLAPS

-----------------------------------------------------------------------------
(* Typing. *)

\* A disposition is always one the job table has a status for.
LEMMA DispositionTypes ==
    /\ \A r \in Workers, j \in Jobs : DispositionStatus[WorkerDisposition(r)[j]] \in JobStatuses
    /\ \A j \in Jobs : DispositionStatus[ApiDisposition[j]] \in JobStatuses
  BY DEF DispositionStatus, WorkerDisposition, ApiDisposition, StaleJobDisposition,
         FallbackDisposition, JobStatuses

\* Before the first deployment every row and worker is well typed.
LEMMA TypeInit == Init => TypeOK
  BY MaxAttemptsAssumption, BoundsAssumption
     DEF Init, TypeOK, RowTypes, RecordTypes, WorkerTypes, EnvTypes, JobStatuses, ReleaseStatuses,
         RunStates, ExecutionStatuses, StopOutcomes, Phases, Polling, NoClaim

\* Moving a worker on, stopping it and retiring it keep the worker's types.
LEMMA GotoTypes ==
    ASSUME WorkerTypes, NEW w \in Workers, NEW p \in Phases, Goto(w, p)
    PROVE  pc' \in [Workers -> Phases]
  BY DEF WorkerTypes, Goto

\* A pipeline that stops records one of the outcomes it may record.
LEMMA StopTypes ==
    ASSUME WorkerTypes, NEW w \in Workers, NEW how \in StopOutcomes, Stop(w, how)
    PROVE  pc' \in [Workers -> Phases] /\ stopAs' \in [Workers -> StopOutcomes]
  BY GotoTypes DEF WorkerTypes, Stop, Phases, Pipeline, Goto

\* A worker that gives its claim back returns to its polling loop.
LEMMA RetireTypes ==
    ASSUME WorkerTypes, NEW w \in Workers, Retire(w)
    PROVE  WorkerTypes'
  BY MaxAttemptsAssumption DEF WorkerTypes, Retire, Goto, NoClaim, Phases, Polling, StopOutcomes

\* _mark_job writes a settled status and clears the lease, or nothing.
LEMMA MarkJobTypes ==
    ASSUME RowTypes, NEW w \in Workers, NEW status \in JobStatuses, MarkJob(w, status)
    PROVE  RowTypes'
<1>1. CASE Owns(w)
  <2>1. 0 \in 0 .. MaxAttempts
    BY MaxAttemptsAssumption
  <2> QED
    BY <1>1, <2>1 DEF RowTypes, MarkJob
<1>2. CASE ~Owns(w)
  BY <1>2 DEF RowTypes, MarkJob, rowVars
<1> QED
  BY <1>1, <1>2

\* A reconciliation gives every seized row a status the table allows.
LEMMA ReleaseRowsTypes ==
    ASSUME RowTypes, EnvTypes, NEW r \in Reconcilers, NEW disposition, ReleaseRows(r, disposition),
           \A j \in Jobs : DispositionStatus[disposition[j]] \in JobStatuses
    PROVE  RowTypes' /\ scan' \in [Reconcilers -> [Jobs -> ReleaseStatuses \cup {NotSelected}]]
<1>1. jobStatus' \in [Jobs -> JobStatuses]
  BY DEF RowTypes, ReleaseRows
<1>2. leaseExpired' \in [Jobs -> BOOLEAN]
  BY DEF RowTypes, ReleaseRows
<1>3. leaseToken' \in [Jobs -> 0 .. MaxAttempts]
  <2>1. 0 \in 0 .. MaxAttempts
    BY MaxAttemptsAssumption
  <2>2. \A j \in Jobs : leaseToken[j] \in 0 .. MaxAttempts
    BY DEF RowTypes
  <2> QED
    BY <2>1, <2>2, Zenon DEF ReleaseRows
<1> QED
  BY <1>1, <1>2, <1>3 DEF RowTypes, EnvTypes, ReleaseRows

\* No handler writes a value its column does not allow.
LEMMA TypeStep == TypeOK /\ [Next]_vars => TypeOK'
<1> SUFFICES ASSUME TypeOK, [Next]_vars PROVE TypeOK'
  OBVIOUS
<1> USE MaxAttemptsAssumption, BoundsAssumption, NamesAssumption
    DEF TypeOK, rowVars, recordVars, workerVars, envVars
<1>1. ASSUME NEW j \in Jobs, StartDeploy(j) PROVE TypeOK'
  BY <1>1 DEF RowTypes, RecordTypes, WorkerTypes, EnvTypes, StartDeploy, JobStatuses, ReleaseStatuses
<1>2. ASSUME NEW j \in Jobs, ExpireLease(j) PROVE TypeOK'
  BY <1>2 DEF RowTypes, RecordTypes, WorkerTypes, EnvTypes, ExpireLease
<1>3. ASSUME NEW w \in Workers, PollQueue(w) PROVE TypeOK'
  BY <1>3 DEF RowTypes, RecordTypes, WorkerTypes, EnvTypes, PollQueue, Select, Reconcilers, Phases, Polling
<1>4. ASSUME NEW w \in Workers, RecoverStaleJobs(w) PROVE TypeOK'
  <2>1. RowTypes' /\ EnvTypes'
    BY <1>4, DispositionTypes, ReleaseRowsTypes DEF RecoverStaleJobs, Reconcilers, EnvTypes
  <2>2. RecordTypes'
    BY <1>4 DEF RecordTypes, RecoverStaleJobs, ReleaseStatuses
  <2>3. WorkerTypes'
    BY <1>4 DEF WorkerTypes, RecoverStaleJobs, Phases, Polling
  <2> QED
    BY <2>1, <2>2, <2>3
<1>5. ASSUME NEW w \in Workers, NEW j \in Jobs, ClaimJob(w, j) PROVE TypeOK'
  BY <1>5 DEF RowTypes, RecordTypes, WorkerTypes, EnvTypes, ClaimJob, Claimable, JobStatuses, Phases, Preparing
<1>6. ASSUME NEW w \in Workers, ClaimNothing(w) PROVE TypeOK'
  BY <1>6 DEF RowTypes, RecordTypes, WorkerTypes, EnvTypes, ClaimNothing, Phases, Polling
<1>7. ASSUME NEW w \in Workers, Heartbeat(w) \/ HeartbeatFails(w) PROVE TypeOK'
  BY <1>7 DEF RowTypes, RecordTypes, WorkerTypes, EnvTypes, Heartbeat, HeartbeatFails
<1>8. ASSUME NEW w \in Workers, PersistMetadata(w) \/ BeginPipeline(w) \/ FailBeforePipeline(w)
      PROVE TypeOK'
  BY <1>8 DEF RowTypes, RecordTypes, WorkerTypes, EnvTypes, PersistMetadata, BeginPipeline,
              FailBeforePipeline, Goto, ReleaseStatuses, Phases, Preparing, Pipeline, Recording
<1>9. ASSUME NEW w \in Workers, EnterPipeline(w) PROVE TypeOK'
  <2>1. RowTypes' /\ EnvTypes'
    BY <1>9 DEF EnterPipeline, RowTypes, EnvTypes
  <2>2. RecordTypes'
    BY <1>9 DEF EnterPipeline, RecordTypes, RunStates, ExecutionStatuses
  <2>3. WorkerTypes'
    BY <1>9, StopTypes, GotoTypes
       DEF EnterPipeline, WorkerTypes, StopOutcomes, Phases, Pipeline
  <2> QED
    BY <2>1, <2>2, <2>3
<1>10. ASSUME NEW w \in Workers, PipelineStops(w) PROVE TypeOK'
  BY <1>10, StopTypes DEF PipelineStops, RowTypes, RecordTypes, WorkerTypes, EnvTypes
<1>11. ASSUME NEW w \in Workers, NEW release \in {"running", "stopped"}, Conclude(w, release) PROVE TypeOK'
  <2>1. RowTypes' /\ EnvTypes'
    BY <1>11 DEF Conclude, RowTypes, EnvTypes
  <2>2. RecordTypes'
    BY <1>11 DEF Conclude, RecordTypes, RunStates, ExecutionStatuses, ReleaseStatuses
  <2>3. WorkerTypes'
    BY <1>11, StopTypes, GotoTypes
       DEF Conclude, WorkerTypes, StopOutcomes, Phases, Recording
  <2> QED
    BY <2>1, <2>2, <2>3
<1>12. ASSUME NEW w \in Workers, StartRollout(w) \/ RollOut(w) PROVE TypeOK'
  <2>1. RowTypes' /\ EnvTypes'
    BY <1>12 DEF StartRollout, RollOut, RowTypes, EnvTypes
  <2>2. RecordTypes'
    BY <1>12 DEF StartRollout, RollOut, RecordTypes, ReleaseStatuses
  <2>3. WorkerTypes'
    BY <1>12, StopTypes, GotoTypes
       DEF StartRollout, RollOut, WorkerTypes, StopOutcomes, Phases, Pipeline
  <2> QED
    BY <2>1, <2>2, <2>3
<1>13. ASSUME NEW w \in Workers, HandlePipelineFailure(w) PROVE TypeOK'
  <2>1. RowTypes' /\ EnvTypes'
    BY <1>13 DEF HandlePipelineFailure, RowTypes, EnvTypes
  <2>2. stopAs[w] \in StopOutcomes
    BY DEF WorkerTypes
  <2>3. RecordTypes'
    BY <1>13, <2>2
       DEF HandlePipelineFailure, RunStates, RecordTypes, StopOutcomes, ExecutionStatuses, ReleaseStatuses
  <2>4. WorkerTypes'
    BY <1>13, GotoTypes DEF HandlePipelineFailure, WorkerTypes, Phases, Recording
  <2> QED
    BY <2>1, <2>3, <2>4
<1>14. ASSUME NEW w \in Workers, FailureHandlerFails(w) \/ Crash(w) PROVE TypeOK'
  <2>1. RowTypes' /\ RecordTypes' /\ EnvTypes'
    BY <1>14 DEF FailureHandlerFails, Crash, RowTypes, RecordTypes, EnvTypes, Reconcilers
  <2>2. WorkerTypes'
    BY <1>14, RetireTypes, GotoTypes DEF FailureHandlerFails, Crash, WorkerTypes, Phases, Recording
  <2> QED
    BY <2>1, <2>2
<1>15. ASSUME NEW w \in Workers, ReadOutcome(w) \/ RecordOutcome(w) \/ RecordError(w) PROVE TypeOK'
  <2>1. RowTypes'
    BY <1>15, MarkJobTypes DEF ReadOutcome, RecordOutcome, RecordError, JobStatuses, RowTypes
  <2>2. RecordTypes' /\ EnvTypes'
    BY <1>15 DEF ReadOutcome, RecordOutcome, RecordError, RecordTypes, EnvTypes
  <2>3. WorkerTypes'
    BY <1>15, RetireTypes, GotoTypes DEF ReadOutcome, RecordOutcome, RecordError, WorkerTypes, Phases, Recording
  <2> QED
    BY <2>1, <2>2, <2>3
<1>16. ASSUME NEW w \in Workers, FailDeployment(w) PROVE TypeOK'
  <2>1. RowTypes' /\ RecordTypes' /\ EnvTypes'
    BY <1>16 DEF FailDeployment, RowTypes, RecordTypes, EnvTypes, ReleaseStatuses
  <2> QED
    BY <1>16, <2>1, RetireTypes DEF FailDeployment
<1>17. CASE ApiStart
  BY <1>17 DEF RowTypes, RecordTypes, WorkerTypes, EnvTypes, ApiStart, Select, Reconcilers
<1>18. CASE RecoverInterruptedDeployments
  <2>1. RowTypes' /\ EnvTypes'
    BY <1>18, DispositionTypes, ReleaseRowsTypes DEF RecoverInterruptedDeployments, Reconcilers, EnvTypes
  <2>2. RecordTypes' /\ WorkerTypes'
    BY <1>18 DEF RecordTypes, WorkerTypes, RecoverInterruptedDeployments, ReleaseStatuses
  <2> QED
    BY <2>1, <2>2
<1>19. ASSUME NEW j \in Jobs, RejectPipelineRun(j) PROVE TypeOK'
  BY <1>19 DEF RowTypes, RecordTypes, WorkerTypes, EnvTypes, RejectPipelineRun, RunStates,
               ExecutionStatuses, ReleaseStatuses
<1>20. CASE UNCHANGED vars
  BY <1>20 DEF RowTypes, RecordTypes, WorkerTypes, EnvTypes, vars
<1> QED
  BY <1>1, <1>2, <1>3, <1>4, <1>5, <1>6, <1>7, <1>8, <1>9, <1>10, <1>11, <1>12, <1>13, <1>14,
     <1>15, <1>16, <1>17, <1>18, <1>19, <1>20 DEF Next, WorkerStep, FinishValidation, FinishRelease

\* Every variable of the queue keeps to its values.
THEOREM TypeCorrect == Spec => []TypeOK
  BY TypeInit, TypeStep, PTL DEF Spec

-----------------------------------------------------------------------------
(***************************************************************************)
(* The inductive invariant.  A release is a ticket that is spent when a    *)
(* worker moves it out of "queued": nothing ever moves it back, so one     *)
(* worker in the whole life of the release holds the spent ticket, whether *)
(* or not it still owns the claim.                                         *)
(***************************************************************************)
Unspent == {"absent", "queued"}

\* Inside the pipeline, or returned from it and about to record its outcome.
HoldsTicket(w) == pc[w] \in Pipeline \cup {"finished", "completing", "refusing"}

\* A release that was never submitted has no trace, and one that nobody
\* started awaits no approval.
AbsentIsPristine ==
    \A j \in Jobs :
        /\ jobStatus[j] = "absent" <=> depStatus[j] = "absent"
        /\ jobStatus[j] = "absent" => attemptCount[j] = 0
        /\ depStatus[j] \in {"absent", "queued"} => runStatus[j] # "awaiting_approval"

TicketIsSpent == \A w \in Workers : HoldsTicket(w) => depStatus[claim[w].job] \notin Unspent

OneTicketHolder ==
    \A v, w \in Workers : HoldsTicket(v) /\ HoldsTicket(w) /\ claim[v].job = claim[w].job => v = w

ClaimsAJob == \A w \in Workers : pc[w] \in Executing => claim[w].job \in Jobs

\* The rollouts a release has seen follow from its ticket and from where the
\* ticket's holder stands.
RolloutsMatchPhase ==
    /\ \A j \in Jobs : cloudCalls[j] <= 1 /\ (depStatus[j] \in Unspent => cloudCalls[j] = 0)
    /\ \A w \in Workers :
          /\ pc[w] \in {"enter", "checks", "rollout"} => cloudCalls[claim[w].job] = 0
          /\ pc[w] = "verify" => cloudCalls[claim[w].job] = 1

\* A reconciliation that read "running" meets a release that still is, unless
\* the job was settled behind its back.
ScanIsStillTrue ==
    \A r \in Reconcilers, j \in Jobs :
        scan[r][j] = "running" =>
            /\ runStatus[j] = "succeeded"
            /\ cloudCalls[j] = 1
            /\ depStatus[j] = "running" \/ jobStatus[j] \in SettledJobs

\* Nobody is left to move a release that was completed without being live.
StoppedIsQuiet ==
    \A w \in Workers, j \in Jobs :
        jobStatus[j] = "completed" /\ depStatus[j] = "stopped" /\ claim[w].job = j => ~HoldsTicket(w)

\* What a worker read before it completes the job is still so when it writes,
\* unless the job was settled meanwhile and its write finds no row.
ReadingStands ==
    \A w \in Workers :
        pc[w] = "completing" => EndedWell(claim[w].job) \/ jobStatus[claim[w].job] \in SettledJobs

Safe ==
    /\ AbsentIsPristine
    /\ ClaimsAJob
    /\ TicketIsSpent
    /\ OneTicketHolder
    /\ RolloutsMatchPhase
    /\ RunningIsVerified
    /\ ScanIsStillTrue
    /\ StoppedIsQuiet
    /\ ReadingStands
    /\ CompletionIsTruthful
    /\ QueuedIsClaimable

IInv == TypeOK /\ Safe

-----------------------------------------------------------------------------
(* Three ways a step can leave the invariant alone. *)

\* What the holder of a ticket knows about its release.
LEMMA TicketHolder ==
    ASSUME IInv, NEW w \in Workers, HoldsTicket(w), NEW j, j = claim[w].job
    PROVE  /\ j \in Jobs
           /\ depStatus[j] \notin Unspent
           /\ jobStatus[j] # "absent"
           /\ jobStatus[j] = "completed" =>
                 depStatus[j] = "running" /\ runStatus[j] = "succeeded" /\ cloudCalls[j] = 1
           /\ depStatus[j] = "running" => runStatus[j] = "succeeded" /\ cloudCalls[j] = 1
<1>1. j \in Jobs
  BY DEF IInv, Safe, ClaimsAJob, HoldsTicket, Executing, Pipeline, Recording
<1>2. depStatus[j] \notin Unspent
  BY DEF IInv, Safe, TicketIsSpent
<1>3. jobStatus[j] # "absent"
  BY <1>1, <1>2 DEF IInv, Safe, AbsentIsPristine, Unspent
<1>4. depStatus[j] = "running" => runStatus[j] = "succeeded" /\ cloudCalls[j] = 1
  BY <1>1 DEF IInv, Safe, RunningIsVerified
<1>5. jobStatus[j] = "completed" => depStatus[j] = "running"
  BY <1>1 DEF IInv, Safe, CompletionIsTruthful, EndedWell, StoppedIsQuiet
<1> QED
  BY <1>1, <1>2, <1>3, <1>4, <1>5

\* No worker takes a ticket or moves on inside the pipeline.
WorkersHoldBack ==
    \A v \in Workers :
        /\ HoldsTicket(v)' => HoldsTicket(v) /\ claim'[v].job = claim[v].job
        /\ pc'[v] \in {"enter", "checks", "rollout", "verify"} => pc'[v] = pc[v]
        /\ pc'[v] = "completing" => pc[v] = "completing" \/ EndedWell(claim[v].job)
        /\ pc'[v] \in Executing => claim'[v].job \in Jobs

NoNewScan == \A r \in Reconcilers, j \in Jobs : scan'[r][j] = "running" => scan[r][j] = "running"

\* The records are untouched and so are the rows, leases apart.
LEMMA QuietStep ==
    ASSUME IInv, UNCHANGED <<jobStatus, attemptCount, depStatus, runStatus, cloudCalls>>,
           WorkersHoldBack, NoNewScan
    PROVE  Safe'
<1>1. AbsentIsPristine' /\ QueuedIsClaimable' /\ RunningIsVerified' /\ CompletionIsTruthful'
  BY DEF IInv, Safe, AbsentIsPristine, QueuedIsClaimable, RunningIsVerified, CompletionIsTruthful, EndedWell
<1>2. ClaimsAJob'
  BY DEF ClaimsAJob, WorkersHoldBack
<1>3. TicketIsSpent'
  BY DEF IInv, Safe, TicketIsSpent, WorkersHoldBack
<1>4. OneTicketHolder'
  BY DEF IInv, Safe, OneTicketHolder, WorkersHoldBack
<1>5. RolloutsMatchPhase'
  BY DEF IInv, Safe, RolloutsMatchPhase, WorkersHoldBack, HoldsTicket, Pipeline
<1>6. ScanIsStillTrue'
  BY DEF IInv, Safe, ScanIsStillTrue, NoNewScan
<1>7. StoppedIsQuiet'
  BY DEF IInv, Safe, StoppedIsQuiet, WorkersHoldBack
<1>8. ReadingStands'
  <2>1. \A v \in Workers : pc'[v] = "completing" => claim'[v].job = claim[v].job
    BY DEF WorkersHoldBack, HoldsTicket
  <2> QED
    BY <2>1 DEF IInv, Safe, ReadingStands, WorkersHoldBack, EndedWell
<1> QED
  BY <1>1, <1>2, <1>3, <1>4, <1>5, <1>6, <1>7, <1>8 DEF Safe

\* The holder of a ticket moves on and writes the records of its release.
LEMMA HolderStep ==
    ASSUME IInv, TypeOK', NEW w \in Workers, HoldsTicket(w), NEW j, j = claim[w].job,
           UNCHANGED <<jobStatus, attemptCount, claim, scan>>,
           \A v \in Workers \ {w} : pc'[v] = pc[v],
           pc'[w] \in Executing \ {"completing"},
           \A i \in Jobs \ {j} : /\ depStatus'[i] = depStatus[i]
                                 /\ runStatus'[i] = runStatus[i]
                                 /\ cloudCalls'[i] = cloudCalls[i],
           depStatus'[j] \notin Unspent,
           cloudCalls'[j] <= 1,
           pc'[w] \in {"enter", "checks", "rollout"} => cloudCalls'[j] = 0,
           pc'[w] = "verify" => cloudCalls'[j] = 1,
           depStatus'[j] = "running" => runStatus'[j] = "succeeded" /\ cloudCalls'[j] = 1,
           runStatus[j] = "succeeded" /\ cloudCalls[j] = 1 =>
               /\ runStatus'[j] = "succeeded"
               /\ cloudCalls'[j] = 1
               /\ depStatus'[j] \in {depStatus[j], "running"}
    PROVE  Safe'
<1>1. /\ j \in Jobs
      /\ depStatus[j] \notin Unspent
      /\ jobStatus[j] # "absent"
      /\ jobStatus[j] = "completed" =>
            depStatus[j] = "running" /\ runStatus[j] = "succeeded" /\ cloudCalls[j] = 1
  BY TicketHolder
<1>2. AbsentIsPristine' /\ QueuedIsClaimable'
  BY <1>1 DEF IInv, Safe, AbsentIsPristine, QueuedIsClaimable, Unspent
<1>3. ClaimsAJob'
  BY <1>1 DEF IInv, Safe, ClaimsAJob
<1>4. \A v \in Workers \ {w} : HoldsTicket(v)' <=> HoldsTicket(v)
  BY DEF HoldsTicket
<1>5. \A v \in Workers \ {w} : HoldsTicket(v) => claim[v].job # j /\ claim[v].job \in Jobs
  BY DEF IInv, Safe, OneTicketHolder, ClaimsAJob, HoldsTicket, Executing, Pipeline, Recording
<1>6. TicketIsSpent'
  BY <1>4, <1>5 DEF IInv, Safe, TicketIsSpent
<1>7. OneTicketHolder'
  BY <1>4, <1>5 DEF IInv, Safe, OneTicketHolder
<1>8. RolloutsMatchPhase'
  <2>1. \A i \in Jobs : cloudCalls'[i] <= 1 /\ (depStatus'[i] \in Unspent => cloudCalls'[i] = 0)
    BY DEF IInv, Safe, RolloutsMatchPhase
  <2>2. \A v \in Workers :
           /\ pc'[v] \in {"enter", "checks", "rollout"} => cloudCalls'[claim[v].job] = 0
           /\ pc'[v] = "verify" => cloudCalls'[claim[v].job] = 1
    BY <1>5 DEF IInv, Safe, RolloutsMatchPhase, HoldsTicket, Pipeline
  <2> QED
    BY <2>1, <2>2 DEF RolloutsMatchPhase
<1>9. RunningIsVerified'
  BY DEF IInv, Safe, RunningIsVerified
<1>10. ScanIsStillTrue'
  BY DEF IInv, Safe, ScanIsStillTrue
<1>11. CompletionIsTruthful'
  BY <1>1 DEF IInv, Safe, CompletionIsTruthful, EndedWell
<1>12. StoppedIsQuiet'
  BY <1>1, <1>4, <1>5 DEF IInv, Safe, StoppedIsQuiet
<1>13. ReadingStands'
  <2>1. ASSUME NEW v \in Workers, pc'[v] = "completing"
        PROVE  EndedWell(claim[v].job)' \/ jobStatus'[claim'[v].job] \in SettledJobs
    <3>1. v # w /\ pc[v] = "completing" /\ claim'[v] = claim[v]
      BY <2>1
    <3>2. claim[v].job \in Jobs \ {j}
      BY <1>5, <3>1 DEF HoldsTicket
    <3>3. EndedWell(claim[v].job) \/ jobStatus[claim[v].job] \in SettledJobs
      BY <3>1 DEF IInv, Safe, ReadingStands
    <3> QED
      BY <3>1, <3>2, <3>3 DEF EndedWell
  <2> QED
    BY <2>1 DEF ReadingStands
<1> QED
  BY <1>2, <1>3, <1>6, <1>7, <1>8, <1>9, <1>10, <1>11, <1>12, <1>13 DEF Safe

-----------------------------------------------------------------------------
(* The invariant holds initially and every step keeps it. *)

\* The invariant holds while no release exists.
LEMMA SafeInit == Init => Safe
<1> SUFFICES ASSUME Init PROVE Safe
  OBVIOUS
<1>1. \A w \in Workers : pc[w] = "idle" /\ ~HoldsTicket(w) /\ pc[w] \notin Executing /\ pc[w] # "completing"
  BY DEF Init, HoldsTicket, Pipeline, Executing, Preparing, Recording
<1>2. \A j \in Jobs : /\ jobStatus[j] = "absent" /\ depStatus[j] = "absent" /\ runStatus[j] = "queued"
                  /\ attemptCount[j] = 0 /\ cloudCalls[j] = 0
  BY DEF Init
<1>3. \A r \in Reconcilers, j \in Jobs : scan[r][j] # "running"
  BY DEF Init, NotSelected
<1> QED
  BY <1>1, <1>2, <1>3
     DEF Safe, AbsentIsPristine, ClaimsAJob, TicketIsSpent, OneTicketHolder, RolloutsMatchPhase,
         RunningIsVerified, ScanIsStillTrue, StoppedIsQuiet, ReadingStands, CompletionIsTruthful, QueuedIsClaimable

\* A worker that retires, or goes where no ticket is needed, holds nothing new.
LEMMA Retreat ==
    ASSUME IInv, NEW w \in Workers,
           \A v \in Workers \ {w} : pc'[v] = pc[v] /\ claim'[v] = claim[v],
           pc'[w] \in Polling \/ (pc'[w] \in Executing /\ claim'[w] = claim[w] /\ pc[w] \in Executing),
           HoldsTicket(w)' => HoldsTicket(w),
           pc'[w] \in {"enter", "checks", "rollout", "verify"} => pc'[w] = pc[w],
           pc'[w] = "completing" => EndedWell(claim[w].job)
    PROVE  WorkersHoldBack
<1>1. pc'[w] \in Polling => ~HoldsTicket(w)' /\ pc'[w] \notin Executing
  BY DEF HoldsTicket, Polling, Executing, Preparing, Pipeline, Recording
<1>2. \A v \in Workers \ {w} : HoldsTicket(v)' <=> HoldsTicket(v)
  BY DEF HoldsTicket
<1> QED
  BY <1>1, <1>2 DEF IInv, Safe, ClaimsAJob, WorkersHoldBack

\* A reconciliation that selects sees only releases that are what they say.
LEMMA SelectStep ==
    ASSUME IInv, NEW r \in Reconcilers, Select(r), WorkersHoldBack,
           UNCHANGED <<jobStatus, attemptCount, depStatus, runStatus, cloudCalls>>
    PROVE  Safe'
<1>1. \A q \in Reconcilers, j \in Jobs :
         scan'[q][j] = "running" => scan[q][j] = "running" \/ depStatus[j] = "running"
  BY DEF IInv, TypeOK, EnvTypes, Select, NotSelected
<1>2. ScanIsStillTrue'
  BY <1>1 DEF IInv, Safe, ScanIsStillTrue, RunningIsVerified
<1>3. AbsentIsPristine' /\ QueuedIsClaimable' /\ RunningIsVerified' /\ CompletionIsTruthful'
  BY DEF IInv, Safe, AbsentIsPristine, QueuedIsClaimable, RunningIsVerified, CompletionIsTruthful, EndedWell
<1>4. ClaimsAJob' /\ TicketIsSpent' /\ OneTicketHolder' /\ StoppedIsQuiet'
  BY DEF IInv, Safe, ClaimsAJob, TicketIsSpent, OneTicketHolder, StoppedIsQuiet, WorkersHoldBack
<1>5. RolloutsMatchPhase'
  BY DEF IInv, Safe, RolloutsMatchPhase, WorkersHoldBack, HoldsTicket, Pipeline
<1>6. ReadingStands'
  <2>1. \A v \in Workers : pc'[v] = "completing" => claim'[v].job = claim[v].job
    BY DEF WorkersHoldBack, HoldsTicket
  <2> QED
    BY <2>1 DEF IInv, Safe, ReadingStands, WorkersHoldBack, EndedWell
<1> QED
  BY <1>2, <1>3, <1>4, <1>5, <1>6 DEF Safe

\* A reconciliation or a worker gives claims up and fails releases: claims only
\* leave "running", and a release that is running is failed only with its job.
LEMMA GiveUpStep ==
    ASSUME IInv, WorkersHoldBack, NoNewScan, UNCHANGED <<attemptCount, runStatus, cloudCalls>>,
           \A i \in Jobs :
               \/ jobStatus'[i] = jobStatus[i]
               \/ /\ jobStatus[i] = "running"
                  /\ \/ jobStatus'[i] = "queued" /\ attemptCount[i] < MaxAttempts
                     \/ jobStatus'[i] \in {"failed", "cancelled"}
                     \/ jobStatus'[i] = "completed" /\ depStatus[i] = "running",
           \A i \in Jobs :
               \/ depStatus'[i] = depStatus[i]
               \/ /\ depStatus'[i] = "failed"
                  /\ jobStatus'[i] \notin {"absent", "completed"}
                  /\ depStatus[i] \in {"running", "stopped"} => jobStatus'[i] = "failed"
    PROVE  Safe'
<1>1. AbsentIsPristine' /\ QueuedIsClaimable'
  BY DEF IInv, Safe, AbsentIsPristine, QueuedIsClaimable
<1>2. RunningIsVerified' /\ CompletionIsTruthful'
  BY DEF IInv, Safe, RunningIsVerified, CompletionIsTruthful, EndedWell
<1>3. ScanIsStillTrue'
  BY DEF IInv, Safe, ScanIsStillTrue, NoNewScan, SettledJobs
<1>4. ClaimsAJob'
  BY DEF ClaimsAJob, WorkersHoldBack
<1>5. TicketIsSpent' /\ OneTicketHolder'
  <2>1. \A v \in Workers : HoldsTicket(v) => claim[v].job \in Jobs
    BY DEF IInv, Safe, ClaimsAJob, HoldsTicket, Executing, Pipeline, Recording
  <2> QED
    BY <2>1 DEF IInv, Safe, TicketIsSpent, OneTicketHolder, WorkersHoldBack, Unspent
<1>6. RolloutsMatchPhase'
  BY DEF IInv, Safe, RolloutsMatchPhase, WorkersHoldBack, HoldsTicket, Pipeline, Unspent
<1>7. StoppedIsQuiet'
  BY DEF IInv, Safe, StoppedIsQuiet, WorkersHoldBack
<1>8. ReadingStands'
  <2>1. ASSUME NEW v \in Workers, pc'[v] = "completing"
        PROVE  EndedWell(claim[v].job)' \/ jobStatus'[claim'[v].job] \in SettledJobs
    <3> DEFINE i == claim[v].job
    <3>1. claim'[v].job = i /\ HoldsTicket(v) /\ i \in Jobs
      BY <2>1 DEF WorkersHoldBack, HoldsTicket, IInv, Safe, ClaimsAJob, Executing, Pipeline, Recording
    <3>2. EndedWell(i) \/ jobStatus[i] \in SettledJobs
      BY <2>1 DEF WorkersHoldBack, IInv, Safe, ReadingStands
    <3>3. jobStatus[i] \in SettledJobs => jobStatus'[i] \in SettledJobs
      BY <3>1 DEF SettledJobs
    <3>4. EndedWell(i) => EndedWell(i)' \/ jobStatus'[i] \in SettledJobs
      BY <3>1 DEF EndedWell, SettledJobs
    <3> QED
      BY <3>1, <3>2, <3>3, <3>4 DEF EndedWell
  <2> QED
    BY <2>1 DEF ReadingStands
<1> QED
  BY <1>1, <1>2, <1>3, <1>4, <1>5, <1>6, <1>7, <1>8 DEF Safe

\* Every handler keeps the invariant, whoever else is working.
LEMMA SafeStep == IInv /\ TypeOK' /\ [Next]_vars => Safe'
<1> SUFFICES ASSUME IInv, TypeOK', [Next]_vars PROVE Safe'
  OBVIOUS
<1> USE DEF IInv
<1>1. ASSUME NEW j \in Jobs, StartDeploy(j) PROVE Safe'
  <2>1. depStatus[j] = "absent" /\ attemptCount[j] = 0 /\ cloudCalls[j] = 0
    BY <1>1 DEF StartDeploy, Safe, AbsentIsPristine, RolloutsMatchPhase, Unspent
  <2>2. \A v \in Workers : HoldsTicket(v) => claim[v].job # j
    BY <2>1 DEF Safe, TicketIsSpent, Unspent
  <2>3. \A v \in Workers : HoldsTicket(v)' <=> HoldsTicket(v)
    BY <1>1 DEF StartDeploy, workerVars, HoldsTicket
  <2>4. /\ \A i \in Jobs \ {j} : jobStatus'[i] = jobStatus[i] /\ depStatus'[i] = depStatus[i]
        /\ jobStatus'[j] = "queued" /\ depStatus'[j] = "queued"
        /\ UNCHANGED <<attemptCount, runStatus, cloudCalls, pc, claim, scan>>
    BY <1>1 DEF StartDeploy, TypeOK, RowTypes, RecordTypes, workerVars
  <2>5. AbsentIsPristine' /\ ClaimsAJob' /\ RunningIsVerified' /\ CompletionIsTruthful'
    BY <2>1, <2>4 DEF Safe, AbsentIsPristine, ClaimsAJob, RunningIsVerified, CompletionIsTruthful, EndedWell
  <2>6. TicketIsSpent' /\ OneTicketHolder' /\ StoppedIsQuiet'
    BY <2>2, <2>3, <2>4
       DEF Safe, TicketIsSpent, OneTicketHolder, StoppedIsQuiet, ClaimsAJob, HoldsTicket, Executing,
           Pipeline, Recording
  <2>7. RolloutsMatchPhase'
    BY <2>1, <2>4 DEF Safe, RolloutsMatchPhase
  <2>8. ScanIsStillTrue'
    BY <1>1, <2>1, <2>4 DEF StartDeploy, Safe, ScanIsStillTrue, SettledJobs
  <2>9. QueuedIsClaimable'
    BY <2>1, <2>4, MaxAttemptsAssumption DEF Safe, QueuedIsClaimable
  <2>10. ReadingStands'
    <3>1. \A v \in Workers : pc[v] = "completing" => claim[v].job \in Jobs \ {j}
      BY <2>2 DEF HoldsTicket, Safe, ClaimsAJob, Executing, Recording
    <3> QED
      BY <2>4, <3>1 DEF Safe, ReadingStands, EndedWell
  <2> QED
    BY <2>5, <2>6, <2>7, <2>8, <2>9, <2>10 DEF Safe
<1>2. ASSUME NEW j \in Jobs, ExpireLease(j) PROVE Safe'
  BY <1>2, QuietStep
     DEF ExpireLease, WorkersHoldBack, NoNewScan, recordVars, workerVars, HoldsTicket, Safe, ClaimsAJob
<1>3. ASSUME NEW w \in Workers, PollQueue(w) PROVE Safe'
  <2>1. WorkersHoldBack
    BY <1>3, Retreat DEF PollQueue, TypeOK, WorkerTypes, Polling, HoldsTicket, Pipeline
  <2>2. UNCHANGED <<jobStatus, attemptCount, depStatus, runStatus, cloudCalls>>
    BY <1>3 DEF PollQueue, rowVars, recordVars
  <2> QED
    BY <1>3, <2>1, <2>2, SelectStep DEF PollQueue, Reconcilers
<1>4. ASSUME NEW w \in Workers, RecoverStaleJobs(w) PROVE Safe'
  <2>1. WorkersHoldBack
    BY <1>4, Retreat DEF RecoverStaleJobs, TypeOK, WorkerTypes, Polling, HoldsTicket, Pipeline
  <2>2. NoNewScan /\ UNCHANGED <<attemptCount, runStatus, cloudCalls>>
    BY <1>4 DEF RecoverStaleJobs, ReleaseRows, NoNewScan, NotSelected, TypeOK, EnvTypes, Reconcilers
  <2>3. ASSUME NEW i \in Jobs
        PROVE  \/ jobStatus'[i] = jobStatus[i]
               \/ /\ jobStatus[i] = "running"
                  /\ \/ jobStatus'[i] = "queued" /\ attemptCount[i] < MaxAttempts
                     \/ jobStatus'[i] \in {"failed", "cancelled"}
                     \/ jobStatus'[i] = "completed" /\ depStatus[i] = "running"
    <3>1. CASE ~Seized(w, i)
      BY <1>4, <3>1 DEF RecoverStaleJobs, ReleaseRows
    <3>2. CASE Seized(w, i)
      <4>1. jobStatus'[i] = DispositionStatus[WorkerDisposition(w)[i]] /\ jobStatus[i] = "running"
        BY <1>4, <3>2 DEF RecoverStaleJobs, ReleaseRows, Seized, Stale
      <4>2. scan[w][i] = "running" => depStatus[i] = "running"
        BY <4>1 DEF Safe, ScanIsStillTrue, SettledJobs, Reconcilers
      <4> QED
        BY <4>1, <4>2 DEF DispositionStatus, WorkerDisposition, StaleJobDisposition
    <3> QED
      BY <3>1, <3>2
  <2>4. ASSUME NEW i \in Jobs
        PROVE  \/ depStatus'[i] = depStatus[i]
               \/ /\ depStatus'[i] = "failed"
                  /\ jobStatus'[i] \notin {"absent", "completed"}
                  /\ depStatus[i] \in {"running", "stopped"} => jobStatus'[i] = "failed"
    BY <1>4 DEF RecoverStaleJobs, ReleaseRows, DispositionStatus
  <2> QED
    BY <2>1, <2>2, <2>3, <2>4, GiveUpStep
<1>5. ASSUME NEW w \in Workers, NEW j \in Jobs, ClaimJob(w, j) PROVE Safe'
  <2>1. /\ pc'[w] = "prepare" /\ claim'[w].job = j
        /\ \A v \in Workers \ {w} : pc'[v] = pc[v] /\ claim'[v] = claim[v]
        /\ jobStatus[j] = "queued" /\ jobStatus'[j] = "running"
        /\ \A i \in Jobs \ {j} : jobStatus'[i] = jobStatus[i] /\ attemptCount'[i] = attemptCount[i]
        /\ UNCHANGED <<depStatus, runStatus, cloudCalls, scan>>
    BY <1>5 DEF ClaimJob, Claimable, TypeOK, RowTypes, WorkerTypes, recordVars
  <2>2. \A v \in Workers : HoldsTicket(v)' => v # w /\ HoldsTicket(v) /\ claim'[v] = claim[v]
    BY <2>1 DEF HoldsTicket, Pipeline
  <2>3. AbsentIsPristine' /\ RunningIsVerified' /\ CompletionIsTruthful' /\ QueuedIsClaimable'
    BY <2>1 DEF Safe, AbsentIsPristine, RunningIsVerified, CompletionIsTruthful, EndedWell, QueuedIsClaimable
  <2>4. ClaimsAJob'
    BY <2>1 DEF Safe, ClaimsAJob
  <2>5. TicketIsSpent' /\ OneTicketHolder'
    BY <2>1, <2>2 DEF Safe, TicketIsSpent, OneTicketHolder
  <2>6. StoppedIsQuiet'
    BY <2>1, <2>2 DEF Safe, StoppedIsQuiet
  <2>7. RolloutsMatchPhase'
    BY <2>1 DEF Safe, RolloutsMatchPhase
  <2>8. ScanIsStillTrue'
    BY <2>1 DEF Safe, ScanIsStillTrue, SettledJobs
  <2>9. ReadingStands'
    <3>1. \A v \in Workers : pc'[v] = "completing" => v # w /\ pc[v] = "completing" /\ claim'[v] = claim[v]
                                                    /\ claim[v].job \in Jobs
      BY <2>1 DEF Safe, ClaimsAJob, Executing, Recording
    <3>2. jobStatus[j] \notin SettledJobs
      BY <2>1 DEF SettledJobs
    <3> QED
      BY <2>1, <3>1, <3>2 DEF Safe, ReadingStands, EndedWell
  <2> QED
    BY <2>3, <2>4, <2>5, <2>6, <2>7, <2>8, <2>9 DEF Safe
<1>6. ASSUME NEW w \in Workers, ClaimNothing(w) PROVE Safe'
  <2>1. WorkersHoldBack
    BY <1>6, Retreat DEF ClaimNothing, TypeOK, WorkerTypes, Polling, HoldsTicket, Pipeline
  <2> QED
    BY <1>6, <2>1, QuietStep DEF ClaimNothing, NoNewScan, rowVars, recordVars
<1>7. ASSUME NEW w \in Workers, Heartbeat(w) \/ HeartbeatFails(w) PROVE Safe'
  BY <1>7, QuietStep
     DEF Heartbeat, HeartbeatFails, WorkersHoldBack, NoNewScan, rowVars, recordVars, HoldsTicket, Safe, ClaimsAJob
<1>8. ASSUME NEW w \in Workers, PersistMetadata(w) \/ FailBeforePipeline(w) PROVE Safe'
  <2>1. WorkersHoldBack
    BY <1>8, Retreat
       DEF PersistMetadata, FailBeforePipeline, Goto, TypeOK, WorkerTypes, HoldsTicket, Executing,
           Preparing, Pipeline, Recording
  <2> QED
    BY <1>8, <2>1, QuietStep DEF PersistMetadata, FailBeforePipeline, NoNewScan, rowVars, recordVars
<1>9. ASSUME NEW w \in Workers, BeginPipeline(w) PROVE Safe'
  <2> DEFINE j == claim[w].job
  <2>1. j \in Jobs /\ depStatus[j] = "queued" /\ jobStatus[j] = "running" /\ cloudCalls[j] = 0
    BY <1>9 DEF BeginPipeline, Owns, Safe, RolloutsMatchPhase, Unspent
  <2>2. /\ \A i \in Jobs \ {j} : depStatus'[i] = depStatus[i]
        /\ depStatus'[j] = "building"
        /\ \A v \in Workers \ {w} : pc'[v] = pc[v]
        /\ pc'[w] = "enter"
        /\ UNCHANGED <<jobStatus, attemptCount, runStatus, cloudCalls, claim, scan>>
    BY <1>9, <2>1 DEF BeginPipeline, Goto, TypeOK, RecordTypes, WorkerTypes, rowVars
  <2>3. \A v \in Workers \ {w} : HoldsTicket(v)' <=> HoldsTicket(v)
    BY <2>2 DEF HoldsTicket
  <2>4. \A v \in Workers : HoldsTicket(v) => claim[v].job # j
    BY <2>1 DEF Safe, TicketIsSpent, Unspent
  <2>5. AbsentIsPristine' /\ RunningIsVerified' /\ CompletionIsTruthful' /\ QueuedIsClaimable'
    BY <2>1, <2>2
       DEF Safe, AbsentIsPristine, RunningIsVerified, CompletionIsTruthful, EndedWell, QueuedIsClaimable
  <2>6. ClaimsAJob'
    BY <2>1, <2>2 DEF Safe, ClaimsAJob
  <2>7. TicketIsSpent'
    BY <2>2, <2>3, <2>4 DEF Safe, TicketIsSpent, ClaimsAJob, HoldsTicket, Executing, Pipeline, Recording, Unspent
  <2>8. OneTicketHolder'
    BY <2>2, <2>3, <2>4 DEF Safe, OneTicketHolder
  <2>9. RolloutsMatchPhase'
    BY <2>1, <2>2, <2>4 DEF Safe, RolloutsMatchPhase, Unspent
  <2>10. ScanIsStillTrue'
    BY <2>1, <2>2 DEF Safe, ScanIsStillTrue, SettledJobs
  <2>11. StoppedIsQuiet'
    BY <2>1, <2>2, <2>3 DEF Safe, StoppedIsQuiet
  <2>12. ReadingStands'
    <3>1. \A v \in Workers : pc'[v] = "completing" => pc[v] = "completing" /\ claim[v].job \in Jobs \ {j}
      BY <2>2, <2>4 DEF HoldsTicket, Safe, ClaimsAJob, Executing, Recording
    <3> QED
      BY <2>2, <3>1 DEF Safe, ReadingStands, EndedWell
  <2> QED
    BY <2>5, <2>6, <2>7, <2>8, <2>9, <2>10, <2>11, <2>12 DEF Safe
<1>10. ASSUME NEW w \in Workers, EnterPipeline(w) PROVE Safe'
  <2> DEFINE j == claim[w].job
  <2>1. HoldsTicket(w)
    BY <1>10 DEF EnterPipeline, HoldsTicket, Pipeline
  <2>2. /\ j \in Jobs
        /\ depStatus[j] \notin Unspent
        /\ depStatus[j] = "running" => runStatus[j] = "succeeded" /\ cloudCalls[j] = 1
    BY <2>1, TicketHolder
  <2>3. cloudCalls[j] = 0
    BY <1>10, <2>2 DEF EnterPipeline, Safe, RolloutsMatchPhase
  <2>4. /\ UNCHANGED <<jobStatus, attemptCount, depStatus, cloudCalls, claim, scan>>
        /\ \A v \in Workers \ {w} : pc'[v] = pc[v]
        /\ pc'[w] \in {"failing", "checks"}
        /\ \A i \in Jobs \ {j} : runStatus'[i] = runStatus[i]
    BY <1>10 DEF EnterPipeline, Stop, Goto, TypeOK, RecordTypes, WorkerTypes, rowVars
  <2> QED
    BY <2>1, <2>2, <2>3, <2>4, HolderStep DEF Executing, Pipeline
<1>11. ASSUME NEW w \in Workers, PipelineStops(w) PROVE Safe'
  <2>1. WorkersHoldBack
    BY <1>11, Retreat
       DEF PipelineStops, Stop, Goto, TypeOK, WorkerTypes, HoldsTicket, Executing, Pipeline
  <2> QED
    BY <1>11, <2>1, QuietStep DEF PipelineStops, NoNewScan, rowVars, recordVars
<1>12. ASSUME NEW w \in Workers, FinishValidation(w) \/ FinishRelease(w) PROVE Safe'
  <2> DEFINE j == claim[w].job
  <2>1. HoldsTicket(w)
    BY <1>12 DEF FinishValidation, FinishRelease, HoldsTicket, Pipeline
  <2>2. j \in Jobs
    BY <2>1, TicketHolder
  <2>3. /\ UNCHANGED <<jobStatus, attemptCount, cloudCalls, claim, scan>>
        /\ \A v \in Workers \ {w} : pc'[v] = pc[v]
        /\ pc'[w] \in {"finished", "failing"}
        /\ \A i \in Jobs \ {j} : depStatus'[i] = depStatus[i] /\ runStatus'[i] = runStatus[i]
        /\ runStatus'[j] = "succeeded"
    BY <1>12, <2>2
       DEF FinishValidation, FinishRelease, Conclude, Stop, Goto, TypeOK, RecordTypes, WorkerTypes, rowVars
  <2>4. \/ cloudCalls[j] = 0 /\ depStatus'[j] = "stopped"
        \/ cloudCalls[j] = 1 /\ depStatus'[j] = "running"
    BY <1>12, <2>2
       DEF FinishValidation, FinishRelease, Conclude, Safe, RolloutsMatchPhase, TypeOK, RecordTypes
  <2> QED
    BY <2>1, <2>2, <2>3, <2>4, HolderStep DEF Executing, Pipeline, Recording, Unspent
<1>13. ASSUME NEW w \in Workers, StartRollout(w) PROVE Safe'
  <2> DEFINE j == claim[w].job
  <2>1. HoldsTicket(w)
    BY <1>13 DEF StartRollout, HoldsTicket, Pipeline
  <2>2. /\ j \in Jobs
        /\ depStatus[j] \notin Unspent
        /\ depStatus[j] = "running" => runStatus[j] = "succeeded" /\ cloudCalls[j] = 1
    BY <2>1, TicketHolder
  <2>3. cloudCalls[j] = 0
    BY <1>13, <2>2 DEF StartRollout, Safe, RolloutsMatchPhase
  <2>4. /\ UNCHANGED <<jobStatus, attemptCount, runStatus, cloudCalls, claim, scan>>
        /\ \A v \in Workers \ {w} : pc'[v] = pc[v]
        /\ pc'[w] = "rollout"
        /\ \A i \in Jobs \ {j} : depStatus'[i] = depStatus[i]
        /\ depStatus'[j] = "deploying"
    BY <1>13, <2>2 DEF StartRollout, Goto, TypeOK, RecordTypes, WorkerTypes, rowVars
  <2> QED
    BY <2>1, <2>2, <2>3, <2>4, HolderStep DEF Executing, Pipeline, Unspent
<1>14. ASSUME NEW w \in Workers, RollOut(w) PROVE Safe'
  <2> DEFINE j == claim[w].job
  <2>1. HoldsTicket(w)
    BY <1>14 DEF RollOut, HoldsTicket, Pipeline
  <2>2. /\ j \in Jobs
        /\ depStatus[j] \notin Unspent
        /\ depStatus[j] = "running" => runStatus[j] = "succeeded" /\ cloudCalls[j] = 1
    BY <2>1, TicketHolder
  <2>3. cloudCalls[j] = 0
    BY <1>14, <2>2 DEF RollOut, Safe, RolloutsMatchPhase
  <2>4. /\ UNCHANGED <<jobStatus, attemptCount, depStatus, runStatus, claim, scan>>
        /\ \A v \in Workers \ {w} : pc'[v] = pc[v]
        /\ pc'[w] \in {"verify", "failing"}
        /\ \A i \in Jobs \ {j} : cloudCalls'[i] = cloudCalls[i]
        /\ cloudCalls'[j] = 1
    BY <1>14, <2>2, <2>3 DEF RollOut, Stop, Goto, TypeOK, RecordTypes, WorkerTypes, rowVars
  <2> QED
    BY <2>1, <2>2, <2>3, <2>4, HolderStep DEF Executing, Pipeline
<1>15. ASSUME NEW w \in Workers, HandlePipelineFailure(w) PROVE Safe'
  <2> DEFINE j == claim[w].job
  <2>1. HoldsTicket(w)
    BY <1>15 DEF HandlePipelineFailure, HoldsTicket, Pipeline
  <2>2. /\ j \in Jobs
        /\ depStatus[j] \notin Unspent
        /\ depStatus[j] = "running" => runStatus[j] = "succeeded" /\ cloudCalls[j] = 1
    BY <2>1, TicketHolder
  <2>3. cloudCalls[j] <= 1
    BY <2>2 DEF Safe, RolloutsMatchPhase
  <2>4. /\ UNCHANGED <<jobStatus, attemptCount, cloudCalls, claim, scan>>
        /\ \A v \in Workers \ {w} : pc'[v] = pc[v]
        /\ pc'[w] \in {"finished", "error"}
        /\ \A i \in Jobs \ {j} : depStatus'[i] = depStatus[i] /\ runStatus'[i] = runStatus[i]
    BY <1>15, <2>2 DEF HandlePipelineFailure, Goto, TypeOK, RecordTypes, WorkerTypes, rowVars
  <2>5. \/ UNCHANGED <<runStatus, depStatus>>
        \/ runStatus[j] # "succeeded" /\ depStatus'[j] \in {"stopped", "failed"}
    <3>1. ~CanTransition(StatusOf("succeeded"), StatusOf(stopAs[w]))
      BY DEF CanTransition, AllowedTransitions, ExecutionStatuses, StatusOf, StopOutcomes, TypeOK, WorkerTypes
    <3> QED
      BY <1>15, <2>2, <3>1 DEF HandlePipelineFailure, TypeOK, RecordTypes
  <2>6. runStatus[j] # "succeeded" => depStatus[j] # "running"
    BY <2>2
  <2> QED
    BY <2>1, <2>2, <2>3, <2>4, <2>5, <2>6, HolderStep DEF Executing, Recording, Unspent
<1>16. ASSUME NEW w \in Workers, FailureHandlerFails(w) \/ Crash(w) PROVE Safe'
  <2>1. WorkersHoldBack
    BY <1>16, Retreat
       DEF FailureHandlerFails, Crash, Retire, Goto, TypeOK, WorkerTypes, HoldsTicket, Polling, Executing,
           Pipeline, Recording
  <2>2. NoNewScan
    BY <1>16 DEF FailureHandlerFails, Crash, NoNewScan, NotSelected, TypeOK, EnvTypes, Reconcilers
  <2> QED
    BY <1>16, <2>1, <2>2, QuietStep DEF FailureHandlerFails, Crash, rowVars, recordVars
<1>read. ASSUME NEW w \in Workers, ReadOutcome(w) PROVE Safe'
  <2> DEFINE j == claim[w].job
  <2>1. HoldsTicket(w) /\ pc[w] \in Executing
    BY <1>read DEF ReadOutcome, HoldsTicket, Executing, Recording
  <2>2. j \in Jobs
    BY <2>1, TicketHolder
  <2>3. /\ \A v \in Workers \ {w} : pc'[v] = pc[v]
        /\ pc'[w] = IF JobOutcome(depStatus[j], runStatus[j]) = "failed" THEN "refusing" ELSE "completing"
        /\ UNCHANGED <<jobStatus, attemptCount, depStatus, runStatus, cloudCalls, claim, scan>>
    BY <1>read DEF ReadOutcome, Goto, TypeOK, WorkerTypes, rowVars, recordVars
  <2>4. pc'[w] = "completing" => EndedWell(j)
    <3>1. JobOutcome(depStatus[j], runStatus[j]) # "failed" =>
             \/ depStatus[j] = "running"
             \/ depStatus[j] = "stopped" /\ runStatus[j] \in {"succeeded", "awaiting_approval"}
      BY DEF JobOutcome
    <3> QED
      BY <2>2, <2>3, <3>1 DEF Safe, RunningIsVerified, EndedWell
  <2>5. WorkersHoldBack
    BY <2>1, <2>3, <2>4, Retreat DEF Executing, Recording
  <2> QED
    BY <2>3, <2>5, QuietStep DEF NoNewScan
<1>17. ASSUME NEW w \in Workers, RecordOutcome(w) PROVE Safe'
  <2> DEFINE j == claim[w].job
  <2>1. HoldsTicket(w)
    BY <1>17 DEF RecordOutcome, HoldsTicket
  <2>2. j \in Jobs
    BY <2>1, TicketHolder
  <2>3. /\ UNCHANGED <<attemptCount, depStatus, runStatus, cloudCalls, scan>>
        /\ \A v \in Workers \ {w} : pc'[v] = pc[v] /\ claim'[v] = claim[v]
        /\ pc'[w] = "idle"
    BY <1>17 DEF RecordOutcome, MarkJob, Retire, Goto, TypeOK, WorkerTypes, rowVars, recordVars
  <2>4. WorkersHoldBack
    BY <2>3, Retreat DEF HoldsTicket, Polling, Pipeline
  <2>5. CASE UNCHANGED jobStatus
    BY <2>3, <2>4, <2>5, QuietStep DEF NoNewScan
  <2>6. CASE ~UNCHANGED jobStatus
    <3>1. /\ jobStatus[j] = "running"
          /\ \A i \in Jobs \ {j} : jobStatus'[i] = jobStatus[i]
          /\ jobStatus'[j] = IF pc[w] = "completing" THEN "completed" ELSE "failed"
      BY <1>17, <2>2, <2>6 DEF RecordOutcome, MarkJob, Owns, TypeOK, RowTypes, rowVars
    <3>2. jobStatus'[j] = "completed" => EndedWell(j)
      BY <3>1 DEF Safe, ReadingStands, SettledJobs
    <3>3. \A v \in Workers : HoldsTicket(v)' => claim'[v].job # j
      BY <2>1, <2>4, <2>3 DEF Safe, OneTicketHolder, WorkersHoldBack, HoldsTicket, Pipeline
    <3>4. CompletionIsTruthful'
      BY <2>2, <2>3, <3>1, <3>2 DEF Safe, CompletionIsTruthful, EndedWell
    <3>5. StoppedIsQuiet'
      BY <2>3, <2>4, <3>1, <3>3 DEF Safe, StoppedIsQuiet, WorkersHoldBack
    <3>6. AbsentIsPristine' /\ QueuedIsClaimable' /\ ScanIsStillTrue' /\ RunningIsVerified'
      BY <2>3, <3>1
         DEF Safe, AbsentIsPristine, QueuedIsClaimable, ScanIsStillTrue, RunningIsVerified, SettledJobs
    <3>7. ClaimsAJob' /\ TicketIsSpent' /\ OneTicketHolder'
      BY <2>3, <2>4 DEF Safe, ClaimsAJob, TicketIsSpent, OneTicketHolder, WorkersHoldBack
    <3>8. RolloutsMatchPhase'
      BY <2>3, <2>4 DEF Safe, RolloutsMatchPhase, WorkersHoldBack, HoldsTicket, Pipeline
    <3>9. ReadingStands'
      <4>1. \A v \in Workers : pc'[v] = "completing" =>
                v # w /\ pc[v] = "completing" /\ claim'[v] = claim[v] /\ claim[v].job \in Jobs \ {j}
        BY <2>3, <3>3 DEF HoldsTicket, Safe, ClaimsAJob, Executing, Recording
      <4> QED
        BY <2>3, <3>1, <4>1 DEF Safe, ReadingStands, EndedWell
    <3> QED
      BY <3>4, <3>5, <3>6, <3>7, <3>8, <3>9 DEF Safe
  <2> QED
    BY <2>5, <2>6
<1>18. ASSUME NEW w \in Workers, RecordError(w) PROVE Safe'
  <2>1. WorkersHoldBack
    <3>1. \A v \in Workers \ {w} : pc'[v] = pc[v] /\ claim'[v] = claim[v]
      BY <1>18 DEF RecordError, Retire, Goto, TypeOK, WorkerTypes
    <3>2. pc'[w] = "idle" \/ (pc'[w] = "compensate" /\ claim'[w] = claim[w] /\ pc[w] \in Executing)
      BY <1>18 DEF RecordError, Retire, Goto, TypeOK, WorkerTypes, Executing, Recording
    <3> QED
      BY <3>1, <3>2, Retreat DEF HoldsTicket, Polling, Executing, Pipeline, Recording
  <2>2. \A i \in Jobs : jobStatus'[i] = jobStatus[i] \/ (jobStatus[i] = "running" /\ jobStatus'[i] = "failed")
    BY <1>18 DEF RecordError, MarkJob, Owns, TypeOK, RowTypes, rowVars
  <2>3. UNCHANGED <<attemptCount, depStatus, runStatus, cloudCalls, scan>>
    BY <1>18 DEF RecordError, MarkJob, rowVars, recordVars
  <2> QED
    BY <2>1, <2>2, <2>3, GiveUpStep DEF NoNewScan
<1>19. ASSUME NEW w \in Workers, FailDeployment(w) PROVE Safe'
  <2>1. WorkersHoldBack
    BY <1>19, Retreat
       DEF FailDeployment, Retire, Goto, TypeOK, WorkerTypes, HoldsTicket, Polling, Executing, Pipeline, Recording
  <2>2. \A i \in Jobs :
           depStatus'[i] = depStatus[i] \/ (depStatus'[i] = "failed" /\ depStatus[i] \in ActiveReleases)
    <3>1. claim[w].job \in Jobs
      BY <1>19 DEF FailDeployment, Safe, ClaimsAJob, Executing, Recording
    <3> QED
      BY <1>19, <3>1 DEF FailDeployment, TypeOK, RecordTypes
  <2>3. \A i \in Jobs : depStatus[i] \in ActiveReleases => jobStatus[i] \notin {"absent", "completed"}
    BY DEF ActiveReleases, Safe, AbsentIsPristine, CompletionIsTruthful, EndedWell
  <2> QED
    BY <1>19, <2>1, <2>2, <2>3, GiveUpStep DEF FailDeployment, NoNewScan, rowVars, ActiveReleases
<1>20. CASE ApiStart
  <2>1. WorkersHoldBack /\ UNCHANGED <<jobStatus, attemptCount, depStatus, runStatus, cloudCalls>>
    BY <1>20 DEF ApiStart, WorkersHoldBack, rowVars, recordVars, workerVars, HoldsTicket, Safe, ClaimsAJob
  <2> QED
    BY <1>20, <2>1, SelectStep DEF ApiStart, Reconcilers
<1>21. CASE RecoverInterruptedDeployments
  <2>1. WorkersHoldBack
    BY <1>21 DEF RecoverInterruptedDeployments, WorkersHoldBack, workerVars, HoldsTicket, Safe, ClaimsAJob
  <2>2. NoNewScan /\ UNCHANGED <<attemptCount, runStatus, cloudCalls>>
    BY <1>21 DEF RecoverInterruptedDeployments, ReleaseRows, NoNewScan, NotSelected, TypeOK, EnvTypes, Reconcilers
  <2>3. ASSUME NEW i \in Jobs
        PROVE  \/ jobStatus'[i] = jobStatus[i]
               \/ /\ jobStatus[i] = "running"
                  /\ \/ jobStatus'[i] = "queued" /\ attemptCount[i] < MaxAttempts
                     \/ jobStatus'[i] \in {"failed", "cancelled"}
                     \/ jobStatus'[i] = "completed" /\ depStatus[i] = "running"
    <3>1. CASE ~Seized(Api, i)
      BY <1>21, <3>1 DEF RecoverInterruptedDeployments, ReleaseRows
    <3>2. CASE Seized(Api, i)
      <4>1. jobStatus'[i] = DispositionStatus[ApiDisposition[i]] /\ jobStatus[i] = "running"
        BY <1>21, <3>2 DEF RecoverInterruptedDeployments, ReleaseRows, Seized, Stale
      <4>2. scan[Api][i] = "running" => depStatus[i] = "running"
        BY <4>1 DEF Safe, ScanIsStillTrue, SettledJobs, Reconcilers
      <4> QED
        BY <4>1, <4>2 DEF DispositionStatus, ApiDisposition, FallbackDisposition
    <3> QED
      BY <3>1, <3>2
  <2>4. ASSUME NEW i \in Jobs
        PROVE  \/ depStatus'[i] = depStatus[i]
               \/ /\ depStatus'[i] = "failed"
                  /\ jobStatus'[i] \notin {"absent", "completed"}
                  /\ depStatus[i] \in {"running", "stopped"} => jobStatus'[i] = "failed"
    BY <1>21 DEF RecoverInterruptedDeployments, ReleaseRows, DispositionStatus
  <2> QED
    BY <2>1, <2>2, <2>3, <2>4, GiveUpStep
<1>22. ASSUME NEW j \in Jobs, RejectPipelineRun(j) PROVE Safe'
  <2>1. /\ runStatus[j] = "awaiting_approval" /\ runStatus'[j] = "cancelled" /\ depStatus'[j] = "stopped"
        /\ \A i \in Jobs \ {j} : runStatus'[i] = runStatus[i] /\ depStatus'[i] = depStatus[i]
        /\ UNCHANGED <<jobStatus, attemptCount, cloudCalls, pc, claim, scan>>
    BY <1>22 DEF RejectPipelineRun, TypeOK, RecordTypes, rowVars, workerVars
  <2>2. depStatus[j] \notin Unspent \cup {"running"}
    BY <2>1 DEF Safe, AbsentIsPristine, RunningIsVerified, Unspent
  <2>3. \A w \in Workers : HoldsTicket(w)' <=> HoldsTicket(w)
    BY <2>1 DEF HoldsTicket
  <2>4. AbsentIsPristine' /\ QueuedIsClaimable' /\ ClaimsAJob' /\ RunningIsVerified'
    BY <2>1, <2>2 DEF Safe, AbsentIsPristine, QueuedIsClaimable, ClaimsAJob, RunningIsVerified, Unspent
  <2>5. TicketIsSpent' /\ OneTicketHolder'
    <3>1. \A w \in Workers : HoldsTicket(w) => claim[w].job \in Jobs
      BY DEF Safe, ClaimsAJob, HoldsTicket, Executing, Pipeline, Recording
    <3> QED
      BY <2>1, <2>2, <2>3, <3>1 DEF Safe, TicketIsSpent, OneTicketHolder, Unspent
  <2>6. RolloutsMatchPhase'
    BY <2>1, <2>2 DEF Safe, RolloutsMatchPhase, Unspent
  <2>7. ScanIsStillTrue'
    BY <2>1, <2>2 DEF Safe, ScanIsStillTrue
  <2>8. CompletionIsTruthful'
    BY <2>1, <2>2 DEF Safe, CompletionIsTruthful, EndedWell
  <2>9. StoppedIsQuiet'
    BY <2>1, <2>2, <2>3 DEF Safe, StoppedIsQuiet, CompletionIsTruthful, EndedWell
  <2>10. ReadingStands'
    <3>1. \A w \in Workers : pc[w] = "completing" => claim[w].job \in Jobs
      BY DEF Safe, ClaimsAJob, Executing, Recording
    <3> QED
      BY <2>1, <3>1 DEF Safe, ReadingStands, EndedWell
  <2> QED
    BY <2>4, <2>5, <2>6, <2>7, <2>8, <2>9, <2>10 DEF Safe
<1>23. CASE UNCHANGED vars
  BY <1>23, QuietStep
     DEF vars, WorkersHoldBack, NoNewScan, rowVars, recordVars, workerVars, HoldsTicket, Safe, ClaimsAJob
<1> QED
  BY <1>1, <1>2, <1>3, <1>4, <1>5, <1>6, <1>7, <1>8, <1>9, <1>10, <1>11, <1>12, <1>13, <1>14,
     <1>15, <1>16, <1>read, <1>17, <1>18, <1>19, <1>20, <1>21, <1>22, <1>23 DEF Next, WorkerStep

\* The inductive invariant holds of every reachable state.
THEOREM Invariance == Spec => []IInv
<1>1. Init => IInv
  BY TypeInit, SafeInit DEF IInv
<1>2. IInv /\ [Next]_vars => IInv'
  BY TypeStep, SafeStep DEF IInv
<1> QED
  BY <1>1, <1>2, PTL DEF Spec

\* The cloud provider rolls a release out at most once, however many workers
\* claimed it and whoever lost the claim (job_queue.py, terraform_runner.py).
THEOREM AtMostOneRollout == Spec => []RolledOutAtMostOnce
<1>1. IInv => RolledOutAtMostOnce
  BY DEF IInv, Safe, RolloutsMatchPhase, RolledOutAtMostOnce
<1> QED
  BY <1>1, Invariance, PTL

\* No two workers are ever inside the pipeline of one release.
THEOREM OnePipeline == Spec => []OnePipelinePerRelease
<1>1. IInv => OnePipelinePerRelease
  BY DEF IInv, Safe, OneTicketHolder, HoldsTicket, OnePipelinePerRelease
<1> QED
  BY <1>1, Invariance, PTL

\* A completed job tells the truth about its release.
THEOREM CompletionTruth == Spec => []CompletionIsTruthful
<1>1. IInv => CompletionIsTruthful
  BY DEF IInv, Safe
<1> QED
  BY <1>1, Invariance, PTL

\* A release shown as running has a succeeded run behind it and was rolled out.
THEOREM RunningTruth == Spec => []RunningIsVerified
<1>1. IInv => RunningIsVerified
  BY DEF IInv, Safe
<1> QED
  BY <1>1, Invariance, PTL

\* A job that waits in the queue has an attempt left.
THEOREM QueuedHasAttempts == Spec => []QueuedIsClaimable
<1>1. IInv => QueuedIsClaimable
  BY DEF IInv, Safe
<1> QED
  BY <1>1, Invariance, PTL

\* The job, its release and its workers tell one story, for any number of each.
THEOREM QueueConsistency == Spec => []QueueIsConsistent
<1>1. TypeOK /\ OnePipelinePerRelease /\ QueuedIsClaimable /\ CompletionIsTruthful /\ RunningIsVerified
      => QueueIsConsistent
  BY DEF QueueIsConsistent
<1> QED
  BY <1>1, TypeCorrect, OnePipeline, QueuedHasAttempts, CompletionTruth, RunningTruth, PTL

\* A settled job row is never rewritten (_mark_job, recover_stale_jobs and
\* recover_interrupted_deployments only match rows that are still running).
THEOREM SettledRowsAreFinal == Spec => SettledIsFinal
<1> DEFINE Keeps == \A j \in Jobs : jobStatus[j] \in SettledJobs => jobStatus'[j] = jobStatus[j]
<1>1. TypeOK /\ [Next]_vars => [Keeps]_vars
  <2> SUFFICES ASSUME TypeOK, Next PROVE Keeps
    OBVIOUS
  <2> USE DEF TypeOK, RowTypes, SettledJobs
  <2>1. ASSUME NEW j \in Jobs, StartDeploy(j) \/ ExpireLease(j) PROVE Keeps
    BY <2>1 DEF StartDeploy, ExpireLease
  <2>2. ASSUME NEW w \in Workers, RecoverStaleJobs(w) PROVE Keeps
    BY <2>2 DEF RecoverStaleJobs, ReleaseRows, Seized, Stale
  <2>3. CASE RecoverInterruptedDeployments
    BY <2>3 DEF RecoverInterruptedDeployments, ReleaseRows, Seized, Stale
  <2>4. ASSUME NEW w \in Workers, NEW j \in Jobs, ClaimJob(w, j) PROVE Keeps
    BY <2>4 DEF ClaimJob, Claimable
  <2>5. ASSUME NEW w \in Workers, RecordOutcome(w) \/ RecordError(w) PROVE Keeps
    BY <2>5 DEF RecordOutcome, RecordError, MarkJob, Owns, rowVars
  <2>6. ASSUME NEW w \in Workers,
               \/ PollQueue(w) \/ ClaimNothing(w) \/ PersistMetadata(w) \/ BeginPipeline(w)
               \/ FailBeforePipeline(w) \/ EnterPipeline(w) \/ PipelineStops(w) \/ FinishValidation(w)
               \/ StartRollout(w) \/ RollOut(w) \/ FinishRelease(w) \/ HandlePipelineFailure(w)
               \/ ReadOutcome(w) \/ FailDeployment(w) \/ Heartbeat(w) \/ HeartbeatFails(w)
               \/ FailureHandlerFails(w) \/ Crash(w)
        PROVE  UNCHANGED jobStatus
    BY <2>6
       DEF PollQueue, ClaimNothing, PersistMetadata, BeginPipeline, FailBeforePipeline, EnterPipeline,
           PipelineStops, FinishValidation, StartRollout, RollOut, FinishRelease, Conclude,
           HandlePipelineFailure, ReadOutcome, FailDeployment, Heartbeat, HeartbeatFails, FailureHandlerFails,
           Crash, rowVars
  <2>7. ASSUME NEW j \in Jobs, ApiStart \/ RejectPipelineRun(j) PROVE UNCHANGED jobStatus
    BY <2>7 DEF ApiStart, RejectPipelineRun, rowVars
  <2> QED
    BY <2>1, <2>2, <2>3, <2>4, <2>5, <2>6, <2>7 DEF Next, WorkerStep
<1> QED
  BY <1>1, TypeCorrect, PTL DEF Spec, SettledIsFinal

\* Once verified, a release stays running, whichever worker reconciles on an old
\* snapshot, is late with its failure or compensates: only the API's start-up
\* takes the status away.
THEOREM VerifiedIsKept == Spec => VerifiedStaysRunning
<1> DEFINE Kept(j) == depStatus[j] = "running" => depStatus'[j] = "running"
           StaysRunning == RecoverInterruptedDeployments \/ \A j \in Jobs : Kept(j)
<1>1. IInv /\ [Next]_vars => [StaysRunning]_vars
  <2> SUFFICES ASSUME IInv, Next PROVE StaysRunning
    OBVIOUS
  <2> USE DEF IInv, TypeOK, RecordTypes, ActiveReleases
  <2>1. ASSUME NEW j \in Jobs, StartDeploy(j) PROVE StaysRunning
    <3>1. depStatus[j] # "running"
      BY <2>1 DEF StartDeploy, Safe, AbsentIsPristine
    <3> QED
      BY <2>1, <3>1 DEF StartDeploy
  <2>2. ASSUME NEW j \in Jobs, RejectPipelineRun(j) PROVE StaysRunning
    <3>1. depStatus[j] # "running"
      BY <2>2 DEF RejectPipelineRun, Safe, RunningIsVerified
    <3> QED
      BY <2>2, <3>1 DEF RejectPipelineRun
  <2>3. ASSUME NEW w \in Workers, RecoverStaleJobs(w) PROVE StaysRunning
    BY <2>3 DEF RecoverStaleJobs
  <2>4. ASSUME NEW w \in Workers, BeginPipeline(w) PROVE StaysRunning
    BY <2>4 DEF BeginPipeline
  <2>5. ASSUME NEW w \in Workers, pc[w] = "checks", depStatus[claim[w].job] = "running" PROVE FALSE
    <3>1. HoldsTicket(w)
      BY <2>5 DEF HoldsTicket, Pipeline
    <3> QED
      BY <2>5, <3>1, TicketHolder DEF Safe, RolloutsMatchPhase
  <2>6. ASSUME NEW w \in Workers, FinishValidation(w) \/ StartRollout(w) PROVE StaysRunning
    BY <2>5, <2>6 DEF FinishValidation, Conclude, StartRollout
  <2>7. ASSUME NEW w \in Workers, FinishRelease(w) PROVE StaysRunning
    BY <2>7 DEF FinishRelease, Conclude
  <2>8. ASSUME NEW w \in Workers, HandlePipelineFailure(w) PROVE StaysRunning
    <3>1. HoldsTicket(w) /\ claim[w].job \in Jobs
      BY <2>8, TicketHolder DEF HandlePipelineFailure, HoldsTicket, Pipeline
    <3>2. CASE depStatus[claim[w].job] = "running"
      <4>1. runStatus[claim[w].job] = "succeeded"
        BY <3>1, <3>2, TicketHolder
      <4>2. StatusOf(stopAs[w]) \in {"failed", "blocked", "unavailable"}
        BY DEF StatusOf, WorkerTypes, StopOutcomes
      <4>3. ~CanTransition(StatusOf(runStatus[claim[w].job]), StatusOf(stopAs[w]))
        BY <4>1, <4>2 DEF CanTransition, AllowedTransitions, ExecutionStatuses, StatusOf
      <4> QED
        BY <2>8, <4>3 DEF HandlePipelineFailure
    <3>3. CASE depStatus[claim[w].job] # "running"
      BY <2>8, <3>1, <3>3 DEF HandlePipelineFailure
    <3> QED
      BY <3>2, <3>3
  <2>9. ASSUME NEW w \in Workers, FailDeployment(w) PROVE StaysRunning
    BY <2>9 DEF FailDeployment
  <2>10. ASSUME NEW w \in Workers,
                \/ PollQueue(w) \/ (\E j \in Jobs : ClaimJob(w, j)) \/ ClaimNothing(w) \/ PersistMetadata(w)
                \/ FailBeforePipeline(w) \/ EnterPipeline(w) \/ PipelineStops(w) \/ RollOut(w)
                \/ ReadOutcome(w) \/ RecordOutcome(w) \/ RecordError(w) \/ Heartbeat(w) \/ HeartbeatFails(w)
                \/ FailureHandlerFails(w) \/ Crash(w)
         PROVE  UNCHANGED depStatus
    BY <2>10
       DEF PollQueue, ClaimJob, ClaimNothing, PersistMetadata, FailBeforePipeline, EnterPipeline, PipelineStops,
           RollOut, ReadOutcome, RecordOutcome, RecordError, Heartbeat, HeartbeatFails, FailureHandlerFails, Crash, recordVars
  <2>11. ASSUME NEW j \in Jobs, ExpireLease(j) \/ ApiStart PROVE UNCHANGED depStatus
    BY <2>11 DEF ExpireLease, ApiStart, recordVars
  <2> QED
    BY <2>1, <2>2, <2>3, <2>4, <2>6, <2>7, <2>8, <2>9, <2>10, <2>11 DEF Next, WorkerStep
<1> QED
  BY <1>1, Invariance, PTL DEF Spec, VerifiedStaysRunning

-----------------------------------------------------------------------------
(***************************************************************************)
(* The queue implements ReleaseContract.                                   *)
(***************************************************************************)

\* What a step may do to one release, in the queue's own terms.
Kept(i) ==
    /\ depStatus'[i] = depStatus[i] \/ (depStatus[i] \notin Unspent /\ depStatus'[i] \notin Unspent)
    /\ jobStatus'[i] = jobStatus[i] \/ (jobStatus[i] \notin SettledJobs /\ jobStatus'[i] \notin SettledJobs)
    /\ cloudCalls'[i] = cloudCalls[i]

Submitted(i) ==
    /\ depStatus[i] = "absent" /\ depStatus'[i] = "queued"
    /\ jobStatus[i] = "absent" /\ jobStatus'[i] = "queued"
    /\ cloudCalls'[i] = cloudCalls[i]

Spent(i) ==
    /\ depStatus[i] = "queued" /\ depStatus'[i] \notin Unspent
    /\ jobStatus'[i] = jobStatus[i]
    /\ cloudCalls'[i] = cloudCalls[i]

RolledOut(i) ==
    /\ depStatus[i] \notin Unspent /\ depStatus'[i] = depStatus[i]
    /\ jobStatus[i] # "completed" /\ jobStatus'[i] = jobStatus[i]
    /\ cloudCalls[i] = 0 /\ cloudCalls'[i] = 1

Settled(i) ==
    /\ depStatus[i] # "absent" /\ (depStatus'[i] = depStatus[i] \/ depStatus'[i] \notin Unspent)
    /\ jobStatus[i] \notin SettledJobs /\ jobStatus'[i] \in SettledJobs
    /\ jobStatus'[i] = "completed" => depStatus[i] \notin Unspent
    /\ cloudCalls'[i] = cloudCalls[i]

\* Steps in the queue's terms are steps in the contract's.
LEMMA ContractStep ==
    ASSUME TypeOK', \A i \in Jobs : Kept(i) \/ Submitted(i) \/ Spent(i) \/ RolledOut(i) \/ Settled(i)
    PROVE  Contract!Next
<1>1. ASSUME NEW i \in Jobs, Kept(i) PROVE Contract!Rest(i)
  BY <1>1 DEF Kept, Contract!Rest, TicketFor, VerdictFor, Unspent
<1>2. ASSUME NEW i \in Jobs, Submitted(i) PROVE Contract!Submit(i)
  BY <1>2 DEF Submitted, Contract!Submit, TicketFor, VerdictFor, SettledJobs
<1>3. ASSUME NEW i \in Jobs, Spent(i) PROVE Contract!Spend(i)
  BY <1>3 DEF Spent, Contract!Spend, TicketFor, VerdictFor, Unspent
<1>4. ASSUME NEW i \in Jobs, RolledOut(i) PROVE Contract!RollOut(i)
  BY <1>4 DEF RolledOut, Contract!RollOut, TicketFor, VerdictFor, Unspent, SettledJobs
<1>5. ASSUME NEW i \in Jobs, Settled(i) PROVE Contract!Settle(i)
  BY <1>5 DEF Settled, Contract!Settle, Contract!Verdicts, TicketFor, VerdictFor, Unspent, SettledJobs
<1>6. cloudCalls' = [i \in Jobs |-> cloudCalls'[i]]
  BY DEF TypeOK, RecordTypes
<1> QED
  BY <1>1, <1>2, <1>3, <1>4, <1>5, <1>6 DEF Contract!Next

\* What a step of the queue does to one release, seen by its owner.
LEMMA ReleaseStep ==
    ASSUME IInv, [Next]_vars
    PROVE  \A i \in Jobs : Kept(i) \/ Submitted(i) \/ Spent(i) \/ RolledOut(i) \/ Settled(i)
<1> DEFINE Stepped == \A i \in Jobs : Kept(i) \/ Submitted(i) \/ Spent(i) \/ RolledOut(i) \/ Settled(i)
<1> USE DEF IInv
<1>1. ASSUME NEW j \in Jobs, StartDeploy(j) PROVE Stepped
  <2>1. depStatus[j] = "absent"
    BY <1>1 DEF StartDeploy, Safe, AbsentIsPristine
  <2> QED
    BY <1>1, <2>1 DEF StartDeploy, Kept, Submitted, TypeOK, RowTypes, RecordTypes
<1>2. ASSUME NEW w \in Workers, RecoverStaleJobs(w) PROVE Stepped
  <2>1. ASSUME NEW i \in Jobs, ~Seized(w, i) PROVE Kept(i)
    BY <1>2, <2>1 DEF RecoverStaleJobs, ReleaseRows, Kept
  <2>2. ASSUME NEW i \in Jobs, Seized(w, i) PROVE Kept(i) \/ Settled(i)
    <3>1. jobStatus'[i] = DispositionStatus[WorkerDisposition(w)[i]] /\ jobStatus[i] = "running" /\ UNCHANGED cloudCalls
      BY <1>2, <2>2 DEF RecoverStaleJobs, ReleaseRows, Seized, Stale
    <3>2. depStatus[i] # "absent"
      BY <3>1 DEF Safe, AbsentIsPristine
    <3>3. scan[w][i] = "running" => depStatus[i] = "running"
      BY <3>1 DEF Safe, ScanIsStillTrue, SettledJobs, Reconcilers
    <3>4. depStatus'[i] = depStatus[i] \/ (depStatus'[i] = "failed" /\ WorkerDisposition(w)[i] = "fail")
      BY <1>2 DEF RecoverStaleJobs
    <3> QED
      BY <3>1, <3>2, <3>3, <3>4 DEF DispositionStatus, WorkerDisposition, StaleJobDisposition, Kept, Settled, SettledJobs, Unspent
  <2> QED
    BY <2>1, <2>2
<1>3. CASE RecoverInterruptedDeployments
  <2>1. ASSUME NEW i \in Jobs, ~Seized(Api, i) PROVE Kept(i)
    BY <1>3, <2>1 DEF RecoverInterruptedDeployments, ReleaseRows, Kept
  <2>2. ASSUME NEW i \in Jobs, Seized(Api, i) PROVE Kept(i) \/ Settled(i)
    <3>1. jobStatus'[i] = DispositionStatus[ApiDisposition[i]] /\ jobStatus[i] = "running" /\ UNCHANGED cloudCalls
      BY <1>3, <2>2 DEF RecoverInterruptedDeployments, ReleaseRows, Seized, Stale
    <3>2. depStatus[i] # "absent"
      BY <3>1 DEF Safe, AbsentIsPristine
    <3>3. scan[Api][i] = "running" => depStatus[i] = "running"
      BY <3>1 DEF Safe, ScanIsStillTrue, SettledJobs, Reconcilers
    <3>4. depStatus'[i] = depStatus[i] \/ (depStatus'[i] = "failed" /\ ApiDisposition[i] = "fail")
      BY <1>3 DEF RecoverInterruptedDeployments
    <3> QED
      BY <3>1, <3>2, <3>3, <3>4 DEF DispositionStatus, ApiDisposition, FallbackDisposition, Kept, Settled, SettledJobs, Unspent
  <2> QED
    BY <2>1, <2>2
<1>4. ASSUME NEW w \in Workers, NEW j \in Jobs, ClaimJob(w, j) PROVE Stepped
  BY <1>4 DEF ClaimJob, Claimable, Kept, SettledJobs, TypeOK, RowTypes, recordVars
<1>5. ASSUME NEW w \in Workers, BeginPipeline(w) PROVE Stepped
  <2>1. claim[w].job \in Jobs
    BY <1>5 DEF BeginPipeline, Owns
  <2> QED
    BY <1>5, <2>1 DEF BeginPipeline, Kept, Spent, Unspent, TypeOK, RecordTypes, rowVars
<1>6. ASSUME NEW w \in Workers,
             EnterPipeline(w) \/ FinishValidation(w) \/ FinishRelease(w) \/ StartRollout(w) \/ HandlePipelineFailure(w)
      PROVE  Stepped
  <2>1. claim[w].job \in Jobs /\ depStatus[claim[w].job] \notin Unspent
    <3>1. HoldsTicket(w)
      BY <1>6 DEF EnterPipeline, FinishValidation, FinishRelease, StartRollout, HandlePipelineFailure, HoldsTicket, Pipeline
    <3> QED
      BY <3>1, TicketHolder
  <2>2. UNCHANGED <<jobStatus, cloudCalls>>
    BY <1>6 DEF EnterPipeline, FinishValidation, FinishRelease, Conclude, StartRollout, HandlePipelineFailure, rowVars
  <2>3. \A i \in Jobs : depStatus'[i] = depStatus[i]
                        \/ (i = claim[w].job /\ depStatus'[i] \in {"stopped", "running", "deploying", "failed"})
    BY <1>6, <2>1
       DEF EnterPipeline, FinishValidation, FinishRelease, Conclude, StartRollout, HandlePipelineFailure,
           TypeOK, RecordTypes
  <2> QED
    BY <2>1, <2>2, <2>3 DEF Kept, Unspent
<1>7. ASSUME NEW w \in Workers, RollOut(w) PROVE Stepped
  <2> DEFINE j == claim[w].job
  <2>1. HoldsTicket(w)
    BY <1>7 DEF RollOut, HoldsTicket, Pipeline
  <2>2. cloudCalls[j] = 0
    BY <1>7 DEF RollOut, Safe, RolloutsMatchPhase
  <2>3. j \in Jobs /\ depStatus[j] \notin Unspent /\ jobStatus[j] # "completed"
    BY <2>1, <2>2, TicketHolder
  <2> QED
    BY <1>7, <2>2, <2>3 DEF RollOut, Kept, RolledOut, TypeOK, RecordTypes, rowVars
<1>8. ASSUME NEW w \in Workers, RecordOutcome(w) PROVE Stepped
  <2> DEFINE j == claim[w].job
  <2>1. HoldsTicket(w)
    BY <1>8 DEF RecordOutcome, HoldsTicket
  <2>2. j \in Jobs /\ depStatus[j] \notin Unspent
    BY <2>1, TicketHolder
  <2>3. \A i \in Jobs : \/ jobStatus'[i] = jobStatus[i]
                        \/ /\ i = j
                           /\ jobStatus[i] = "running"
                           /\ jobStatus'[i] \in {"failed", "completed"}
    BY <1>8, <2>2 DEF RecordOutcome, MarkJob, Owns, TypeOK, RowTypes, rowVars
  <2> QED
    BY <1>8, <2>2, <2>3 DEF RecordOutcome, recordVars, Kept, Settled, SettledJobs, Unspent
<1>9. ASSUME NEW w \in Workers, RecordError(w) PROVE Stepped
  <2>1. \A i \in Jobs : \/ jobStatus'[i] = jobStatus[i]
                        \/ /\ jobStatus[i] = "running"
                           /\ jobStatus'[i] = "failed"
    BY <1>9 DEF RecordError, MarkJob, Owns, TypeOK, RowTypes, rowVars
  <2> QED
    BY <1>9, <2>1 DEF Safe, AbsentIsPristine, RecordError, recordVars, Kept, Settled, SettledJobs
<1>10. ASSUME NEW w \in Workers, FailDeployment(w) PROVE Stepped
  <2>1. claim[w].job \in Jobs
    BY <1>10 DEF FailDeployment, Safe, ClaimsAJob, Executing, Recording
  <2>2. \A i \in Jobs : \/ depStatus'[i] = depStatus[i]
                        \/ /\ depStatus[i] \in ActiveReleases
                           /\ depStatus'[i] = "failed"
    BY <1>10, <2>1 DEF FailDeployment, TypeOK, RecordTypes
  <2> QED
    BY <1>10, <2>2 DEF FailDeployment, Kept, Spent, Unspent, ActiveReleases, rowVars
<1>11. ASSUME NEW w \in Workers,
               \/ PollQueue(w) \/ ClaimNothing(w) \/ PersistMetadata(w) \/ FailBeforePipeline(w)
               \/ PipelineStops(w) \/ ReadOutcome(w) \/ Heartbeat(w) \/ HeartbeatFails(w) \/ FailureHandlerFails(w) \/ Crash(w)
        PROVE  Stepped
  <2>1. UNCHANGED <<jobStatus, depStatus, cloudCalls>>
    BY <1>11
       DEF PollQueue, ClaimNothing, PersistMetadata, FailBeforePipeline, PipelineStops, ReadOutcome, Heartbeat,
           HeartbeatFails, FailureHandlerFails, Crash, rowVars, recordVars
  <2> QED
    BY <2>1 DEF Kept
<1>12. ASSUME NEW j \in Jobs, ExpireLease(j) PROVE Stepped
  BY <1>12 DEF ExpireLease, recordVars, Kept
<1>13. CASE ApiStart \/ UNCHANGED vars
  BY <1>13 DEF ApiStart, vars, rowVars, recordVars, Kept
<1>14. ASSUME NEW j \in Jobs, RejectPipelineRun(j) PROVE Stepped
  <2>1. depStatus[j] \notin Unspent
    BY <1>14 DEF RejectPipelineRun, Safe, AbsentIsPristine, Unspent
  <2> QED
    BY <1>14, <2>1 DEF RejectPipelineRun, Kept, Unspent, TypeOK, RecordTypes, rowVars
<1> QED
  BY <1>1, <1>2, <1>3, <1>4, <1>5, <1>6, <1>7, <1>8, <1>9, <1>10, <1>11, <1>12, <1>13, <1>14
     DEF Next, WorkerStep

\* The queue keeps its contract.
THEOREM Implements == Spec => KeepsContract
<1>1. Init => Contract!Init
  BY DEF Init, Contract!Init, TicketFor, VerdictFor, SettledJobs
<1>2. IInv /\ IInv' /\ [Next]_vars => [Contract!Next]_(Contract!contractVars)
  BY ReleaseStep, ContractStep DEF IInv
<1> QED
  BY <1>1, <1>2, Invariance, PTL DEF Spec, KeepsContract, Contract!Spec
=============================================================================
