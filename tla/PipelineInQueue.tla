--------------------------- MODULE PipelineInQueue ---------------------------
(***************************************************************************)
(* The release queue knows the pipeline by its outline only: DeploymentQueue *)
(* lets a worker pass from "checks" to "rollout" to "verify".  Here the    *)
(* program of PipelineRun is shown to follow that outline, with the queue  *)
(* reduced to one job that one worker holds.                               *)
(***************************************************************************)
EXTENDS PipelineRun

\* Where the queue's worker stands while the program is at pc.
WorkerPhase ==
    IF pc = "enter" THEN "enter"
    ELSE IF pc \in {"plan", "quality", "stages", "announce"} THEN IF rollouts = 0 THEN "checks" ELSE "verify"
    ELSE IF pc = "deploy" THEN "rollout"
    ELSE IF pc = "conclude" THEN IF config.mode = "validate_only" THEN "checks" ELSE "verify"
    ELSE IF pc = "failing" THEN "failing"
    ELSE IF pc = "returned" THEN "finished"
    ELSE IF pc = "raised" THEN "error"
    ELSE "idle"

\* The program's last commits ignore the lease.  The queue has them respect
\* it and lets it be lost later instead: here it is never seen lost.
Queue == INSTANCE DeploymentQueue WITH
    Jobs           <- {"release"},
    Workers        <- {"worker"},
    Api            <- "api",
    NoJob          <- "none",
    MaxAttempts    <- 1,
    MaxApiRestarts <- 0,
    jobStatus      <- [j \in {"release"} |-> "running"],
    attemptCount   <- [j \in {"release"} |-> 1],
    leaseToken     <- [j \in {"release"} |-> 1],
    leaseExpired   <- [j \in {"release"} |-> FALSE],
    depStatus      <- [j \in {"release"} |-> release],
    runStatus      <- [j \in {"release"} |-> run],
    cloudCalls     <- [j \in {"release"} |-> rollouts],
    pc             <- [w \in {"worker"} |-> WorkerPhase],
    claim          <- [w \in {"worker"} |-> IF pc = "dead" THEN [job |-> "none", token |-> 0]
                                            ELSE [job |-> "release", token |-> 1]],
    leaseLost      <- [w \in {"worker"} |-> FALSE],
    stopAs         <- [w \in {"worker"} |-> IF pc = "dead" THEN "failed" ELSE stopAs],
    scan           <- [r \in {"worker", "api"} |-> [j \in {"release"} |-> "not selected"]],
    apiRestarts    <- 0

\* Every step of the program is one the queue's worker may take, or changes
\* nothing the queue knows of; only a reconciliation fails the release besides, of
\* a worker or of the API's start-up.
FollowsTheQueue == [][Queue!Next \/ FailRelease \/ RecoverInterruptedDeployments]_(Queue!vars)
=============================================================================
