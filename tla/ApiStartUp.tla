----------------------------- MODULE ApiStartUp -----------------------------
(***************************************************************************)
(* The processes of the API from their start to the requests they serve    *)
(* (lifespan in backend/main.py): a process first brings the schema up to  *)
(* date (SchemaUpgrade), then moves legacy secrets to the vault            *)
(* (ProjectSecrets), and serves requests when both are done; a production  *)
(* process that cannot do one of them ends, and is started again.  The     *)
(* requests of interest are those that create and delete one variable.     *)
(***************************************************************************)
EXTENDS SchemaUpgrade

CONSTANTS
    Values,      \* values users give the variable
    Kinds,       \* is_secret of the variables they save
    Absent,      \* no value
    MaxRows,     \* bound: rows of the variable
    MaxRefusals  \* bound: calls the vault refuses

VARIABLES row, vault, moving, ask, wiped, refusals

secrets == <<row, vault, moving, ask, wiped, refusals>>
all     == <<schemaVars, secrets>>

Secrets == INSTANCE ProjectSecrets

ASSUME ValuesAssumption == Absent \notin Values /\ Kinds \subseteq BOOLEAN
ASSUME RowsAssumption == MaxRows \in Nat \ {0} /\ MaxRefusals \in Nat

\* An earlier release left one variable; a database that is yet to be made has none.
StartUpInit == SchemaInit /\ Secrets!Init /\ exists = (Secrets!Live # {})

\* The schema is up to date and the secrets are moved.
Ready(p) == IsUp(p) /\ moving[p].stage = "moved"

\* A request that errs, or whose process stops, has its transaction rolled back.
Forget(gone) == Secrets!Drop(gone) /\ UNCHANGED <<row, vault, moving, wiped, refusals>>

ServedBy(p) == {r \in Requests : home[r] = p}

UpgradeStep ==
    /\ \/ \E p \in Processes : StartProcess(p)
       \/ \E r \in Requests, p \in Processes : Ready(p) /\ Arrive(r, p)
       \/ \E r \in Requests : ask[r].op = "none" /\ Serve(r)
       \/ \E t \in Tasks : InitDb(t) \/ LoseConnection(t)
       \/ MergeAccounts
    /\ UNCHANGED secrets

Break ==
    \/ \E r \in Requests : ServeWithError(r) /\ Forget({r})
    \/ \E p \in Processes :
          /\ Crash(p) /\ Secrets!StopMoving(p) /\ Secrets!Drop(ServedBy(p))
          /\ UNCHANGED <<row, vault, wiped, refusals>>

\* A process whose migration of secrets does not end well ends with it.
MoveSecrets(p) ==
    /\ IsUp(p) /\ Secrets!Move(p)
    /\ pc' = [pc EXCEPT ![p] = IF moving[p].stage = "loaded" /\ moving'[p].stage = "none" THEN "idle" ELSE "up"]
    /\ UNCHANGED <<database, lock, available, missing, home, faults>>

HandleRequest(r) ==
    /\ pc[r] = "serving"
    /\ Secrets!Handle(r)
    /\ UNCHANGED schemaVars

StartUpNext ==
    \/ UpgradeStep
    \/ Break
    \/ \E p \in Processes : MoveSecrets(p)
    \/ \E r \in Requests : HandleRequest(r)

\* The platform restarts a process that ended, a process goes on with what it began,
\* the advisory lock is granted in turn, and someone merges the accounts.
StartUpFairness ==
    /\ WF_all(MergeAccounts /\ UNCHANGED secrets)
    /\ \A p \in Processes : WF_all(StartProcess(p) /\ UNCHANGED secrets) /\ WF_all(MoveSecrets(p))
    /\ \A t \in Tasks :
          /\ WF_all(InitDb(t) /\ UNCHANGED secrets)
          /\ SF_all(TakeLock(t) /\ UNCHANGED secrets)

StartUpSpec == StartUpInit /\ [][StartUpNext]_all /\ StartUpFairness

-----------------------------------------------------------------------------
\* A saved secret has a value to be deployed with, in its row or in the vault, through
\* refusals, crashes and two processes that move it at the same time, until someone
\* deletes a variable of its name.
SecretIsKept == Secrets!SecretIsKept

\* Every process comes up and serves in the end, whatever the others break by being
\* faster, and by then the database holds no secret any more.
EveryProcessIsReady ==
    /\ \A p \in Processes : <>[]Ready(p)
    /\ <>[](Secrets!Legacy = {})
=============================================================================
