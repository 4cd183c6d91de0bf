--------------------------- MODULE ProjectSecrets ---------------------------
(***************************************************************************)
(* One environment variable name of one project: its database rows         *)
(* (environment_variables has no unique key) and the value Key Vault holds *)
(* under the name derived from it (backend/services/vault.py).  Users      *)
(* create and delete the variable (backend/main.py), every starting        *)
(* process moves legacy secret values to the vault, and a deployment reads *)
(* the row or, for a secret, the vault (pipeline.py).  Nothing spans the   *)
(* vault and the database: every call of the vault is a step of its own.   *)
(***************************************************************************)
EXTENDS Naturals, FiniteSets

CONSTANTS
    Processes,   \* API processes
    Requests,    \* requests being served at the same time
    Values,      \* values users give the variable
    Kinds,       \* is_secret of the variables they save
    Absent,      \* the empty string in the database, no secret in the vault
    MaxRows,     \* bound: rows of the variable ever made
    MaxRefusals  \* bound: calls the vault refuses

Rows == 1 .. MaxRows

VARIABLES
    row,        \* environment_variables: its state, is_secret, value, and the value given
    vault,      \* what Key Vault holds under the variable's name
    moving,     \* migrate_legacy_environment_secrets of each process
    ask,        \* what each request does
    wiped,      \* a deletion has reached the vault
    refusals    \* bound on refusals

vars == <<row, vault, moving, ask, wiped, refusals>>

NoAsk == [op |-> "none", stage |-> "new", row |-> 1, value |-> Absent, secret |-> FALSE]
Still == [stage |-> "none", todo |-> {}, done |-> {}, failed |-> FALSE]

Live   == {i \in Rows : row[i].state = "live"}
Legacy == {i \in Live : row[i].secret /\ row[i].value # Absent}

\* Secrets saved before the vault was used have their value in the row.
Init ==
    /\ \E secret \in Kinds, v \in Values, n \in {0, 1} :
          row = [i \in Rows |->
                    IF i <= n THEN [state |-> "live", secret |-> secret, value |-> v, given |-> v]
                    ELSE [state |-> "unused", secret |-> FALSE, value |-> Absent, given |-> Absent]]
    /\ vault = Absent
    /\ moving = [p \in Processes |-> Still]
    /\ ask = [r \in Requests |-> NoAsk]
    /\ wiped = FALSE
    /\ refusals = 0

\* The vault is unavailable, or refuses.
Refused == refusals < MaxRefusals /\ refusals' = refusals + 1

-----------------------------------------------------------------------------
\* migrate_legacy_environment_secrets
LoadLegacy(p) ==
    /\ moving[p].stage = "none"
    /\ moving' = [moving EXCEPT ![p] = [stage |-> "loaded", todo |-> Legacy, done |-> {}, failed |-> FALSE]]
    /\ UNCHANGED <<row, vault, ask, wiped, refusals>>

MoveOne(p, i) ==
    /\ moving[p].stage = "loaded" /\ i \in moving[p].todo
    /\ \/ /\ vault' = row[i].given
          /\ moving' = [moving EXCEPT ![p].todo = @ \ {i}, ![p].done = @ \cup {i}]
          /\ UNCHANGED refusals
       \/ /\ Refused
          /\ moving' = [moving EXCEPT ![p].todo = @ \ {i}, ![p].failed = TRUE]
          /\ UNCHANGED vault
    /\ UNCHANGED <<row, ask, wiped>>

\* Mutant of Cleared: a value the vault refused is cleared with the others.
ClearedAll(p) ==
    [i \in Rows |-> IF row[i].state = "live" /\ row[i].secret THEN [row[i] EXCEPT !.value = Absent] ELSE row[i]]

Cleared(p) ==
    [i \in Rows |-> IF i \in moving[p].done THEN [row[i] EXCEPT !.value = Absent] ELSE row[i]]

\* The update of a row that was deleted meanwhile raises, as does a refusal after the commit:
\* the process does not start.
CommitMoved(p) ==
    /\ moving[p].stage = "loaded" /\ moving[p].todo = {}
    /\ LET stale == ~(moving[p].done \subseteq Live)
       IN  /\ row' = IF stale THEN row ELSE Cleared(p)
           /\ moving' = [moving EXCEPT ![p] =
                            IF stale \/ moving[p].failed THEN Still ELSE [Still EXCEPT !.stage = "moved"]]
    /\ UNCHANGED <<vault, ask, wiped, refusals>>

-----------------------------------------------------------------------------
Finish(r) == ask' = [ask EXCEPT ![r] = NoAsk]

\* create_project_variable: nothing of that name is found, the vault, the row.
OpenCreate(r, v, secret) ==
    /\ ask[r].op = "none" /\ Live = {}
    /\ ask' = [ask EXCEPT ![r] = [op |-> "create", stage |-> IF secret THEN "new" ELSE "stored", row |-> 1,
                                  value |-> v, secret |-> secret]]
    /\ UNCHANGED <<row, vault, moving, wiped, refusals>>

StoreSecret(r) ==
    /\ ask[r].op = "create" /\ ask[r].stage = "new"
    /\ \/ /\ vault' = ask[r].value
          /\ ask' = [ask EXCEPT ![r].stage = "stored"]
          /\ UNCHANGED refusals
       \/ Refused /\ Finish(r) /\ UNCHANGED vault
    /\ UNCHANGED <<row, moving, wiped>>

InsertRow(r, i) ==
    /\ ask[r].op = "create" /\ ask[r].stage = "stored"
    /\ row[i].state = "unused" /\ (\A j \in Rows : j < i => row[j].state # "unused")
    /\ row' = [row EXCEPT ![i] = [state |-> "live", secret |-> ask[r].secret, given |-> ask[r].value,
                                  value |-> IF ask[r].secret THEN Absent ELSE ask[r].value]]
    /\ Finish(r)
    /\ UNCHANGED <<vault, moving, wiped, refusals>>

\* delete_project_variable: the row is found, the vault, the row.
OpenDelete(r, i) ==
    /\ ask[r].op = "none" /\ i \in Live
    /\ ask' = [ask EXCEPT ![r] = [NoAsk EXCEPT !.op = "delete", !.row = i,
                                               !.stage = IF row[i].secret THEN "new" ELSE "stored"]]
    /\ UNCHANGED <<row, vault, moving, wiped, refusals>>

WipeSecret(r) ==
    /\ ask[r].op = "delete" /\ ask[r].stage = "new"
    /\ \/ /\ vault' = Absent
          /\ wiped' = TRUE
          /\ ask' = [ask EXCEPT ![r].stage = "stored"]
          /\ UNCHANGED refusals
       \/ Refused /\ Finish(r) /\ UNCHANGED <<vault, wiped>>
    /\ UNCHANGED <<row, moving>>

DeleteRow(r) ==
    /\ ask[r].op = "delete" /\ ask[r].stage = "stored"
    /\ row' = [row EXCEPT ![ask[r].row].state = "deleted"]
    /\ Finish(r)
    /\ UNCHANGED <<vault, moving, wiped, refusals>>

-----------------------------------------------------------------------------
Move(p) == LoadLegacy(p) \/ (\E i \in Rows : MoveOne(p, i)) \/ CommitMoved(p)

Handle(r) ==
    \/ \E v \in Values, secret \in Kinds : OpenCreate(r, v, secret)
    \/ \E i \in Rows : OpenDelete(r, i) \/ InsertRow(r, i)
    \/ StoreSecret(r) \/ WipeSecret(r) \/ DeleteRow(r)

\* The process stops: what it had in hand is gone, what it wrote stays.
StopMoving(p) == moving' = [moving EXCEPT ![p] = Still]
Drop(gone)    == ask' = [r \in Requests |-> IF r \in gone THEN NoAsk ELSE ask[r]]

-----------------------------------------------------------------------------
\* Types.
TypeOK ==
    /\ row \in [Rows -> [state : {"unused", "live", "deleted"}, secret : BOOLEAN,
                         value : Values \cup {Absent}, given : Values \cup {Absent}]]
    /\ vault \in Values \cup {Absent}
    /\ moving \in [Processes -> [stage : {"none", "loaded", "moved"}, todo : SUBSET Rows,
                                 done : SUBSET Rows, failed : BOOLEAN]]
    /\ ask \in [Requests -> [op : {"none", "create", "delete"}, stage : {"new", "stored"}, row : Rows,
                             value : Values \cup {Absent}, secret : BOOLEAN]]
    /\ wiped \in BOOLEAN
    /\ refusals \in 0 .. MaxRefusals

\* A saved secret has a value to be deployed with, in its row or in the vault, through
\* refusals, crashes and two processes that move it at the same time, until someone
\* deletes a variable of its name.
SecretIsKept == ~wiped => \A i \in Live : row[i].value # Absent \/ vault # Absent
=============================================================================
