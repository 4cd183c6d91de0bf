--------------------------- MODULE CloudConnections ---------------------------
(***************************************************************************)
(* The Azure connection of an account (backend/main.py, connect, upsert    *)
(* and disconnect): its settings are a row of user_azure_connections, the  *)
(* client secret is in Key Vault (services/azure_connector.py), and a      *)
(* fingerprint binds the row to the settings that Azure was asked about    *)
(* (services/deployment_targets.py).  Requests overlap; a write sends the  *)
(* columns that differ from what the request loaded, and those only.       *)
(*                                                                         *)
(* Two columns stand for the seven of the fingerprint; client n has secret *)
(* n and Azure accepts it in every tenant.                                 *)
(***************************************************************************)
EXTENDS Naturals, Sequences, FiniteSets

CONSTANTS
    ConnectRequests, \* requests that may be in progress at once
    FallbackSecret,  \* AZURE_CLIENT_SECRET of the process, which stands in for an unreadable secret
    MaxAsks          \* bound: requests in all

ASSUME AsksAssumption == MaxAsks \in Nat
ASSUME FallbackAssumption == FallbackSecret \in {0, 1, 2}

-----------------------------------------------------------------------------
VARIABLES
    connections, \* user_azure_connections in the order of created_at
    credential,  \* the account's secret in Key Vault, with its soft deletion
    asking,      \* where each request stands, what it loaded and what it keeps
    asks,        \* requests so far
    validated,   \* settings that Azure confirmed
    excuses      \* what happened that the handlers do not compensate

connectionVars == <<connections, credential, asking, asks, validated, excuses>>

Tenants == {1, 2}
Clients == {1, 2}
Omitted == 0
NoSecret == 0
NoFingerprint == [tenant |-> 0, client |-> 0]

Settings(row) == [tenant |-> row.tenant, client |-> row.client]

\* configuration_fingerprint; equal exactly for equal settings.
Fingerprinted(row) == [row EXCEPT !.fingerprint = Settings(row)]

NoRow == [tenant |-> 0, client |-> 0, live |-> FALSE, fingerprint |-> NoFingerprint]
NoConnect == [kind |-> "none", at |-> "idle", tenant |-> 0, client |-> 0, secret |-> NoSecret,
              row |-> 0, loaded |-> NoRow, new |-> NoRow, previous |-> NoSecret, failures |-> 0]

ConnectionsInit ==
    /\ connections = <<>>
    /\ credential = [state |-> "absent", value |-> NoSecret]
    /\ asking = [q \in ConnectRequests |-> NoConnect]
    /\ asks = 0
    /\ validated = {}
    /\ excuses = {}

\* Mutant of HasVerifiedTarget: any fingerprint will do.
HasAnyFingerprint(row) == row.live /\ row.fingerprint # NoFingerprint

\* has_verified_app_service_target
HasVerifiedTarget(row) == row.live /\ row.fingerprint = Settings(row)

\* get_active_azure_connection
ActiveConnection ==
    LET live == {i \in DOMAIN connections : connections[i].live}
    IN  IF live = {} THEN 0 ELSE CHOOSE i \in live : \A j \in live : j <= i

Idle(q) == asking[q].at = "idle"
Become(q, new) == asking' = [asking EXCEPT ![q] = new]
Done(q) == Become(q, NoConnect)

Excuse(reasons) == excuses' = excuses \cup reasons

-----------------------------------------------------------------------------
(* Azure and Key Vault *)

\* validate_credential, with read-only lookups of the target's resources.
Accepts(settings, secret) == secret # NoSecret /\ settings.client = secret

\* get_credential_secret; a vault that cannot be read looks like one without.
Readable == IF credential.state = "set" THEN credential.value ELSE FallbackSecret

\* The name of a deleted secret is reserved, and storing does not recover it.
Storable == credential.state # "deleted"
Stored(secret) == credential' = [state |-> "set", value |-> secret]

\* begin_delete_secret fails where there is no secret.
Revocable == credential.state = "set"
Deleted == credential' = [state |-> "deleted", value |-> NoSecret]

\* The retention of deleted secrets ends.
Purge ==
    /\ credential.state = "deleted"
    /\ credential' = [state |-> "absent", value |-> NoSecret]
    /\ UNCHANGED <<connections, asking, asks, validated, excuses>>

-----------------------------------------------------------------------------
(* The requests *)

\* What overlaps is not compensated.
Overlap == IF \A q \in ConnectRequests : Idle(q) THEN {} ELSE {"overlap"}

\* connect_azure validates first; upsert_azure_connection may leave out the
\* client and its secret; disconnect_azure has neither.
AskConnection(q) ==
    /\ Idle(q)
    /\ asks < MaxAsks
    /\ asks' = asks + 1
    /\ Excuse(Overlap)
    /\ \/ \E t \in Tenants, c \in Clients :
             /\ Become(q, [NoConnect EXCEPT !.kind = "connect", !.at = "load", !.tenant = t, !.client = c, !.secret = c])
             /\ validated' = validated \cup {[tenant |-> t, client |-> c]}
       \/ \E t \in Tenants, c \in Clients \cup {Omitted}, s \in Clients \cup {NoSecret} :
             /\ Become(q, [NoConnect EXCEPT !.kind = "upsert", !.at = "load", !.tenant = t, !.client = c, !.secret = s])
             /\ UNCHANGED validated
       \/ Become(q, [NoConnect EXCEPT !.kind = "disconnect", !.at = "load"]) /\ UNCHANGED validated
    /\ UNCHANGED <<connections, credential>>

LoadConnection(q) ==
    /\ asking[q].at = "load"
    /\ LET i == ActiveConnection IN
       IF i = 0 /\ asking[q].kind = "disconnect" THEN Done(q)
       ELSE Become(q, [asking[q] EXCEPT !.at = "vault", !.row = i, !.loaded = IF i = 0 THEN NoRow ELSE connections[i]])
    /\ UNCHANGED <<connections, credential, asks, validated, excuses>>

\* What an upsert leaves out is taken from the loaded row and the vault.
Effective(r, previous) ==
    [settings |-> [tenant |-> r.tenant, client |-> IF r.client = Omitted THEN r.loaded.client ELSE r.client],
     secret   |-> IF r.secret = NoSecret THEN previous ELSE r.secret]

Connected(r, settings) ==
    Fingerprinted([tenant |-> settings.tenant, client |-> settings.client, live |-> TRUE, fingerprint |-> NoFingerprint])

\* From the read of the previous secret to the store: nothing yields in between.
\* A store that is reported to have failed may have been made all the same.
StoreCredential(q) ==
    LET r == asking[q] IN
    /\ r.at = "vault"
    /\ r.kind # "disconnect"
    /\ \E readFails \in BOOLEAN :
          LET previous == IF r.row = 0 THEN NoSecret ELSE IF readFails THEN FallbackSecret ELSE Readable
              e        == Effective(r, previous)
              failed   == IF readFails /\ r.row # 0 THEN 1 ELSE 0
          IN  IF Accepts(e.settings, e.secret)
              THEN /\ validated' = validated \cup {e.settings}
                   /\ \/ /\ Storable
                         /\ Stored(e.secret)
                         /\ Become(q, [r EXCEPT !.at = "commit", !.new = Connected(r, e.settings),
                                                !.previous = previous, !.failures = failed])
                         /\ UNCHANGED excuses
                      \/ Done(q) /\ UNCHANGED <<credential, excuses>>
                      \/ Done(q) /\ Storable /\ Stored(e.secret) /\ Excuse({"unanswered"})
              ELSE Done(q) /\ UNCHANGED <<credential, validated, excuses>>
    /\ UNCHANGED <<connections, asks>>

\* Likewise a deletion.
DeleteCredential(q) ==
    LET r == asking[q] IN
    /\ r.at = "vault"
    /\ r.kind = "disconnect"
    /\ \/ /\ Revocable
          /\ Deleted
          /\ \E previous \in {Readable, FallbackSecret} :
                Become(q, [r EXCEPT !.at = "commit", !.previous = previous,
                                    !.new = [r.loaded EXCEPT !.live = FALSE, !.fingerprint = NoFingerprint]])
          /\ UNCHANGED excuses
       \/ Done(q) /\ UNCHANGED <<credential, excuses>>
       \/ Done(q) /\ Revocable /\ Deleted /\ Excuse({"unanswered"})
    /\ UNCHANGED <<connections, asks, validated>>

\* The columns that the request changed.
Merged(row, r) == [f \in DOMAIN row |-> IF r.new[f] # r.loaded[f] THEN r.new[f] ELSE row[f]]

Saved(r) ==
    connections' = IF r.row = 0 THEN Append(connections, r.new)
                   ELSE [connections EXCEPT ![r.row] = Merged(@, r)]

CommitConnection(q) ==
    /\ asking[q].at = "commit"
    /\ Saved(asking[q])
    /\ Done(q)
    /\ UNCHANGED <<credential, asks, validated, excuses>>

\* Mutant of CompensateWrite: the commit's failure is only reported.
CompensateNothing(r) == UNCHANGED credential

\* compensate_failed_azure_connection_write when the vault does as it is told.
CompensateWrite(r) ==
    IF r.previous # NoSecret
    THEN IF Storable THEN Stored(r.previous) ELSE UNCHANGED credential
    ELSE IF Revocable THEN Deleted ELSE UNCHANGED credential

\* The database reports a failure: of a commit that was not made, or of one whose
\* answer was lost (unanswered).  The vault may refuse to be set back.
CommitFails(q) ==
    LET r == asking[q] IN
    /\ r.at = "commit"
    /\ \E unanswered, compensated \in BOOLEAN :
          /\ IF unanswered THEN Saved(r) ELSE UNCHANGED connections
          /\ IF compensated THEN CompensateWrite(r) ELSE UNCHANGED credential
          /\ Excuse((IF unanswered THEN {"unanswered"} ELSE {})
                      \cup (IF r.kind = "disconnect" THEN {"disconnect"} ELSE {})
                      \cup (IF r.failures > 0 \/ ~compensated THEN {"failures"} ELSE {}))
    /\ Done(q)
    /\ UNCHANGED <<asks, validated>>

\* The process ends with what was not committed.
ConnectionRequestDies(q) ==
    /\ ~Idle(q)
    /\ Done(q)
    /\ Excuse({"crash"})
    /\ UNCHANGED <<connections, credential, asks, validated>>

ConnectionsNext ==
    \/ Purge
    \/ \E q \in ConnectRequests :
          \/ AskConnection(q) \/ LoadConnection(q) \/ StoreCredential(q) \/ DeleteCredential(q)
          \/ CommitConnection(q) \/ CommitFails(q) \/ ConnectionRequestDies(q)

-----------------------------------------------------------------------------
(* Properties *)

\* Whatever overlaps, fails or dies: a row that counts as verified has settings
\* that Azure confirmed together, though two requests may each have written some
\* of its columns (configuration_fingerprint, "Bind successful target validation
\* to the exact non-secret settings").
VerifiedWasValidated ==
    \A i \in DOMAIN connections : HasVerifiedTarget(connections[i]) => Settings(connections[i]) \in validated

\* Between requests that do not overlap and of which each met one failing call at
\* most, other than a disconnect at its commit, the secret in the vault is one
\* that works with the row that counts as verified (store before the row,
\* compensate_failed_azure_connection_write).  A failing call has to have had no
\* effect: a store, a deletion or a commit that was made without an answer is
\* taken for one that was not, and the secret is left, or set back, under a row
\* that it does not fit.  VerifiedWasValidated holds in those cases as well.
CredentialFits ==
    excuses = {} /\ (\A q \in ConnectRequests : Idle(q)) =>
        \A i \in DOMAIN connections :
            HasVerifiedTarget(connections[i]) =>
                credential.state = "set" /\ Accepts(connections[i], credential.value)

\* A connection that a release would use is one that Azure has accepted.
VerifiedIsUsable == VerifiedWasValidated /\ CredentialFits
=============================================================================
