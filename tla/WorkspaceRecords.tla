--------------------------- MODULE WorkspaceRecords ---------------------------
(***************************************************************************)
(* Records that overlapping requests of one workspace write: its members   *)
(* and invitations, which are kept consistent by row locks, the incidents  *)
(* of a deployment with what was proposed against them, which are kept     *)
(* consistent by conditional updates and unique keys, and the connection   *)
(* to Azure, whose row and secret are kept consistent by compensation and  *)
(* a fingerprint.  They share no row: a behaviour is about one of them.    *)
(***************************************************************************)
EXTENDS Workspaces, Remediation, CloudConnections

VARIABLE subject

recordVars == <<vars, remediationVars, connectionVars, subject>>

RecordsInit == subject \in {"members", "incidents", "connection"} /\ Init /\ RemediationInit /\ ConnectionsInit

RecordsNext ==
    /\ UNCHANGED subject
    /\ \/ subject = "members" /\ Next /\ UNCHANGED <<remediationVars, connectionVars>>
       \/ subject = "incidents" /\ RemediationNext /\ UNCHANGED <<vars, connectionVars>>
       \/ subject = "connection" /\ ConnectionsNext /\ UNCHANGED <<vars, remediationVars>>

RecordsSpec == RecordsInit /\ [][RecordsNext]_recordVars
=============================================================================
