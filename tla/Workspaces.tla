----------------------------- MODULE Workspaces -----------------------------
(***************************************************************************)
(* A company workspace (backend/routes/workspaces.py): its members, their  *)
(* roles and the single-use invitations.  Every request loads the caller's *)
(* membership first and decides later, so requests are taken apart where   *)
(* another may come between: the load, the wait for a row lock, the commit.*)
(* One workspace is modelled; a request slot is a session of the API.      *)
(*                                                                         *)
(* PostgreSQL is external.  SELECT ... FOR UPDATE on the workspace is      *)
(* `wsLock`, the lock on an invitation's row `rowLock`.  Inserting a       *)
(* membership or an audit event takes FOR KEY SHARE on the workspace row it*)
(* refers to, which waits for a FOR UPDATE: a commit that inserts one waits*)
(* for wsLock too.  Objects a session has loaded are not refreshed by a    *)
(* later query, so the caller's own membership keeps its loaded role.      *)
(* That members need MFA to act, and cannot turn it off, only decides when *)
(* a member may act: it is left out.                                       *)
(***************************************************************************)
EXTENDS Naturals, FiniteSets

CONSTANTS
    Users,           \* people with a verified address
    Founder,         \* the one who creates the workspace
    Requests,        \* request slots
    Nobody,          \* no holder of a lock
    MaxInvitations   \* bound: invitations ever sent

ASSUME ActorsAssumption == Founder \in Users /\ Nobody \notin Requests
ASSUME InvitationsAssumption == MaxInvitations \in Nat

\* "engineer" stands for "viewer" too: neither manages members.
InvitedRoles == {"admin", "engineer"}
Roles        == InvitedRoles \cup {"owner"}
ManagerRoles == {"owner", "admin"}
Invitations  == 1 .. MaxInvitations

VARIABLES
    founded,   \* the workspace exists
    member,    \* tenant_memberships row of each user
    inv,       \* workspace_invitations
    wsLock,    \* the request that holds FOR UPDATE on the workspace
    rowLock,   \* the request that holds each invitation's row
    req,       \* what each request has loaded and wants
    admitted   \* how many memberships each invitation has opened

rows  == <<founded, member, inv, admitted>>
locks == <<wsLock, rowLock>>
vars  == <<rows, locks, req>>

NoRequest == [op |-> "none", stage |-> "new", by |-> Founder, on |-> Founder, role |-> "engineer",
              had |-> "engineer", ids |-> {}]

Active(u) == member[u].status = "active"
Owners    == {u \in Users : Active(u) /\ member[u].role = "owner"}
Pending(u) == {i \in Invitations : inv[i].status = "pending" /\ inv[i].to = u}

-----------------------------------------------------------------------------
Init ==
    /\ founded = FALSE
    /\ member = [u \in Users |-> [status |-> "absent", role |-> "engineer"]]
    /\ inv = [i \in Invitations |-> [status |-> "unsent", to |-> Founder, role |-> "engineer", late |-> FALSE]]
    /\ admitted = [i \in Invitations |-> 0]
    /\ wsLock = Nobody
    /\ rowLock = [i \in Invitations |-> Nobody]
    /\ req = [r \in Requests |-> NoRequest]

\* create_workspace
CreateWorkspace ==
    /\ ~founded
    /\ founded' = TRUE
    /\ member' = [member EXCEPT ![Founder] = [status |-> "active", role |-> "owner"]]
    /\ UNCHANGED <<inv, admitted, locks, req>>

-----------------------------------------------------------------------------
\* _workspace_and_membership and the checks of the caller's role that follow it.
May(u, op, role) ==
    /\ founded /\ Active(u)
    /\ member[u].role \in (IF op = "role" THEN {"owner"} ELSE ManagerRoles)
    /\ op = "invite" /\ role = "admin" => member[u].role = "owner"

\* The request keeps the role it loaded: everything after relies on it.
Load(r, u, op, on, role, ids) ==
    /\ req[r].op = "none"
    /\ May(u, op, role)
    /\ req' = [req EXCEPT ![r] = [op |-> op, stage |-> "loaded", by |-> u, on |-> on, role |-> role,
                                  had |-> member[u].role, ids |-> ids]]
    /\ UNCHANGED <<rows, locks>>

Finish(r) == req' = [req EXCEPT ![r] = NoRequest]

At(r, op, stage) == req[r].op = op /\ req[r].stage = stage

AskInvite(r, u, v, role) == v # u /\ role \in InvitedRoles /\ Load(r, u, "invite", v, role, {})
AskRole(r, u, v, role)   == Load(r, u, "role", v, role, {})
AskRemove(r, u, v)       == Load(r, u, "remove", v, "engineer", {})
AskRevoke(r, u, i)       == inv[i].status = "pending" /\ Load(r, u, "revoke", inv[i].to, "engineer", {i})
\* The pending invitations are loaded without a lock, and their age judged after.
AskList(r, u) ==
    Load(r, u, "list", u, "engineer", {i \in Invitations : inv[i].status = "pending"})

-----------------------------------------------------------------------------
\* FOR UPDATE on the workspace, then the membership and the invitations to replace.
InviteLock(r) ==
    /\ At(r, "invite", "loaded") /\ wsLock = Nobody
    /\ IF Active(req[r].on)
       THEN Finish(r) /\ UNCHANGED wsLock
       ELSE /\ wsLock' = r
            /\ req' = [req EXCEPT ![r].stage = "sending", ![r].ids = Pending(req[r].on)]
    /\ UNCHANGED <<rows, rowLock>>

Release(r) ==
    /\ wsLock' = IF wsLock = r THEN Nobody ELSE wsLock
    /\ rowLock' = [i \in Invitations |-> IF rowLock[i] = r THEN Nobody ELSE rowLock[i]]

\* The e-mail was not delivered, or the connection is lost: rolled back.
Abandon(r) ==
    /\ req[r].stage \in {"sending", "holding"}
    /\ Release(r) /\ Finish(r)
    /\ UNCHANGED rows

RowsFree(r) == \A i \in req[r].ids : rowLock[i] \in {Nobody, r}

\* uq_workspace_invitations_one_pending_email
OnePendingEach(table) ==
    \A i, j \in Invitations :
        table[i].status = "pending" /\ table[j].status = "pending" /\ table[i].to = table[j].to => i = j

\* The UPDATE of the loaded ones names no status.
InviteCommit(r, i) ==
    /\ At(r, "invite", "sending")
    /\ inv[i].status = "unsent" /\ (\A j \in Invitations : j < i => inv[j].status # "unsent")
    /\ RowsFree(r)
    /\ LET revoked == [j \in Invitations |->
                          IF j \in req[r].ids THEN [inv[j] EXCEPT !.status = "revoked"] ELSE inv[j]]
           sent    == [revoked EXCEPT ![i] = [status |-> "pending", to |-> req[r].on,
                                              role |-> req[r].role, late |-> FALSE]]
       IN  inv' = IF OnePendingEach(sent) THEN sent ELSE inv
    /\ Release(r) /\ Finish(r)
    /\ UNCHANGED <<founded, member, admitted>>

\* revoke: the UPDATE takes the row, the audit event waits for the workspace.
RevokeHold(r) ==
    /\ At(r, "revoke", "loaded") /\ RowsFree(r)
    /\ rowLock' = [i \in Invitations |-> IF i \in req[r].ids THEN r ELSE rowLock[i]]
    /\ req' = [req EXCEPT ![r].stage = "holding"]
    /\ UNCHANGED <<rows, wsLock>>

RevokeCommit(r) ==
    /\ At(r, "revoke", "holding") /\ wsLock = Nobody
    /\ inv' = [i \in Invitations |->
                  IF i \in req[r].ids THEN [inv[i] EXCEPT !.status = "revoked"] ELSE inv[i]]
    /\ Release(r) /\ Finish(r)
    /\ UNCHANGED <<founded, member, admitted>>

\* list_workspace_invitations writes what it loaded as pending.
ListCommit(r) ==
    /\ At(r, "list", "loaded") /\ RowsFree(r)
    /\ inv' = [i \in Invitations |->
                  IF i \in req[r].ids /\ inv[i].late THEN [inv[i] EXCEPT !.status = "expired"] ELSE inv[i]]
    /\ Finish(r)
    /\ UNCHANGED <<founded, member, admitted, locks>>

-----------------------------------------------------------------------------
\* Mutant of AcceptHold: the row is read without FOR UPDATE.
AcceptUnlocked(r, u, i) ==
    /\ req[r].op = "none"
    /\ inv[i].status = "pending" /\ inv[i].to = u /\ ~inv[i].late
    /\ ~Active(u)
    /\ req' = [req EXCEPT ![r] = [op |-> "accept", stage |-> "holding", by |-> u, on |-> u,
                                  role |-> inv[i].role, had |-> "engineer", ids |-> {i}]]
    /\ UNCHANGED <<rows, locks>>

\* accept_workspace_invitation locks the pending row of the token; an address that is
\* not the caller's, or of an active member, changes nothing.
AcceptHold(r, u, i) ==
    /\ req[r].op = "none"
    /\ rowLock[i] = Nobody
    /\ inv[i].status = "pending" /\ inv[i].to = u /\ ~inv[i].late
    /\ ~Active(u)
    /\ rowLock' = [rowLock EXCEPT ![i] = r]
    /\ req' = [req EXCEPT ![r] = [op |-> "accept", stage |-> "holding", by |-> u, on |-> u,
                                  role |-> inv[i].role, had |-> "engineer", ids |-> {i}]]
    /\ UNCHANGED <<rows, wsLock>>

AcceptLate(u, i) ==
    /\ rowLock[i] = Nobody
    /\ inv[i].status = "pending" /\ inv[i].to = u /\ inv[i].late
    /\ inv' = [inv EXCEPT ![i].status = "expired"]
    /\ UNCHANGED <<founded, member, admitted, locks, req>>

\* A person has one open invitation, so is still no member; a removed member comes back.
AcceptCommit(r) ==
    /\ At(r, "accept", "holding") /\ wsLock = Nobody
    /\ member' = [member EXCEPT ![req[r].by] = [status |-> "active", role |-> req[r].role]]
    /\ inv' = [i \in Invitations |->
                  IF i \in req[r].ids THEN [inv[i] EXCEPT !.status = "accepted"] ELSE inv[i]]
    /\ admitted' = [i \in Invitations |-> admitted[i] + (IF i \in req[r].ids THEN 1 ELSE 0)]
    /\ Release(r) /\ Finish(r)
    /\ UNCHANGED founded

-----------------------------------------------------------------------------
\* The role of the target as the session sees it.
SeenRole(r) == IF req[r].on = req[r].by THEN req[r].had ELSE member[req[r].on].role

\* Mutant of IsFinalOwner: the target is not taken from the owners that are counted.
IsNoOwnerLeft(u) == Owners = {}

\* The owners are counted after the lock is granted.
IsFinalOwner(u) == Owners \subseteq {u}

\* update_workspace_member_role, from the lock to the commit.
RoleCommit(r) ==
    /\ At(r, "role", "loaded") /\ wsLock = Nobody
    /\ LET v == req[r].on
           refused == ~Active(v) \/ (SeenRole(r) = "owner" /\ req[r].role # "owner" /\ IsFinalOwner(v))
       IN  member' = IF refused \/ SeenRole(r) = req[r].role THEN member
                     ELSE [member EXCEPT ![v].role = req[r].role]
    /\ Finish(r)
    /\ UNCHANGED <<founded, inv, admitted, locks>>

\* remove_workspace_member, from the lock to the commit.  Nothing reads the role of a
\* removed member again.
RemoveCommit(r) ==
    /\ At(r, "remove", "loaded") /\ wsLock = Nobody
    /\ LET v == req[r].on
           refused == \/ ~Active(v)
                      \/ req[r].had # "owner" /\ SeenRole(r) \in ManagerRoles
                      \/ SeenRole(r) = "owner" /\ IsFinalOwner(v)
       IN  member' = IF refused THEN member
                     ELSE [member EXCEPT ![v] = [status |-> "removed", role |-> "engineer"]]
    /\ Finish(r)
    /\ UNCHANGED <<founded, inv, admitted, locks>>

-----------------------------------------------------------------------------
\* Time passes: INVITATION_TTL_HOURS.
Lapse(i) ==
    /\ inv[i].status = "pending" /\ ~inv[i].late
    /\ inv' = [inv EXCEPT ![i].late = TRUE]
    /\ UNCHANGED <<founded, member, admitted, locks, req>>

Ask(r) ==
    \E u \in Users :
        \/ \E v \in Users, role \in Roles : AskInvite(r, u, v, role) \/ AskRole(r, u, v, role)
        \/ \E v \in Users : AskRemove(r, u, v)
        \/ \E i \in Invitations : AskRevoke(r, u, i) \/ AcceptHold(r, u, i)
        \/ AskList(r, u)

Proceed(r) ==
    \/ InviteLock(r)
    \/ \E i \in Invitations : InviteCommit(r, i)
    \/ RevokeHold(r) \/ RevokeCommit(r)
    \/ ListCommit(r)
    \/ AcceptCommit(r)
    \/ RoleCommit(r)
    \/ RemoveCommit(r)

Next ==
    \/ CreateWorkspace
    \/ \E r \in Requests : Ask(r) \/ Proceed(r) \/ Abandon(r)
    \/ \E u \in Users, i \in Invitations : AcceptLate(u, i)
    \/ \E i \in Invitations : Lapse(i)

Spec == Init /\ [][Next]_vars

-----------------------------------------------------------------------------
\* Types.
TypeOK ==
    /\ founded \in BOOLEAN
    /\ member \in [Users -> [status : {"absent", "active", "removed"}, role : Roles]]
    /\ inv \in [Invitations -> [status : {"unsent", "pending", "accepted", "revoked", "expired"},
                                to : Users, role : InvitedRoles, late : BOOLEAN]]
    /\ admitted \in [Invitations -> Nat]
    /\ wsLock \in Requests \cup {Nobody}
    /\ rowLock \in [Invitations -> Requests \cup {Nobody}]
    /\ req \in [Requests -> [op : {"none", "invite", "role", "remove", "revoke", "list", "accept"},
                             stage : {"new", "loaded", "sending", "holding"}, by : Users, on : Users,
                             role : Roles, had : Roles, ids : SUBSET Invitations]]

\* A workspace keeps an owner whatever owners do to each other and to themselves at
\* the same time, although each of them acts on a membership loaded before the lock.
AlwaysAnOwner == founded => Owners # {}

\* The two row locks of one invitation's life together: an invitation makes one
\* person a member once, and an active member has no open invitation left that could
\* bring him back after a removal.
InvitationsAreSpent ==
    /\ \A i \in Invitations : admitted[i] <= 1
    /\ \A u \in Users : Active(u) => Pending(u) = {}

\* The members and invitations of a workspace fit together.
MembershipIsSound == TypeOK /\ AlwaysAnOwner /\ InvitationsAreSpent
=============================================================================
