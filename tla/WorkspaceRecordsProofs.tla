----------------------- MODULE WorkspaceRecordsProofs -----------------------
(***************************************************************************)
(* Proofs about the records that overlapping requests write: for any       *)
(* number of people, requests, invitations, samples and incidents, a       *)
(* workspace keeps an owner and an invitation is used once, a deployment   *)
(* has one open incident per condition and closed ones stay closed, and a  *)
(* connection that counts as verified was validated and has its secret.    *)
(***************************************************************************)
EXTENDS WorkspaceRecords, FiniteSetTheorems, TLAPS

-----------------------------------------------------------------------------
(* The members of a workspace.  What a request did not lock it may know only *)
(* of the past; the invariant says what it does know.                        *)

NothingBeforeFounding ==
    ~founded => /\ \A u \in Users : member[u].status = "absent"
                /\ \A i \in Invitations : inv[i].status = "unsent"
                /\ \A r \in Requests : req[r].op = "none"

\* A caller's stale role is good enough to be refused on.
CallerCould(r) ==
    /\ req[r].op = "role" => req[r].had = "owner"
    /\ req[r].op = "remove" => req[r].had \in ManagerRoles
    /\ req[r].op = "invite" => req[r].role \in InvitedRoles

\* Whoever holds the workspace to invite a person keeps that person out.
InvitesOutsider(r) == At(r, "invite", "sending") => wsLock = r /\ ~Active(req[r].on)

Accepting(r, i) ==
    req[r].ids = {i} /\ rowLock[i] = r /\ inv[i].status = "pending" /\ inv[i].to = req[r].by

\* A locked invitation stays what it was when it was locked.
HoldsInvitation(r) ==
    /\ At(r, "accept", "holding") => \E i \in Invitations : Accepting(r, i)
    /\ At(r, "revoke", "holding") => \A i \in req[r].ids : rowLock[i] = r

RequestsKnow == \A r \in Requests : CallerCould(r) /\ InvitesOutsider(r) /\ HoldsInvitation(r)

UnusedAdmitsNobody ==
    \A i \in Invitations : inv[i].status \in {"unsent", "pending"} => admitted[i] = 0

RowsFit ==
    /\ NothingBeforeFounding /\ UnusedAdmitsNobody /\ OnePendingEach(inv)
    /\ AlwaysAnOwner /\ InvitationsAreSpent

MemberSound == RequestsKnow /\ RowsFit

MemberInv == TypeOK /\ MemberSound

LEMMA MembersStart == Init => MemberInv
<1> SUFFICES ASSUME Init PROVE MemberInv
  OBVIOUS
<1> USE DEF Init
<1>1. NoRequest \in [op : {"none", "invite", "role", "remove", "revoke", "list", "accept"},
                     stage : {"new", "loaded", "sending", "holding"}, by : Users, on : Users,
                     role : Roles, had : Roles, ids : SUBSET Invitations]
      /\ NoRequest.op = "none"
  BY ActorsAssumption DEF NoRequest, Roles, InvitedRoles
<1>2. TypeOK
  BY <1>1, ActorsAssumption DEF TypeOK, Roles, InvitedRoles
<1>3. NothingBeforeFounding /\ RequestsKnow
  BY <1>1 DEF NothingBeforeFounding, RequestsKnow, CallerCould, InvitesOutsider, HoldsInvitation, At
<1>4. UnusedAdmitsNobody /\ OnePendingEach(inv) /\ AlwaysAnOwner /\ InvitationsAreSpent
  BY DEF UnusedAdmitsNobody, OnePendingEach, AlwaysAnOwner, InvitationsAreSpent, Pending
<1> QED
  BY <1>2, <1>3, <1>4 DEF MemberInv, MemberSound, RowsFit

LEMMA ManagersAreNobodyElse ==
    /\ \A role \in ManagerRoles : role \in Roles
    /\ InvitedRoles \subseteq Roles /\ "owner" \notin InvitedRoles
BY DEF ManagerRoles, Roles, InvitedRoles

-----------------------------------------------------------------------------
(* Types. *)

RequestRow == [op : {"none", "invite", "role", "remove", "revoke", "list", "accept"},
               stage : {"new", "loaded", "sending", "holding"}, by : Users, on : Users,
               role : Roles, had : Roles, ids : SUBSET Invitations]

InvitationRow == [status : {"unsent", "pending", "accepted", "revoked", "expired"},
                  to : Users, role : InvitedRoles, late : BOOLEAN]

MemberRow == [status : {"absent", "active", "removed"}, role : Roles]

LEMMA Restamped ==
    ASSUME NEW table \in [Invitations -> InvitationRow], NEW new, new = [i \in Invitations |-> new[i]],
           NEW status \in {"unsent", "pending", "accepted", "revoked", "expired"},
           \A i \in Invitations : new[i] = table[i] \/ new[i] = [table[i] EXCEPT !.status = status]
    PROVE  new \in [Invitations -> InvitationRow]
<1>1. ASSUME NEW i \in Invitations PROVE [table[i] EXCEPT !.status = status] \in InvitationRow
  <2>1. table[i] \in InvitationRow
    OBVIOUS
  <2> QED
    BY <2>1 DEF InvitationRow
<1>2. ASSUME NEW i \in Invitations PROVE new[i] \in InvitationRow
  BY <1>1
<1> QED
  BY <1>2

LEMMA NoRequestFits == NoRequest \in RequestRow /\ NoRequest.op = "none"
BY ActorsAssumption DEF NoRequest, RequestRow, Roles, InvitedRoles

LEMMA ReleaseTypes ==
    ASSUME TypeOK, NEW r \in Requests, Release(r)
    PROVE  wsLock' \in Requests \cup {Nobody} /\ rowLock' \in [Invitations -> Requests \cup {Nobody}]
BY DEF TypeOK, Release

LEMMA FinishTypes ==
    ASSUME TypeOK, NEW r \in Requests, Finish(r)
    PROVE  req' \in [Requests -> RequestRow]
<1>1. req \in [Requests -> RequestRow]
  BY DEF TypeOK, RequestRow
<1> QED
  BY <1>1, NoRequestFits DEF Finish

LEMMA LoadTypes ==
    ASSUME TypeOK, NEW r \in Requests, NEW u \in Users, NEW v \in Users, NEW role \in Roles,
           NEW op \in {"invite", "role", "remove", "revoke", "list"}, NEW ids \in SUBSET Invitations,
           Load(r, u, op, v, role, ids)
    PROVE  /\ req' \in [Requests -> RequestRow]
           /\ UNCHANGED <<rows, locks>>
<1>1. req \in [Requests -> RequestRow] /\ member[u].role \in Roles
  BY DEF TypeOK, RequestRow
<1>2. [op |-> op, stage |-> "loaded", by |-> u, on |-> v, role |-> role, had |-> member[u].role, ids |-> ids]
      \in RequestRow
  BY <1>1 DEF RequestRow
<1> QED
  BY <1>1, <1>2 DEF Load

LEMMA AskTypes ==
    ASSUME TypeOK, NEW r \in Requests, Ask(r)
    PROVE  /\ req' \in [Requests -> RequestRow]
           /\ rowLock' \in [Invitations -> Requests \cup {Nobody}]
           /\ UNCHANGED <<rows, wsLock>>
<1> PICK u \in Users :
        \/ \E v \in Users, role \in Roles : AskInvite(r, u, v, role) \/ AskRole(r, u, v, role)
        \/ \E v \in Users : AskRemove(r, u, v)
        \/ \E i \in Invitations : AskRevoke(r, u, i) \/ AcceptHold(r, u, i)
        \/ AskList(r, u)
  BY DEF Ask
<1> USE DEF TypeOK
<1>0. "engineer" \in Roles
  BY DEF Roles, InvitedRoles
<1>1. ASSUME NEW v \in Users, NEW role \in Roles, AskInvite(r, u, v, role) \/ AskRole(r, u, v, role)
      PROVE  /\ req' \in [Requests -> RequestRow] /\ UNCHANGED <<rows, locks>>
  <2>1. Load(r, u, "invite", v, role, {}) \/ Load(r, u, "role", v, role, {})
    BY <1>1 DEF AskInvite, AskRole
  <2> QED
    BY <2>1, LoadTypes
<1>2. ASSUME NEW v \in Users, AskRemove(r, u, v)
      PROVE  /\ req' \in [Requests -> RequestRow] /\ UNCHANGED <<rows, locks>>
  BY <1>0, <1>2, LoadTypes DEF AskRemove
<1>3. ASSUME NEW i \in Invitations, AskRevoke(r, u, i)
      PROVE  /\ req' \in [Requests -> RequestRow] /\ UNCHANGED <<rows, locks>>
  <2>1. inv[i].to \in Users /\ {i} \in SUBSET Invitations
    OBVIOUS
  <2>2. Load(r, u, "revoke", inv[i].to, "engineer", {i})
    BY <1>3 DEF AskRevoke
  <2> QED
    BY <1>0, <2>1, <2>2, LoadTypes
<1>4. ASSUME AskList(r, u)
      PROVE  /\ req' \in [Requests -> RequestRow] /\ UNCHANGED <<rows, locks>>
  <2>1. {i \in Invitations : inv[i].status = "pending"} \in SUBSET Invitations
    OBVIOUS
  <2>2. Load(r, u, "list", u, "engineer", {i \in Invitations : inv[i].status = "pending"})
    BY <1>4 DEF AskList
  <2> QED
    BY <1>0, <2>1, <2>2, LoadTypes
<1>5. ASSUME NEW i \in Invitations, AcceptHold(r, u, i)
      PROVE  /\ req' \in [Requests -> RequestRow] /\ UNCHANGED <<rows, wsLock>>
             /\ rowLock' \in [Invitations -> Requests \cup {Nobody}]
  <2>1. req \in [Requests -> RequestRow] /\ inv[i].role \in Roles
    BY ManagersAreNobodyElse DEF RequestRow
  <2>2. [op |-> "accept", stage |-> "holding", by |-> u, on |-> u, role |-> inv[i].role, had |-> "engineer",
         ids |-> {i}] \in RequestRow
    BY <1>0, <2>1 DEF RequestRow
  <2> QED
    BY <1>5, <2>1, <2>2 DEF AcceptHold
<1> QED
  BY <1>1, <1>2, <1>3, <1>4, <1>5 DEF locks

\* One step of a request that has been asked.
LEMMA ProceedTypes ==
    ASSUME TypeOK, RequestsKnow, NEW r \in Requests, Proceed(r) \/ Abandon(r)
    PROVE  TypeOK'
<1> USE DEF TypeOK
<1>0. req \in [Requests -> RequestRow] /\ inv \in [Invitations -> InvitationRow]
      /\ member \in [Users -> MemberRow] /\ InvitedRoles \subseteq Roles
  BY ManagersAreNobodyElse DEF RequestRow, InvitationRow, MemberRow
<1>1. CASE InviteLock(r)
  <2>1. CASE Active(req[r].on)
    BY <1>1, <2>1, FinishTypes DEF InviteLock, rows, RequestRow
  <2>2. CASE ~Active(req[r].on)
    <3>1. PICK new : new = [req[r] EXCEPT !.stage = "sending", !.ids = Pending(req[r].on)]
      OBVIOUS
    <3>2. req' = [req EXCEPT ![r] = new]
      BY <1>1, <2>2, <3>1 DEF InviteLock
    <3>3. new \in RequestRow
      <4>1. Pending(req[r].on) \in SUBSET Invitations /\ req[r] \in RequestRow
        BY <1>0 DEF Pending
      <4> QED
        BY <3>1, <4>1 DEF RequestRow
    <3>4. req' \in [Requests -> RequestRow]
      BY <1>0, <3>2, <3>3
    <3> QED
      BY <1>1, <2>2, <3>4 DEF InviteLock, rows, RequestRow
  <2> QED
    BY <2>1, <2>2
<1>2. CASE RevokeHold(r)
  <2>1. PICK new : new = [req[r] EXCEPT !.stage = "holding"]
    OBVIOUS
  <2>2. req' = [req EXCEPT ![r] = new]
    BY <1>2, <2>1 DEF RevokeHold
  <2>3. new \in RequestRow
    <3>1. req[r] \in RequestRow
      BY <1>0
    <3> QED
      BY <2>1, <3>1 DEF RequestRow
  <2>4. req' \in [Requests -> RequestRow]
    BY <1>0, <2>2, <2>3
  <2> QED
    BY <1>2, <2>4 DEF RevokeHold, rows, RequestRow
<1>3. ASSUME NEW i \in Invitations, InviteCommit(r, i) PROVE TypeOK'
  <2>1. req' \in [Requests -> RequestRow]
    BY <1>3, FinishTypes DEF InviteCommit
  <2>2. At(r, "invite", "sending") /\ req[r].on \in Users
    BY <1>0, <1>3 DEF InviteCommit, RequestRow
  <2>3. req[r].role \in InvitedRoles
    BY <2>2 DEF At, RequestsKnow, CallerCould
  <2>4. PICK revoked : revoked = [j \in Invitations |->
                          IF j \in req[r].ids THEN [inv[j] EXCEPT !.status = "revoked"] ELSE inv[j]]
    OBVIOUS
  <2>5. revoked \in [Invitations -> InvitationRow]
    <3>1. /\ revoked = [j \in Invitations |-> revoked[j]]
          /\ \A j \in Invitations : revoked[j] = inv[j] \/ revoked[j] = [inv[j] EXCEPT !.status = "revoked"]
      BY <2>4
    <3> QED
      BY <1>0, <3>1, Restamped
  <2>6. PICK new : new = [status |-> "pending", to |-> req[r].on, role |-> req[r].role, late |-> FALSE]
    OBVIOUS
  <2>7. new \in InvitationRow
    BY <2>2, <2>3, <2>6 DEF InvitationRow
  <2>8. PICK sent : sent = [revoked EXCEPT ![i] = new]
    OBVIOUS
  <2>9. inv' = IF OnePendingEach(sent) THEN sent ELSE inv
    BY <1>3, <2>4, <2>6, <2>8 DEF InviteCommit
  <2>10. inv' \in [Invitations -> InvitationRow]
    BY <1>0, <2>5, <2>7, <2>8, <2>9
  <2> QED
    BY <1>3, <2>1, <2>10, ReleaseTypes DEF InviteCommit, RequestRow, InvitationRow
<1>4. CASE RevokeCommit(r)
  <2>1. req' \in [Requests -> RequestRow]
    BY <1>4, FinishTypes DEF RevokeCommit
  <2>2. inv' \in [Invitations -> InvitationRow]
    <3>1. /\ inv' = [i \in Invitations |-> inv'[i]]
          /\ \A i \in Invitations : inv'[i] = inv[i] \/ inv'[i] = [inv[i] EXCEPT !.status = "revoked"]
      BY <1>4 DEF RevokeCommit
    <3> QED
      BY <1>0, <3>1, Restamped
  <2> QED
    BY <1>4, <2>1, <2>2, ReleaseTypes DEF RevokeCommit, RequestRow, InvitationRow
<1>5. CASE ListCommit(r)
  <2>1. req' \in [Requests -> RequestRow]
    BY <1>5, FinishTypes DEF ListCommit
  <2>2. inv' \in [Invitations -> InvitationRow]
    <3>1. /\ inv' = [i \in Invitations |-> inv'[i]]
          /\ \A i \in Invitations : inv'[i] = inv[i] \/ inv'[i] = [inv[i] EXCEPT !.status = "expired"]
      BY <1>5 DEF ListCommit
    <3> QED
      BY <1>0, <3>1, Restamped
  <2> QED
    BY <1>5, <2>1, <2>2 DEF ListCommit, locks, RequestRow, InvitationRow
<1>6. CASE AcceptCommit(r)
  <2>1. req' \in [Requests -> RequestRow]
    BY <1>6, FinishTypes DEF AcceptCommit
  <2>2. inv' \in [Invitations -> InvitationRow]
    <3>1. /\ inv' = [i \in Invitations |-> inv'[i]]
          /\ \A i \in Invitations : inv'[i] = inv[i] \/ inv'[i] = [inv[i] EXCEPT !.status = "accepted"]
      BY <1>6 DEF AcceptCommit
    <3> QED
      BY <1>0, <3>1, Restamped
  <2>3. member' \in [Users -> MemberRow]
    <3>1. req[r].by \in Users /\ req[r].role \in Roles
      BY <1>0 DEF RequestRow
    <3> QED
      BY <1>0, <1>6, <3>1 DEF AcceptCommit, MemberRow
  <2>4. admitted' \in [Invitations -> Nat]
    BY <1>6 DEF AcceptCommit
  <2> QED
    BY <1>6, <2>1, <2>2, <2>3, <2>4, ReleaseTypes DEF AcceptCommit, RequestRow, InvitationRow, MemberRow
<1>7. CASE RoleCommit(r)
  <2>1. req' \in [Requests -> RequestRow]
    BY <1>7, FinishTypes DEF RoleCommit
  <2>2. req[r].on \in Users /\ req[r].role \in Roles
    BY <1>0 DEF RequestRow
  <2>3. member' = member \/ member' = [member EXCEPT ![req[r].on].role = req[r].role]
    BY <1>7 DEF RoleCommit
  <2>4. member' \in [Users -> MemberRow]
    BY <1>0, <2>2, <2>3 DEF MemberRow
  <2> QED
    BY <1>7, <2>1, <2>4 DEF RoleCommit, locks, RequestRow, MemberRow
<1>8. CASE RemoveCommit(r)
  <2>1. req' \in [Requests -> RequestRow]
    BY <1>8, FinishTypes DEF RemoveCommit
  <2>2. req[r].on \in Users /\ "engineer" \in Roles
    BY <1>0 DEF RequestRow, Roles, InvitedRoles
  <2>3. member' = member \/ member' = [member EXCEPT ![req[r].on] = [status |-> "removed", role |-> "engineer"]]
    BY <1>8 DEF RemoveCommit
  <2>4. member' \in [Users -> MemberRow]
    BY <1>0, <2>2, <2>3 DEF MemberRow
  <2> QED
    BY <1>8, <2>1, <2>4 DEF RemoveCommit, locks, RequestRow, MemberRow
<1>9. CASE Abandon(r)
  <2>1. req' \in [Requests -> RequestRow]
    BY <1>9, FinishTypes DEF Abandon
  <2> QED
    BY <1>9, <2>1, ReleaseTypes DEF Abandon, rows, RequestRow
<1> QED
  BY <1>1, <1>2, <1>3, <1>4, <1>5, <1>6, <1>7, <1>8, <1>9 DEF Proceed

LEMMA MemberTypes == TypeOK /\ RequestsKnow /\ [Next]_vars => TypeOK'
<1> SUFFICES ASSUME TypeOK, RequestsKnow, [Next]_vars PROVE TypeOK'
  OBVIOUS
<1>0. inv \in [Invitations -> InvitationRow] /\ member \in [Users -> MemberRow]
  BY DEF TypeOK, InvitationRow, MemberRow
<1>1. CASE UNCHANGED vars
  BY <1>1 DEF vars, rows, locks, TypeOK
<1>2. CASE CreateWorkspace
  <2>1. member' \in [Users -> MemberRow]
    BY <1>0, <1>2, ActorsAssumption DEF CreateWorkspace, MemberRow, Roles
  <2> QED
    BY <1>2, <2>1 DEF CreateWorkspace, locks, TypeOK, MemberRow
<1>3. ASSUME NEW r \in Requests, Ask(r) PROVE TypeOK'
  BY <1>3, AskTypes DEF TypeOK, RequestRow, rows
<1>4. ASSUME NEW r \in Requests, Proceed(r) \/ Abandon(r) PROVE TypeOK'
  BY <1>4, ProceedTypes
<1>5. ASSUME NEW u \in Users, NEW i \in Invitations, AcceptLate(u, i) PROVE TypeOK'
  <2>1. inv' \in [Invitations -> InvitationRow]
    BY <1>0, <1>5 DEF AcceptLate, InvitationRow
  <2> QED
    BY <1>5, <2>1 DEF AcceptLate, locks, TypeOK, InvitationRow
<1>6. ASSUME NEW i \in Invitations, Lapse(i) PROVE TypeOK'
  <2>1. inv' \in [Invitations -> InvitationRow]
    BY <1>0, <1>6 DEF Lapse, InvitationRow
  <2> QED
    BY <1>6, <2>1 DEF Lapse, locks, TypeOK, InvitationRow
<1> QED
  BY <1>1, <1>2, <1>3, <1>4, <1>5, <1>6 DEF Next

-----------------------------------------------------------------------------
(* What a step of one request leaves to the others. *)

Aside(r) ==
    \A q \in Requests \ {r} :
        /\ req'[q] = req[q]
        /\ wsLock = q => wsLock' = q /\ \A u \in Users : Active(u)' => Active(u)
        /\ \A i \in Invitations : rowLock[i] = q =>
              /\ rowLock'[i] = q
              /\ inv[i].status = "pending" => inv'[i].status = "pending" /\ inv'[i].to = inv[i].to

Step(r) == Ask(r) \/ Proceed(r) \/ Abandon(r)

LEMMA AskAside ==
    ASSUME MemberInv, NEW r \in Requests, Ask(r)
    PROVE  /\ founded /\ Aside(r) /\ UNCHANGED <<rows, wsLock>>
           /\ \/ req'[r].stage = "loaded" /\ req'[r].op # "accept"
              \/ \E i \in Invitations : Accepting(r, i)' /\ req'[r].op = "accept"
           /\ req'[r].op = "role" => req'[r].had = "owner"
           /\ req'[r].op = "remove" => req'[r].had \in ManagerRoles
           /\ req'[r].op = "invite" => req'[r].role \in InvitedRoles
<1> PICK u \in Users :
        \/ \E v \in Users, role \in Roles : AskInvite(r, u, v, role) \/ AskRole(r, u, v, role)
        \/ \E v \in Users : AskRemove(r, u, v)
        \/ \E i \in Invitations : AskRevoke(r, u, i) \/ AcceptHold(r, u, i)
        \/ AskList(r, u)
  BY DEF Ask
<1> USE DEF MemberInv, TypeOK
<1>1. CASE \E op \in {"invite", "role", "remove", "revoke", "list"} : \E v, role, ids :
              /\ Load(r, u, op, v, role, ids)
              /\ op = "invite" => role \in InvitedRoles
  <2>0. PICK op \in {"invite", "role", "remove", "revoke", "list"} : \E v, role, ids :
              /\ Load(r, u, op, v, role, ids)
              /\ op = "invite" => role \in InvitedRoles
    BY <1>1
  <2>1. PICK v, role, ids : Load(r, u, op, v, role, ids) /\ (op = "invite" => role \in InvitedRoles)
    BY <2>0
  <2>2. /\ req' = [req EXCEPT ![r] = [op |-> op, stage |-> "loaded", by |-> u, on |-> v, role |-> role,
                                      had |-> member[u].role, ids |-> ids]]
        /\ UNCHANGED <<rows, locks>> /\ founded
        /\ op = "role" => member[u].role = "owner"
        /\ op # "role" => member[u].role \in ManagerRoles
    BY <2>1 DEF Load, May
  <2>3. /\ req'[r] = [op |-> op, stage |-> "loaded", by |-> u, on |-> v, role |-> role,
                      had |-> member[u].role, ids |-> ids]
        /\ \A q \in Requests \ {r} : req'[q] = req[q]
    BY <2>2
  <2> QED
    BY <2>1, <2>2, <2>3 DEF Aside, Active, rows, locks
<1>2. ASSUME NEW i \in Invitations, AcceptHold(r, u, i)
      PROVE  /\ founded /\ Aside(r) /\ UNCHANGED <<rows, wsLock>>
             /\ Accepting(r, i)' /\ req'[r].op = "accept"
  <2>1. founded
    BY <1>2 DEF AcceptHold, MemberSound, RowsFit, NothingBeforeFounding
  <2>2. Aside(r)
    BY <1>2, ActorsAssumption DEF AcceptHold, Aside, Active, rows
  <2>3. Accepting(r, i)' /\ req'[r].op = "accept"
    BY <1>2 DEF AcceptHold, Accepting, rows
  <2> QED
    BY <1>2, <2>1, <2>2, <2>3 DEF AcceptHold
<1> QED
  BY <1>1, <1>2 DEF AskInvite, AskRole, AskRemove, AskRevoke, AskList

LEMMA ProceedAside ==
    ASSUME MemberInv, NEW r \in Requests, Proceed(r) \/ Abandon(r)
    PROVE  Aside(r)
<1> USE ActorsAssumption DEF MemberInv, TypeOK, Aside, Active
<1>1. CASE InviteLock(r)
  BY <1>1 DEF InviteLock, rows, Finish
<1>2. CASE RevokeHold(r)
  BY <1>2 DEF RevokeHold, rows, RowsFree
<1>3. ASSUME NEW i \in Invitations, InviteCommit(r, i) PROVE Aside(r)
  <2>1. PICK revoked : revoked = [j \in Invitations |->
                          IF j \in req[r].ids THEN [inv[j] EXCEPT !.status = "revoked"] ELSE inv[j]]
    OBVIOUS
  <2>2. PICK new : new = [status |-> "pending", to |-> req[r].on, role |-> req[r].role, late |-> FALSE]
    OBVIOUS
  <2>3. inv' = [revoked EXCEPT ![i] = new] \/ inv' = inv
    BY <1>3, <2>1, <2>2 DEF InviteCommit
  <2>4. \A j \in Invitations : j # i /\ j \notin req[r].ids => inv'[j] = inv[j]
    BY <2>1, <2>3
  <2>5. inv[i].status = "unsent" /\ \A j \in req[r].ids : rowLock[j] \in {Nobody, r}
    BY <1>3 DEF InviteCommit, RowsFree
  <2>6. \A q \in Requests \ {r} : \A j \in Invitations : rowLock[j] = q /\ inv[j].status = "pending" => inv'[j] = inv[j]
    BY <2>4, <2>5
  <2>7. /\ \A q \in Requests \ {r} : req'[q] = req[q]
        /\ Release(r) /\ member' = member
    BY <1>3 DEF InviteCommit, Finish
  <2> QED
    BY <2>6, <2>7 DEF Release
<1>4. CASE RevokeCommit(r)
  <2>1. \A j \in req[r].ids : rowLock[j] = r
    BY <1>4 DEF MemberSound, RequestsKnow, HoldsInvitation, RevokeCommit
  <2> QED
    BY <1>4, <2>1 DEF RevokeCommit, Release, Finish
<1>5. CASE ListCommit(r)
  BY <1>5 DEF ListCommit, Finish, locks, RowsFree
<1>6. CASE AcceptCommit(r)
  <2>1. \A j \in req[r].ids : rowLock[j] = r
    BY <1>6 DEF MemberSound, RequestsKnow, HoldsInvitation, AcceptCommit, Accepting
  <2> QED
    BY <1>6, <2>1 DEF AcceptCommit, Release, Finish
<1>7. CASE RoleCommit(r)
  BY <1>7 DEF RoleCommit, Finish, locks
<1>8. CASE RemoveCommit(r)
  BY <1>8 DEF RemoveCommit, Finish, locks
<1>9. CASE Abandon(r)
  BY <1>9 DEF Abandon, Release, Finish, rows
<1> QED
  BY <1>1, <1>2, <1>3, <1>4, <1>5, <1>6, <1>7, <1>8, <1>9 DEF Proceed

-----------------------------------------------------------------------------
(* What requests know. *)

LEMMA OthersKnow ==
    ASSUME MemberInv, NEW r \in Requests, Aside(r),
           (CallerCould(r) /\ InvitesOutsider(r) /\ HoldsInvitation(r))'
    PROVE  RequestsKnow'
<1> SUFFICES ASSUME NEW q \in Requests \ {r} PROVE (CallerCould(q) /\ InvitesOutsider(q) /\ HoldsInvitation(q))'
  BY DEF RequestsKnow
<1> USE DEF MemberInv, TypeOK, MemberSound, RequestsKnow
<1>0. req'[q] = req[q] /\ req[q].ids \subseteq Invitations /\ req[q].on \in Users
  BY DEF Aside
<1>1. CallerCould(q)'
  BY <1>0 DEF CallerCould
<1>2. InvitesOutsider(q)'
  BY <1>0 DEF InvitesOutsider, At, Aside
<1>3. ASSUME At(q, "accept", "holding") PROVE (\E i \in Invitations : Accepting(q, i))'
  BY <1>0, <1>3 DEF HoldsInvitation, Accepting, Aside
<1>4. ASSUME At(q, "revoke", "holding") PROVE \A i \in req[q].ids : rowLock'[i] = q
  BY <1>0, <1>4 DEF HoldsInvitation, Aside
<1> QED
  BY <1>0, <1>1, <1>2, <1>3, <1>4 DEF HoldsInvitation, At

LEMMA FinishedKnow ==
    ASSUME MemberInv, NEW r \in Requests, Aside(r), Finish(r)
    PROVE  RequestsKnow'
<1>1. req'[r] = NoRequest
  BY DEF Finish, MemberInv, TypeOK
<1>2. (CallerCould(r) /\ InvitesOutsider(r) /\ HoldsInvitation(r))'
  BY <1>1, NoRequestFits DEF CallerCould, InvitesOutsider, HoldsInvitation, At
<1> QED
  BY <1>2, OthersKnow

LEMMA StepKnow ==
    ASSUME MemberInv, NEW r \in Requests, Step(r)
    PROVE  RequestsKnow'
<1> USE DEF MemberInv, TypeOK
<1>1. CASE Ask(r)
  <2>1. /\ Aside(r)
        /\ \/ req'[r].stage = "loaded" /\ req'[r].op # "accept"
           \/ \E i \in Invitations : Accepting(r, i)' /\ req'[r].op = "accept"
        /\ CallerCould(r)'
    BY <1>1, AskAside DEF CallerCould
  <2>2. InvitesOutsider(r)' /\ HoldsInvitation(r)'
    BY <2>1 DEF InvitesOutsider, HoldsInvitation, At
  <2> QED
    BY <2>1, <2>2, OthersKnow
<1>2. CASE InviteLock(r)
  <2>1. CASE Active(req[r].on)
    BY <1>2, <2>1, ProceedAside, FinishedKnow DEF InviteLock, Proceed
  <2>2. CASE ~Active(req[r].on)
    <3>1. PICK new : new = [req[r] EXCEPT !.stage = "sending", !.ids = Pending(req[r].on)]
      OBVIOUS
    <3>2. req'[r] = new /\ wsLock' = r /\ member' = member
      BY <1>2, <2>2, <3>1 DEF InviteLock, rows
    <3>3. /\ new.op = "invite" /\ new.stage = "sending" /\ new.on = req[r].on /\ new.role = req[r].role
      BY <1>2, <3>1 DEF InviteLock, At
    <3>4. CallerCould(r)' /\ InvitesOutsider(r)' /\ HoldsInvitation(r)'
      BY <1>2, <2>2, <3>2, <3>3 DEF CallerCould, InvitesOutsider, HoldsInvitation, At, MemberSound, RequestsKnow,
                                     Active, InviteLock
    <3> QED
      BY <1>2, <3>4, ProceedAside, OthersKnow DEF Proceed
  <2> QED
    BY <2>1, <2>2
<1>3. CASE RevokeHold(r)
  <2>1. PICK new : new = [req[r] EXCEPT !.stage = "holding"]
    OBVIOUS
  <2>2. req'[r] = new /\ new.op = "revoke" /\ new.ids = req[r].ids /\ req[r].ids \subseteq Invitations
    BY <1>3, <2>1 DEF RevokeHold, At
  <2>3. \A i \in new.ids : rowLock'[i] = r
    BY <1>3, <2>2 DEF RevokeHold
  <2>4. CallerCould(r)' /\ InvitesOutsider(r)' /\ HoldsInvitation(r)'
    BY <2>2, <2>3 DEF CallerCould, InvitesOutsider, HoldsInvitation, At
  <2> QED
    BY <1>3, <2>4, ProceedAside, OthersKnow DEF Proceed
<1>4. ASSUME ~InviteLock(r), ~RevokeHold(r), Proceed(r) \/ Abandon(r) PROVE RequestsKnow'
  <2>1. Finish(r)
    BY <1>4 DEF Proceed, InviteCommit, RevokeCommit, ListCommit, AcceptCommit, RoleCommit, RemoveCommit, Abandon
  <2> QED
    BY <1>4, <2>1, ProceedAside, FinishedKnow
<1> QED
  BY <1>1, <1>2, <1>3, <1>4 DEF Step

-----------------------------------------------------------------------------
(* What the rows say. *)

LEMMA StepIsFounded ==
    ASSUME MemberInv, NEW r \in Requests, Ask(r) \/ Proceed(r)
    PROVE  founded
<1>1. CASE Ask(r)
  BY <1>1, AskAside
<1>2. CASE Proceed(r)
  <2>1. req[r].op # "none"
    BY <1>2 DEF Proceed, InviteLock, InviteCommit, RevokeHold, RevokeCommit, ListCommit, AcceptCommit, RoleCommit,
                RemoveCommit, At
  <2> QED
    BY <2>1 DEF MemberInv, MemberSound, RowsFit, NothingBeforeFounding
<1> QED
  BY <1>1, <1>2

\* An invitation that is open is open as it was, and nobody comes or goes.
LEMMA InvitationsClose ==
    ASSUME MemberInv, founded, UNCHANGED <<founded, member, admitted>>,
           \A i \in Invitations : inv'[i].to = inv[i].to /\ (\/ inv'[i].status = inv[i].status
                                                             \/ inv'[i].status \notin {"unsent", "pending"})
    PROVE  RowsFit'
<1> USE DEF MemberInv, MemberSound, RowsFit
<1>1. NothingBeforeFounding'
  BY DEF NothingBeforeFounding
<1>2. UnusedAdmitsNobody'
  BY DEF UnusedAdmitsNobody
<1>3. OnePendingEach(inv')
  BY DEF OnePendingEach
<1>4. AlwaysAnOwner'
  BY DEF AlwaysAnOwner, Owners, Active
<1>5. InvitationsAreSpent'
  BY DEF InvitationsAreSpent, Active, Pending
<1> QED
  BY <1>1, <1>2, <1>3, <1>4, <1>5 DEF OnePendingEach

LEMMA InviteCommitFits ==
    ASSUME MemberInv, NEW r \in Requests, NEW i \in Invitations, InviteCommit(r, i)
    PROVE  RowsFit'
<1> USE DEF MemberInv, TypeOK, MemberSound, RowsFit
<1>0. /\ founded /\ UNCHANGED <<founded, member, admitted>> /\ inv[i].status = "unsent"
      /\ At(r, "invite", "sending") /\ ~Active(req[r].on)
  BY StepIsFounded DEF InviteCommit, Proceed, RequestsKnow, InvitesOutsider
<1>1. PICK revoked : revoked = [j \in Invitations |->
                        IF j \in req[r].ids THEN [inv[j] EXCEPT !.status = "revoked"] ELSE inv[j]]
  OBVIOUS
<1>2. PICK new : new = [status |-> "pending", to |-> req[r].on, role |-> req[r].role, late |-> FALSE]
  OBVIOUS
<1>3. PICK sent : sent = [revoked EXCEPT ![i] = new]
  OBVIOUS
<1>4. inv' = IF OnePendingEach(sent) THEN sent ELSE inv
  BY <1>1, <1>2, <1>3 DEF InviteCommit
<1>5. CASE inv' = inv
  BY <1>0, <1>5, InvitationsClose
<1>6. CASE inv' = sent /\ OnePendingEach(sent)
  <2>1. /\ inv'[i].status = "pending" /\ inv'[i].to = req[r].on
        /\ \A j \in Invitations \ {i} :
              inv'[j].to = inv[j].to /\ (inv'[j].status = inv[j].status \/ inv'[j].status = "revoked")
    <3>1. inv'[i] = new
      BY <1>1, <1>3, <1>6
    <3>2. \A j \in Invitations \ {i} : inv'[j] = revoked[j]
      BY <1>1, <1>3, <1>6
    <3>3. ASSUME NEW j \in Invitations
          PROVE  revoked[j].to = inv[j].to /\ (revoked[j].status = inv[j].status \/ revoked[j].status = "revoked")
      BY <1>1
    <3> QED
      BY <1>2, <3>1, <3>2, <3>3
  <2>2. NothingBeforeFounding'
    BY <1>0 DEF NothingBeforeFounding
  <2>3. UnusedAdmitsNobody'
    BY <1>0, <2>1 DEF UnusedAdmitsNobody
  <2>4. AlwaysAnOwner'
    BY <1>0 DEF AlwaysAnOwner, Owners, Active
  <2>5. InvitationsAreSpent'
    <3>1. ASSUME NEW v \in Users, Active(v)', NEW j \in Invitations, inv'[j].status = "pending", inv'[j].to = v
          PROVE  FALSE
      <4>1. Active(v)
        BY <1>0, <3>1 DEF Active
      <4>2. j # i /\ inv[j].status = "pending" /\ inv[j].to = v
        BY <1>0, <2>1, <3>1, <4>1
      <4> QED
        BY <4>1, <4>2 DEF InvitationsAreSpent, Pending
    <3>2. \A v \in Users : Active(v)' => Pending(v)' = {}
      BY <3>1 DEF Pending
    <3> QED
      BY <1>0, <3>2 DEF InvitationsAreSpent
  <2> QED
    BY <1>6, <2>2, <2>3, <2>4, <2>5 DEF OnePendingEach
<1> QED
  BY <1>4, <1>5, <1>6

LEMMA AcceptCommitFits ==
    ASSUME MemberInv, NEW r \in Requests, AcceptCommit(r)
    PROVE  RowsFit'
<1> USE DEF MemberInv, TypeOK, MemberSound, RowsFit
<1>0. founded /\ founded' /\ At(r, "accept", "holding")
  BY StepIsFounded DEF AcceptCommit, Proceed
<1>1. PICK i \in Invitations : Accepting(r, i)
  BY <1>0 DEF RequestsKnow, HoldsInvitation
<1>a. PICK u : u = req[r].by
  OBVIOUS
<1>2. u \in Users /\ i \in Pending(u) /\ ~Active(u)
  BY <1>1, <1>a DEF Accepting, Pending, InvitationsAreSpent
<1>3. /\ \A v \in Users \ {u} : member'[v] = member[v]
      /\ member'[u].status = "active"
  BY <1>2, <1>a DEF AcceptCommit
<1>4. /\ inv'[i].status = "accepted" /\ inv'[i].to = inv[i].to
      /\ \A j \in Invitations \ {i} : inv'[j] = inv[j]
      /\ admitted'[i] = admitted[i] + 1
      /\ \A j \in Invitations \ {i} : admitted'[j] = admitted[j]
  BY <1>1 DEF AcceptCommit, Accepting
<1>5. NothingBeforeFounding'
  BY <1>0 DEF NothingBeforeFounding
<1>6. UnusedAdmitsNobody' /\ OnePendingEach(inv')
  <2>1. UnusedAdmitsNobody'
    BY <1>4 DEF UnusedAdmitsNobody
  <2>2. \A j \in Invitations : inv'[j].status = "pending" => inv[j] = inv'[j]
    BY <1>4
  <2>3. OnePendingEach(inv')
    BY <2>2 DEF OnePendingEach
  <2> QED
    BY <2>1, <2>3
<1>7. AlwaysAnOwner'
  <2>1. PICK v : v \in Owners
    BY <1>0 DEF AlwaysAnOwner
  <2>2. v \in Users \ {u}
    BY <1>2, <2>1 DEF Owners, Active
  <2>3. v \in Owners'
    BY <1>3, <2>1, <2>2 DEF Owners, Active
  <2> QED
    BY <2>3 DEF AlwaysAnOwner
<1>8. \A j \in Invitations : admitted'[j] <= 1
  <2>1. admitted[i] = 0
    BY <1>1 DEF Accepting, UnusedAdmitsNobody
  <2> QED
    BY <1>4, <2>1 DEF InvitationsAreSpent
<1>9. \A v \in Users : Active(v)' => Pending(v)' = {}
  <2>1. Pending(u) = {i}
    BY <1>2 DEF Pending, OnePendingEach
  <2>2. \A j \in Invitations : j # i => inv'[j] = inv[j] /\ ~(inv[j].status = "pending" /\ inv[j].to = u)
    BY <1>4, <2>1 DEF Pending
  <2>3. Pending(u)' = {}
    <3>1. \A j \in Invitations : inv'[j].status = "pending" => inv'[j].to # u
      BY <1>4, <2>2
    <3> QED
      BY <3>1 DEF Pending
  <2>4. ASSUME NEW v \in Users \ {u}, Active(v)' PROVE Pending(v)' = {}
    <3>1. Pending(v) = {}
      BY <1>3, <2>4 DEF InvitationsAreSpent, Active
    <3> QED
      BY <1>4, <3>1 DEF Pending
  <2> QED
    BY <2>3, <2>4
<1> QED
  BY <1>5, <1>6, <1>7, <1>8, <1>9 DEF InvitationsAreSpent, OnePendingEach

\* Nobody becomes a member, and the last owner stays one.
LEMMA MembersStay ==
    ASSUME MemberInv, founded, NEW v \in Users, UNCHANGED <<founded, inv, admitted>>,
           \A u \in Users \ {v} : member'[u] = member[u],
           Active(v)' => Active(v),
           v \in Owners /\ v \notin Owners' => ~IsFinalOwner(v)
    PROVE  RowsFit'
<1> USE DEF MemberInv, TypeOK, MemberSound, RowsFit
<1>1. NothingBeforeFounding' /\ UnusedAdmitsNobody' /\ OnePendingEach(inv')
  BY DEF NothingBeforeFounding, UnusedAdmitsNobody
<1>2. AlwaysAnOwner'
  <2>1. CASE v \in Owners /\ v \notin Owners'
    <3>1. PICK u \in Owners : u # v
      BY <2>1 DEF IsFinalOwner
    <3> QED
      BY <3>1 DEF Owners, Active, AlwaysAnOwner
  <2>2. CASE v \notin Owners \/ v \in Owners'
    <3>1. PICK u \in Owners : TRUE
      BY DEF AlwaysAnOwner
    <3> QED
      BY <2>2, <3>1 DEF Owners, Active, AlwaysAnOwner
  <2> QED
    BY <2>1, <2>2
<1>3. InvitationsAreSpent'
  BY DEF InvitationsAreSpent, Active, Pending
<1> QED
  BY <1>1, <1>2, <1>3 DEF OnePendingEach

LEMMA RoleCommitFits ==
    ASSUME MemberInv, NEW r \in Requests, RoleCommit(r)
    PROVE  RowsFit'
<1> USE DEF MemberInv, TypeOK
<1>0. PICK v : v = req[r].on
  OBVIOUS
<1>1. founded /\ v \in Users /\ req[r].had = "owner" /\ UNCHANGED <<founded, inv, admitted>>
  BY <1>0, StepIsFounded DEF RoleCommit, Proceed, At, MemberSound, RequestsKnow, CallerCould
<1>2. v \in Owners => SeenRole(r) = "owner"
  BY <1>0, <1>1 DEF SeenRole, Owners
<1>3. \/ member' = member
      \/ /\ Active(v) /\ ~(SeenRole(r) = "owner" /\ req[r].role # "owner" /\ IsFinalOwner(v))
         /\ member' = [member EXCEPT ![v].role = req[r].role]
  BY <1>0 DEF RoleCommit
<1>4. \A u \in Users \ {v} : member'[u] = member[u]
  BY <1>1, <1>3
<1>5. Active(v)' => Active(v)
  BY <1>1, <1>3 DEF Active
<1>6. v \in Owners /\ v \notin Owners' => ~IsFinalOwner(v)
  BY <1>1, <1>2, <1>3 DEF Owners, Active
<1> QED
  BY <1>1, <1>4, <1>5, <1>6, MembersStay

LEMMA RemoveCommitFits ==
    ASSUME MemberInv, NEW r \in Requests, RemoveCommit(r)
    PROVE  RowsFit'
<1> USE DEF MemberInv, TypeOK
<1>0. PICK v : v = req[r].on
  OBVIOUS
<1>1. founded /\ v \in Users /\ req[r].had \in ManagerRoles /\ UNCHANGED <<founded, inv, admitted>>
  BY <1>0, StepIsFounded DEF RemoveCommit, Proceed, At, MemberSound, RequestsKnow, CallerCould
<1>2. \/ member' = member
      \/ /\ ~(req[r].had # "owner" /\ SeenRole(r) \in ManagerRoles)
         /\ ~(SeenRole(r) = "owner" /\ IsFinalOwner(v))
         /\ member' = [member EXCEPT ![v] = [status |-> "removed", role |-> "engineer"]]
  BY <1>0 DEF RemoveCommit
<1>3. \A u \in Users \ {v} : member'[u] = member[u]
  BY <1>1, <1>2
<1>4. Active(v)' => Active(v)
  BY <1>1, <1>2 DEF Active
<1>5. v \in Owners /\ v \notin Owners' => ~IsFinalOwner(v)
  <2>1. CASE v = req[r].by
    <3>1. SeenRole(r) = req[r].had
      BY <1>0, <2>1 DEF SeenRole
    <3> QED
      BY <1>1, <1>2, <3>1 DEF Owners, Active
  <2>2. CASE v # req[r].by
    <3>1. v \in Owners => SeenRole(r) = "owner"
      BY <1>0, <2>2 DEF SeenRole, Owners
    <3> QED
      BY <1>1, <1>2, <3>1 DEF Owners, Active
  <2> QED
    BY <2>1, <2>2
<1> QED
  BY <1>1, <1>3, <1>4, <1>5, MembersStay

LEMMA MembersStep == MemberInv /\ [Next]_vars => MemberInv'
<1> SUFFICES ASSUME MemberInv, [Next]_vars PROVE MemberInv'
  OBVIOUS
<1>0. TypeOK'
  BY MemberTypes DEF MemberInv, MemberSound
<1> SUFFICES (RequestsKnow /\ RowsFit)'
  BY <1>0 DEF MemberInv, MemberSound
<1> USE DEF MemberInv, TypeOK
<1>1. CASE UNCHANGED vars
  BY <1>1 DEF vars, rows, locks, MemberSound, RequestsKnow, RowsFit, CallerCould, InvitesOutsider, HoldsInvitation, At,
              Accepting, Active, NothingBeforeFounding, UnusedAdmitsNobody, OnePendingEach, AlwaysAnOwner, Owners,
              InvitationsAreSpent, Pending
<1>2. CASE CreateWorkspace
  <2>1. /\ \A r \in Requests : req'[r].op = "none"
        /\ \A i \in Invitations : inv'[i].status = "unsent" /\ admitted'[i] = 0
        /\ founded' /\ Founder \in Users /\ member'[Founder] = [status |-> "active", role |-> "owner"]
    BY <1>2, ActorsAssumption
       DEF CreateWorkspace, locks, MemberSound, RowsFit, NothingBeforeFounding, UnusedAdmitsNobody
  <2>2. RequestsKnow'
    BY <2>1 DEF RequestsKnow, CallerCould, InvitesOutsider, HoldsInvitation, At
  <2>3. RowsFit'
    BY <2>1 DEF RowsFit, NothingBeforeFounding, UnusedAdmitsNobody, OnePendingEach, AlwaysAnOwner, Owners, Active,
                InvitationsAreSpent, Pending
  <2> QED
    BY <2>2, <2>3
<1>3. ASSUME NEW r \in Requests, Step(r) PROVE RowsFit'
  <2>1. CASE Ask(r)
    <3>1. founded /\ UNCHANGED rows
      BY <2>1, AskAside
    <3> QED
      BY <3>1, InvitationsClose DEF rows
  <2>2. CASE Abandon(r)
    <3>1. UNCHANGED rows
      BY <2>2 DEF Abandon
    <3>2. CASE founded
      BY <3>1, <3>2, InvitationsClose DEF rows
    <3>3. CASE ~founded
      <4>1. \A q \in Requests : req'[q].op = "none"
        BY <2>2, <3>3, NoRequestFits DEF Abandon, Finish, MemberSound, RowsFit, NothingBeforeFounding
      <4> QED
        BY <3>1, <4>1 DEF rows, MemberSound, RowsFit, NothingBeforeFounding, UnusedAdmitsNobody, OnePendingEach,
                          AlwaysAnOwner, InvitationsAreSpent, Active, Pending, Owners
    <3> QED
      BY <3>2, <3>3
  <2>3. CASE InviteLock(r) \/ RevokeHold(r) \/ ListCommit(r) \/ RevokeCommit(r)
    <3>1. founded
      BY <2>3, StepIsFounded DEF Proceed
    <3>2. UNCHANGED <<founded, member, admitted>>
      BY <2>3 DEF InviteLock, RevokeHold, ListCommit, RevokeCommit, rows
    <3>3. \A i \in Invitations : inv'[i].to = inv[i].to /\ (\/ inv'[i].status = inv[i].status
                                                            \/ inv'[i].status \notin {"unsent", "pending"})
      <4>1. CASE InviteLock(r) \/ RevokeHold(r)
        BY <4>1 DEF InviteLock, RevokeHold, rows
      <4>2. CASE ListCommit(r)
        BY <4>2 DEF ListCommit
      <4>3. CASE RevokeCommit(r)
        BY <4>3 DEF RevokeCommit
      <4> QED
        BY <2>3, <4>1, <4>2, <4>3
    <3> QED
      BY <3>1, <3>2, <3>3, InvitationsClose
  <2> QED
    BY <1>3, <2>1, <2>2, <2>3, InviteCommitFits, AcceptCommitFits, RoleCommitFits, RemoveCommitFits DEF Step, Proceed
<1>4. ASSUME NEW i \in Invitations, (\E u \in Users : AcceptLate(u, i)) \/ Lapse(i) PROVE (RequestsKnow /\ RowsFit)'
  <2>1. /\ UNCHANGED <<founded, member, admitted, locks, req>>
        /\ inv[i].status = "pending" /\ inv'[i].to = inv[i].to
        /\ \/ inv'[i].status = "pending"
           \/ rowLock[i] = Nobody /\ inv'[i].status = "expired"
        /\ \A j \in Invitations \ {i} : inv'[j] = inv[j]
    <3>1. CASE Lapse(i)
      BY <3>1 DEF Lapse
    <3>2. ASSUME NEW u \in Users, AcceptLate(u, i)
          PROVE  /\ UNCHANGED <<founded, member, admitted, locks, req>>
                 /\ inv[i].status = "pending" /\ rowLock[i] = Nobody
                 /\ inv' = [inv EXCEPT ![i].status = "expired"]
      BY <3>2 DEF AcceptLate
    <3> QED
      BY <1>4, <3>1, <3>2
  <2>2. founded
    BY <2>1 DEF MemberSound, RowsFit, NothingBeforeFounding
  <2>3. RowsFit'
    BY <2>1, <2>2, InvitationsClose
  <2>4. ASSUME NEW r \in Requests PROVE (CallerCould(r) /\ InvitesOutsider(r) /\ HoldsInvitation(r))'
    <3>1. CallerCould(r)' /\ InvitesOutsider(r)'
      BY <2>1 DEF MemberSound, RequestsKnow, CallerCould, InvitesOutsider, At, Active, locks
    <3>2. ASSUME NEW j \in Invitations, Accepting(r, j) PROVE Accepting(r, j)'
      <4>1. CASE j = i
        BY <2>1, <3>2, <4>1, ActorsAssumption DEF Accepting, locks
      <4>2. CASE j # i
        BY <2>1, <3>2, <4>2 DEF Accepting, locks
      <4> QED
        BY <4>1, <4>2
    <3>3. HoldsInvitation(r)'
      BY <2>1, <3>2 DEF MemberSound, RequestsKnow, HoldsInvitation, At, locks
    <3> QED
      BY <3>1, <3>3
  <2> QED
    BY <2>3, <2>4 DEF RequestsKnow
<1> QED
  BY <1>1, <1>2, <1>3, <1>4, StepKnow DEF Next, Step

\* Whatever owners and administrators do to each other at the same time, from roles
\* that are out of date, the workspace keeps an owner, and an invitation makes one
\* person a member once.
THEOREM MembersHold == Spec => []MembershipIsSound
<1>1. Spec => []MemberInv
  BY MembersStart, MembersStep, PTL DEF Spec
<1>2. MemberInv => MembershipIsSound
  BY DEF MemberInv, MemberSound, RowsFit, MembershipIsSound
<1> QED
  BY <1>1, <1>2, PTL

-----------------------------------------------------------------------------
(* The incidents of a deployment.  Nothing is locked: what a request has read *)
(* stays good enough because incidents only close, an execution's number is   *)
(* taken once, and posts that do not overlap see all of one another.          *)

Instants == Times \cup {Min(w) : w \in SUBSET Times} \cup {Max(w) : w \in SUBSET Times}

Signal == [rule : Rules, first : Instants, last : Instants]

IncidentRow == [rule : Rules, first : Instants, last : Instants, status : OpenStatuses \cup ClosedStatuses]

Outcome == {"running", "unavailable", "failed", "succeeded"}

IngestRow == [at : {"idle", "look", "commit"}, time : Nat, sample : Samples \cup {NoSample},
              signals : SUBSET Signal, found : [Rules -> Nat]]

OwnerRow == [at : {"idle", "dismiss", "expire", "approve", "reject", "count", "insert", "check", "conclude"},
             id : Nat, n : Nat, seen : OpenStatuses \cup ClosedStatuses \cup {"none"}]

IncidentTypes ==
    /\ incidents \in Seq(IncidentRow) /\ Len(incidents) <= MaxIncidents
    /\ executions \in [Ids -> Seq(Outcome)]
    /\ ingest \in [Collectors -> IngestRow]
    /\ request \in [OwnerRequests -> OwnerRow]
    /\ overlapped \in BOOLEAN

OneSignalEach == \A c \in Collectors : \A s, t \in ingest[c].signals : s.rule = t.rule => s = t

OneAtATime ==
    ~overlapped => \A c, d \in Collectors : ingest[c].at # "idle" /\ ingest[d].at # "idle" => c = d

\* A condition that had no open incident when it was looked for has none yet.
LookedWell ==
    ~overlapped =>
        \A c \in Collectors : ingest[c].at = "commit" =>
            \A s \in ingest[c].signals : ingest[c].found[s.rule] = 0 =>
                \A i \in DOMAIN incidents : incidents[i].rule = s.rule => incidents[i].status \in ClosedStatuses

Checking(q) == request[q].at \in {"check", "conclude"}

\* An execution under way is running, and nobody else's.
ExecutionsRun ==
    /\ \A q \in OwnerRequests : request[q].at # "idle" => request[q].id \in DOMAIN incidents
    /\ \A q \in OwnerRequests : Checking(q) => /\ request[q].n \in DOMAIN executions[request[q].id]
                                               /\ executions[request[q].id][request[q].n] = "running"
    /\ \A p, q \in OwnerRequests :
          Checking(p) /\ Checking(q) /\ request[p].id = request[q].id /\ request[p].n = request[q].n => p = q

IncidentInv ==
    /\ IncidentTypes /\ OneSignalEach /\ OneAtATime /\ LookedWell /\ ExecutionsRun
    /\ OneOpenIncident /\ ResolvedWasChecked

-----------------------------------------------------------------------------
(* Sequences and samples. *)

LEMMA SeqFacts ==
    ASSUME NEW S, NEW s \in Seq(S)
    PROVE  /\ Len(s) \in Nat /\ DOMAIN s = 1 .. Len(s)
           /\ \A i \in 1 .. Len(s) : s[i] \in S
OBVIOUS

LEMMA TableFacts ==
    ASSUME NEW S, NEW n \in Nat, NEW f, f = [i \in 1 .. n |-> f[i]], \A i \in 1 .. n : f[i] \in S
    PROVE  f \in Seq(S) /\ Len(f) = n
<1>1. f \in [1 .. n -> S]
  OBVIOUS
<1> QED
  BY <1>1

LEMMA ReplaceFacts ==
    ASSUME NEW S, NEW s \in Seq(S), NEW k \in DOMAIN s, NEW x \in S
    PROVE  /\ [s EXCEPT ![k] = x] \in Seq(S) /\ Len([s EXCEPT ![k] = x]) = Len(s)
           /\ [s EXCEPT ![k] = x][k] = x
           /\ \A i \in DOMAIN s : i # k => [s EXCEPT ![k] = x][i] = s[i]
<1>1. DOMAIN s = 1 .. Len(s) /\ Len(s) \in Nat
  BY SeqFacts
<1>2. PICK t : t = [s EXCEPT ![k] = x]
  OBVIOUS
<1>3. t = [i \in 1 .. Len(s) |-> t[i]] /\ \A i \in 1 .. Len(s) : t[i] \in S
  <2>1. DOMAIN t = 1 .. Len(s) /\ t[k] = x /\ \A i \in 1 .. Len(s) : i # k => t[i] = s[i]
    BY <1>1, <1>2
  <2>2. \A i \in 1 .. Len(s) : s[i] \in S
    BY SeqFacts
  <2>3. t = [i \in 1 .. Len(s) |-> t[i]]
    BY <1>1, <1>2
  <2> QED
    BY <2>1, <2>2, <2>3
<1> QED
  BY <1>1, <1>2, <1>3, TableFacts

LEMMA AppendFacts ==
    ASSUME NEW S, NEW s \in Seq(S), NEW x \in S
    PROVE  /\ Append(s, x) \in Seq(S) /\ Len(Append(s, x)) = Len(s) + 1
           /\ \A i \in 1 .. Len(s) : Append(s, x)[i] = s[i]
           /\ Append(s, x)[Len(s) + 1] = x
OBVIOUS

LEMMA ConcatFacts ==
    ASSUME NEW S, NEW s \in Seq(S), NEW t \in Seq(S)
    PROVE  /\ s \o t \in Seq(S) /\ Len(s \o t) = Len(s) + Len(t)
           /\ \A i \in 1 .. Len(s) : (s \o t)[i] = s[i]
           /\ \A i \in 1 .. Len(t) : (s \o t)[Len(s) + i] = t[i]
OBVIOUS

LEMMA TimesAre == Times \subseteq Nat /\ IsFiniteSet(Times)
<1>1. MaxTime \in Nat
  BY LimitsAssumption
<1>2. IsFiniteSet(1 .. MaxTime)
  BY <1>1, FS_Interval
<1> QED
  BY <1>1, <1>2 DEF Times

\* The latest sample is one.
LEMMA OneLatest ==
    ASSUME NEW times \in SUBSET Times, NEW t \in Latest(times, 1), NEW u \in Latest(times, 1)
    PROVE  t = u
<1>1. ASSUME NEW x \in times, Cardinality({y \in times : y > x}) < 1 PROVE \A y \in times : ~(y > x)
  <2>1. IsFiniteSet({y \in times : y > x})
    BY TimesAre, FS_Subset
  <2>2. Cardinality({y \in times : y > x}) \in Nat
    BY <2>1, FS_CardinalityType
  <2>3. {y \in times : y > x} = {}
    BY <1>1, <2>1, <2>2, FS_EmptySet
  <2> QED
    BY <2>3
<1>2. t \in times /\ u \in times /\ ~(u > t) /\ ~(t > u)
  BY <1>1 DEF Latest
<1> QED
  BY <1>2, TimesAre

LEMMA SignalsFit ==
    ASSUME NEW m
    PROVE  /\ Signals(m) \subseteq Signal
           /\ \A s, t \in Signals(m) : s.rule = t.rule => s = t
<1>1. Considered(m) \subseteq Times /\ SustainedWindow(m) \in SUBSET Times
  BY DEF Considered, SustainedWindow, Latest
<1>2. PICK cpu : cpu = [rule |-> "cpu", first |-> Min(SustainedWindow(m)), last |-> Max(SustainedWindow(m))]
  OBVIOUS
<1>3. CpuSignal(m) \subseteq {cpu}
  BY <1>2 DEF CpuSignal
<1>4. cpu \in Signal
  BY <1>1, <1>2 DEF Signal, Instants, Rules
<1>5. \A s \in HealthSignal(m) : \E t \in Latest(Considered(m), 1) : s = [rule |-> "health", first |-> t, last |-> t]
  BY DEF HealthSignal
<1>6. \A s \in HealthSignal(m) : s \in Signal
  <2>1. SUFFICES ASSUME NEW s \in HealthSignal(m) PROVE s \in Signal
    OBVIOUS
  <2>2. PICK t \in Latest(Considered(m), 1) : s = [rule |-> "health", first |-> t, last |-> t]
    BY <1>5
  <2>3. t \in Instants
    BY <1>1, <2>2 DEF Latest, Instants
  <2> QED
    BY <2>2, <2>3 DEF Signal, Rules
<1>7. \A s, t \in HealthSignal(m) : s = t
  BY <1>1, <1>5, OneLatest
<1>8. cpu.rule = "cpu" /\ \A s \in HealthSignal(m) : s.rule = "health"
  BY <1>2, <1>5
<1> QED
  BY <1>3, <1>4, <1>6, <1>7, <1>8 DEF Signals

LEMMA IncidentsStart == RemediationInit => IncidentInv
<1> SUFFICES ASSUME RemediationInit PROVE IncidentInv
  OBVIOUS
<1> USE DEF RemediationInit
<1>1. NoIngest \in IngestRow /\ NoIngest.at = "idle" /\ NoIngest.signals = {}
  BY DEF NoIngest, IngestRow
<1>2. NoOwnerRequest \in OwnerRow /\ NoOwnerRequest.at = "idle"
  BY DEF NoOwnerRequest, OwnerRow
<1>3. incidents \in Seq(IncidentRow) /\ Len(incidents) = 0 /\ DOMAIN incidents = {}
  OBVIOUS
<1>4. executions \in [Ids -> Seq(Outcome)]
  OBVIOUS
<1>5. IncidentTypes
  <2>1. MaxIncidents \in Nat
    BY LimitsAssumption
  <2>2. ingest \in [Collectors -> IngestRow] /\ request \in [OwnerRequests -> OwnerRow]
    BY <1>1, <1>2
  <2>3. overlapped \in BOOLEAN
    BY Zenon
  <2>4. Len(incidents) <= MaxIncidents
    BY <1>3, <2>1
  <2> QED
    BY <1>3, <1>4, <2>2, <2>3, <2>4, Zenon DEF IncidentTypes
<1>6. OneSignalEach /\ OneAtATime /\ LookedWell
  BY <1>1 DEF OneSignalEach, OneAtATime, LookedWell
<1>7. ExecutionsRun
  BY <1>2 DEF ExecutionsRun, Checking
<1>8. OneOpenIncident /\ ResolvedWasChecked
  BY <1>3 DEF OneOpenIncident, ResolvedWasChecked
<1> QED
  BY <1>5, <1>6, <1>7, <1>8 DEF IncidentInv

-----------------------------------------------------------------------------
(* Posts of samples. *)

LEMMA ConditionsGoOn ==
    ASSUME ResolvedWasChecked, UNCHANGED executions,
           \A i \in DOMAIN incidents' : incidents'[i].status = "resolved" =>
               i \in DOMAIN incidents /\ incidents[i].status = "resolved"
    PROVE  ResolvedWasChecked'
BY DEF ResolvedWasChecked

LEMMA PostsSample ==
    ASSUME IncidentInv, NEW c \in Collectors, IngestSample(c)
    PROVE  IncidentInv'
<1> USE DEF IncidentInv
<1>1. PICK t \in Times, s \in Samples :
          ingest' = [ingest EXCEPT ![c] = [NoIngest EXCEPT !.at = "look", !.time = t, !.sample = s,
                                              !.signals = Signals([metrics EXCEPT ![t] = s])]]
  BY DEF IngestSample
<1>2. PICK new : new = [NoIngest EXCEPT !.at = "look", !.time = t, !.sample = s,
                                        !.signals = Signals([metrics EXCEPT ![t] = s])]
  OBVIOUS
<1>3. /\ new.at = "look" /\ new.signals = Signals([metrics EXCEPT ![t] = s])
      /\ new = [at |-> "look", time |-> t, sample |-> s, signals |-> new.signals, found |-> [r \in Rules |-> 0]]
  BY <1>2 DEF NoIngest
<1>4. new \in IngestRow
  BY <1>3, SignalsFit, TimesAre DEF IngestRow
<1>5. ingest \in [Collectors -> IngestRow]
  BY DEF IncidentTypes
<1>6. /\ ingest' \in [Collectors -> IngestRow] /\ ingest'[c] = new
      /\ \A d \in Collectors : d # c => ingest'[d] = ingest[d]
  BY <1>1, <1>2, <1>4, <1>5
<1>7. UNCHANGED <<incidents, executions, request>>
      /\ overlapped' = (overlapped \/ \E d \in Collectors \ {c} : ingest[d] # NoIngest)
  BY DEF IngestSample
<1>8. IncidentTypes'
  <2>1. overlapped' \in BOOLEAN
    BY <1>7, Zenon
  <2> QED
    BY <1>6, <1>7, <2>1 DEF IncidentTypes
<1>9. OneSignalEach'
  <2>1. \A x, y \in new.signals : x.rule = y.rule => x = y
    BY <1>3, SignalsFit
  <2> QED
    BY <1>6, <2>1 DEF OneSignalEach
<1>10. OneAtATime'
  <2>1. SUFFICES ASSUME ~overlapped', NEW d \in Collectors, ingest'[d].at # "idle" PROVE d = c
    BY DEF OneAtATime
  <2>2. ingest[d].at # "idle" => ingest[d] # NoIngest
    BY DEF NoIngest
  <2> QED
    BY <1>6, <1>7, <2>1, <2>2
<1>11. ~overlapped' => ~overlapped
  BY <1>7, Zenon
<1>12. LookedWell'
  BY <1>3, <1>6, <1>7, <1>11 DEF LookedWell
<1>13. ExecutionsRun'
  BY <1>7 DEF ExecutionsRun, Checking
<1>14. OneOpenIncident' /\ ResolvedWasChecked'
  BY <1>7, <1>11 DEF OneOpenIncident, ResolvedWasChecked
<1> QED
  BY <1>8, <1>9, <1>10, <1>12, <1>13, <1>14

LEMMA PostLooks ==
    ASSUME IncidentInv, NEW c \in Collectors, LookForIncidents(c)
    PROVE  IncidentInv'
<1> USE DEF IncidentInv
<1>1. PICK found \in [Rules -> 0 .. Len(incidents)] :
          /\ \A r \in Rules :
                LET open == UNION {OpenIncidents(s) : s \in {x \in ingest[c].signals : x.rule = r}}
                IN  IF open = {} THEN found[r] = 0 ELSE found[r] \in open
          /\ ingest' = [ingest EXCEPT ![c].at = "commit", ![c].found = found]
  BY DEF LookForIncidents
<1>2. PICK new : new = [ingest[c] EXCEPT !.at = "commit", !.found = found]
  OBVIOUS
<1>3. ingest \in [Collectors -> IngestRow] /\ incidents \in Seq(IncidentRow)
  BY DEF IncidentTypes
<1>4. Len(incidents) \in Nat /\ found \in [Rules -> Nat]
  BY <1>3, SeqFacts
<1>5. new \in IngestRow /\ new.at = "commit" /\ new.signals = ingest[c].signals /\ new.found = found
  BY <1>2, <1>3, <1>4 DEF IngestRow
<1>6. /\ ingest' \in [Collectors -> IngestRow] /\ ingest'[c] = new
      /\ \A d \in Collectors : d # c => ingest'[d] = ingest[d]
  <2>1. ingest' = [ingest EXCEPT ![c] = new]
    BY <1>1, <1>2
  <2> QED
    BY <1>3, <1>5, <2>1
<1>7. UNCHANGED <<incidents, executions, request, overlapped>> /\ ingest[c].at = "look"
  BY DEF LookForIncidents
<1>8. IncidentTypes'
  BY <1>6, <1>7 DEF IncidentTypes
<1>9. OneSignalEach' /\ OneAtATime'
  BY <1>5, <1>6, <1>7 DEF OneSignalEach, OneAtATime
<1>10. LookedWell'
  <2>1. SUFFICES ASSUME ~overlapped, NEW s \in new.signals, new.found[s.rule] = 0, NEW i \in DOMAIN incidents,
                        incidents[i].rule = s.rule
                 PROVE  incidents[i].status \in ClosedStatuses
    BY <1>5, <1>6, <1>7 DEF LookedWell
  <2>2. s.rule \in Rules /\ s \in {x \in ingest[c].signals : x.rule = s.rule}
    BY <1>3, <1>5, <2>1 DEF IngestRow, Signal
  <2>3. incidents[i] \in IncidentRow /\ i \in 1 .. Len(incidents)
    BY <1>3, SeqFacts
  <2>4. 0 \notin UNION {OpenIncidents(z) : z \in {x \in ingest[c].signals : x.rule = s.rule}}
    BY <1>3, SeqFacts DEF OpenIncidents
  <2>5. i \notin OpenIncidents(s)
    BY <1>1, <1>5, <2>1, <2>2, <2>4
  <2> QED
    BY <2>1, <2>3, <2>5 DEF OpenIncidents, IncidentRow
<1>11. ExecutionsRun'
  BY <1>7 DEF ExecutionsRun, Checking
<1>12. OneOpenIncident' /\ ResolvedWasChecked'
  BY <1>7 DEF OneOpenIncident, ResolvedWasChecked
<1> QED
  BY <1>8, <1>9, <1>10, <1>11, <1>12

\* At most one incident of each rule is opened, for a signal that had none.
LEMMA OpenedFits ==
    ASSUME IncidentInv, NEW c \in Collectors
    PROVE  /\ Opened(c) \in Seq(IncidentRow)
           /\ \A k \in DOMAIN Opened(c) : /\ Opened(c)[k].status = "open"
                                          /\ \E s \in New(c) : s.rule = Opened(c)[k].rule
           /\ \A k, l \in DOMAIN Opened(c) : Opened(c)[k].rule = Opened(c)[l].rule => k = l
<1>1. New(c) \subseteq Signal
  BY DEF IncidentInv, IncidentTypes, IngestRow, New
<1>2. ASSUME NEW r
      PROVE  /\ OpenedOf(c, r) \in Seq(IncidentRow)
             /\ Len(OpenedOf(c, r)) \in {0, 1}
             /\ Len(OpenedOf(c, r)) = 1 => /\ OpenedOf(c, r)[1].status = "open" /\ OpenedOf(c, r)[1].rule = r
                                           /\ \E s \in New(c) : s.rule = r
  <2>1. PICK new : new = {s \in New(c) : s.rule = r}
    OBVIOUS
  <2>2. CASE new = {}
    <3>1. OpenedOf(c, r) = <<>>
      BY <2>1, <2>2 DEF OpenedOf
    <3> QED
      BY <3>1
  <2>3. CASE new # {}
    <3>1. PICK s : s = CHOOSE x \in new : TRUE
      OBVIOUS
    <3>2. s \in new
      BY <2>3, <3>1
    <3>3. OpenedOf(c, r) = <<Incident(s)>>
      BY <2>1, <2>3, <3>1 DEF OpenedOf
    <3>4. Incident(s) \in IncidentRow /\ Incident(s).status = "open" /\ Incident(s).rule = r
      BY <1>1, <2>1, <3>2 DEF Incident, IncidentRow, Signal, OpenStatuses
    <3> QED
      BY <2>1, <3>2, <3>3, <3>4
  <2> QED
    BY <2>2, <2>3
<1>3. PICK a, b : a = OpenedOf(c, "cpu") /\ b = OpenedOf(c, "health")
  OBVIOUS
<1>4. Opened(c) = a \o b
  BY <1>3 DEF Opened
<1>5. /\ a \in Seq(IncidentRow) /\ b \in Seq(IncidentRow) /\ Len(a) \in {0, 1} /\ Len(b) \in {0, 1}
      /\ Len(a) = 1 => a[1].status = "open" /\ a[1].rule = "cpu" /\ \E s \in New(c) : s.rule = "cpu"
      /\ Len(b) = 1 => b[1].status = "open" /\ b[1].rule = "health" /\ \E s \in New(c) : s.rule = "health"
  BY <1>2, <1>3
<1>6. PICK o : o = a \o b
  OBVIOUS
<1>7. /\ o \in Seq(IncidentRow) /\ Len(o) = Len(a) + Len(b)
      /\ \A i \in 1 .. Len(a) : o[i] = a[i]
      /\ \A i \in 1 .. Len(b) : o[Len(a) + i] = b[i]
  BY <1>5, <1>6, ConcatFacts
<1>8. DOMAIN o = 1 .. Len(o)
  BY <1>7, SeqFacts
<1>9. \A k \in DOMAIN o : \/ k = 1 /\ Len(a) = 1 /\ o[k] = a[1]
                          \/ k = Len(a) + 1 /\ Len(b) = 1 /\ o[k] = b[1]
  BY <1>5, <1>7, <1>8
<1>10. \A k \in DOMAIN o : o[k].status = "open" /\ \E s \in New(c) : s.rule = o[k].rule
  BY <1>5, <1>9
<1>11. \A k, l \in DOMAIN o : o[k].rule = o[l].rule => k = l
  BY <1>5, <1>9
<1> QED
  BY <1>4, <1>6, <1>7, <1>10, <1>11

\* What is known is updated in its last sample, and nothing else.
LEMMA UpdatedFits ==
    ASSUME IncidentInv, NEW c \in Collectors
    PROVE  /\ Updated(c) \in Seq(IncidentRow) /\ Len(Updated(c)) = Len(incidents)
           /\ \A i \in DOMAIN incidents : /\ Updated(c)[i].rule = incidents[i].rule
                                          /\ Updated(c)[i].status = incidents[i].status
<1>1. incidents \in Seq(IncidentRow) /\ Len(incidents) \in Nat /\ DOMAIN incidents = 1 .. Len(incidents)
      /\ Known(c) \subseteq Signal
  BY SeqFacts DEF IncidentInv, IncidentTypes, IngestRow, Known
<1>2. PICK u : u = Updated(c)
  OBVIOUS
<1>3. u = [i \in 1 .. Len(incidents) |-> u[i]]
  BY <1>1, <1>2 DEF Updated
<1>4. ASSUME NEW i \in 1 .. Len(incidents)
      PROVE  u[i] \in IncidentRow /\ u[i].rule = incidents[i].rule /\ u[i].status = incidents[i].status
  <2>1. incidents[i] \in IncidentRow
    BY <1>1, SeqFacts
  <2>2. CASE \E s \in Known(c) : ingest[c].found[s.rule] = i
    <3>1. PICK s : s = CHOOSE x \in Known(c) : ingest[c].found[x.rule] = i
      OBVIOUS
    <3>2. s \in Signal
      BY <1>1, <2>2, <3>1
    <3>3. u[i] = [incidents[i] EXCEPT !.last = s.last]
      BY <1>1, <1>2, <2>2, <3>1 DEF Updated
    <3> QED
      BY <2>1, <3>2, <3>3 DEF IncidentRow, Signal
  <2>3. CASE ~\E s \in Known(c) : ingest[c].found[s.rule] = i
    <3>1. u[i] = incidents[i]
      BY <1>1, <1>2, <2>3 DEF Updated
    <3> QED
      BY <2>1, <3>1
  <2> QED
    BY <2>2, <2>3
<1>5. u \in Seq(IncidentRow) /\ Len(u) = Len(incidents)
  BY <1>1, <1>3, <1>4, TableFacts
<1> QED
  BY <1>1, <1>2, <1>4, <1>5

LEMMA CommitAdds ==
    ASSUME IncidentInv, NEW c \in Collectors, CommitIngest(c)
    PROVE  /\ incidents' \in Seq(IncidentRow) /\ Len(incidents') <= MaxIncidents
           /\ \A i \in DOMAIN incidents : /\ i \in DOMAIN incidents'
                                          /\ incidents'[i].rule = incidents[i].rule
                                          /\ incidents'[i].status = incidents[i].status
           /\ \A i \in DOMAIN incidents' \ DOMAIN incidents :
                 incidents'[i].status = "open" /\ \E s \in New(c) : s.rule = incidents'[i].rule
           /\ \A i, j \in DOMAIN incidents' \ DOMAIN incidents : incidents'[i].rule = incidents'[j].rule => i = j
<1>0. incidents \in Seq(IncidentRow) /\ Len(incidents) \in Nat /\ DOMAIN incidents = 1 .. Len(incidents)
      /\ Len(incidents) <= MaxIncidents /\ MaxIncidents \in Nat
  BY SeqFacts, LimitsAssumption DEF IncidentInv, IncidentTypes
<1>1. CASE incidents' = incidents
  BY <1>0, <1>1
<1>2. CASE Admitted(c)
  <2>1. PICK u, o : u = Updated(c) /\ o = Opened(c)
    OBVIOUS
  <2>2. Len(incidents) + Len(o) <= MaxIncidents /\ incidents' = u \o o
    BY <1>2, <2>1 DEF CommitIngest
  <2>3. /\ u \in Seq(IncidentRow) /\ Len(u) = Len(incidents)
        /\ \A i \in DOMAIN incidents : u[i].rule = incidents[i].rule /\ u[i].status = incidents[i].status
    BY <2>1, UpdatedFits
  <2>4. /\ o \in Seq(IncidentRow)
        /\ \A k \in DOMAIN o : o[k].status = "open" /\ \E s \in New(c) : s.rule = o[k].rule
        /\ \A k, l \in DOMAIN o : o[k].rule = o[l].rule => k = l
    BY <2>1, OpenedFits
  <2>5. Len(o) \in Nat /\ DOMAIN o = 1 .. Len(o)
    BY <2>4, SeqFacts
  <2>6. PICK all : all = u \o o
    OBVIOUS
  <2>7. /\ all \in Seq(IncidentRow) /\ Len(all) = Len(u) + Len(o)
        /\ \A i \in 1 .. Len(u) : all[i] = u[i]
        /\ \A i \in 1 .. Len(o) : all[Len(u) + i] = o[i]
    <3>1. u \in Seq(IncidentRow) /\ o \in Seq(IncidentRow)
      BY <2>3, <2>4
    <3> HIDE DEF IncidentInv
    <3> QED
      BY <3>1, <2>6, ConcatFacts
  <2>8. DOMAIN all = 1 .. Len(all)
    BY <2>7, SeqFacts
  <2>9. \A i \in DOMAIN all \ DOMAIN incidents :
            i - Len(incidents) \in DOMAIN o /\ all[i] = o[i - Len(incidents)]
    <3>1. SUFFICES ASSUME NEW i \in DOMAIN all \ DOMAIN incidents
                   PROVE  i - Len(incidents) \in DOMAIN o /\ all[i] = o[i - Len(incidents)]
      OBVIOUS
    <3>2. i - Len(incidents) \in 1 .. Len(o) /\ Len(u) + (i - Len(incidents)) = i
      BY <1>0, <2>3, <2>5, <2>7, <2>8
    <3> QED
      BY <2>5, <2>7, <3>2
  <2>10. \A i \in DOMAIN incidents : i \in DOMAIN all /\ all[i] = u[i]
    BY <1>0, <2>3, <2>5, <2>7, <2>8
  <2>11. \A i, j \in DOMAIN all \ DOMAIN incidents : all[i].rule = all[j].rule => i = j
    <3>1. SUFFICES ASSUME NEW i \in DOMAIN all \ DOMAIN incidents, NEW j \in DOMAIN all \ DOMAIN incidents,
                          all[i].rule = all[j].rule
                   PROVE  i = j
      OBVIOUS
    <3>2. i - Len(incidents) = j - Len(incidents) /\ i \in Nat /\ j \in Nat
      BY <2>4, <2>7, <2>8, <2>9, <3>1
    <3> QED
      BY <1>0, <3>2
  <2> QED
    BY <1>0, <2>2, <2>3, <2>4, <2>6, <2>7, <2>9, <2>10, <2>11
<1> QED
  BY <1>1, <1>2 DEF CommitIngest

LEMMA PostCommits ==
    ASSUME IncidentInv, NEW c \in Collectors, CommitIngest(c)
    PROVE  IncidentInv'
<1> USE DEF IncidentInv
<1>0. incidents \in Seq(IncidentRow) /\ DOMAIN incidents = 1 .. Len(incidents)
      /\ ingest \in [Collectors -> IngestRow] /\ NoIngest \in IngestRow /\ NoIngest.at = "idle" /\ NoIngest.signals = {}
  BY SeqFacts DEF IncidentTypes, NoIngest, IngestRow
<1>1. /\ ingest' \in [Collectors -> IngestRow] /\ ingest'[c] = NoIngest
      /\ \A d \in Collectors : d # c => ingest'[d] = ingest[d]
      /\ UNCHANGED <<executions, request, overlapped>> /\ ingest[c].at = "commit"
  BY <1>0 DEF CommitIngest
<1>2. IncidentTypes'
  BY <1>1, CommitAdds DEF IncidentTypes
<1>3. OneSignalEach' /\ OneAtATime'
  BY <1>0, <1>1 DEF OneSignalEach, OneAtATime
<1>4. LookedWell'
  <2>1. ASSUME ~overlapped, NEW d \in Collectors PROVE ingest'[d].at # "commit"
    BY <1>0, <1>1, <2>1 DEF OneAtATime
  <2> QED
    BY <1>1, <2>1 DEF LookedWell
<1>5. ExecutionsRun'
  BY <1>1, CommitAdds DEF ExecutionsRun, Checking
<1>6. OneOpenIncident'
  <2>1. SUFFICES ASSUME ~overlapped, NEW i \in DOMAIN incidents', NEW j \in DOMAIN incidents', i # j,
                        incidents'[i].rule = incidents'[j].rule
                 PROVE  incidents'[i].status \in ClosedStatuses \/ incidents'[j].status \in ClosedStatuses
    BY <1>1 DEF OneOpenIncident
  <2>2. CASE i \in DOMAIN incidents /\ j \in DOMAIN incidents
    BY <2>1, <2>2, CommitAdds DEF OneOpenIncident
  <2>3. ASSUME NEW k \in DOMAIN incidents, NEW l \in DOMAIN incidents' \ DOMAIN incidents,
               incidents'[k].rule = incidents'[l].rule
        PROVE  incidents'[k].status \in ClosedStatuses
    <3>1. PICK s \in New(c) : s.rule = incidents'[l].rule
      BY CommitAdds
    <3>2. s \in ingest[c].signals /\ ingest[c].found[s.rule] = 0
      BY DEF New
    <3>3. incidents[k].rule = s.rule /\ incidents'[k].status = incidents[k].status
      BY <2>3, <3>1, CommitAdds
    <3> QED
      BY <1>1, <2>1, <3>2, <3>3 DEF LookedWell
  <2>4. CASE i \notin DOMAIN incidents /\ j \notin DOMAIN incidents
    BY <2>1, <2>4, CommitAdds
  <2> QED
    BY <2>1, <2>2, <2>3, <2>4
<1>7. ResolvedWasChecked'
  <2>1. ASSUME NEW i \in DOMAIN incidents', incidents'[i].status = "resolved"
        PROVE  i \in DOMAIN incidents /\ incidents[i].status = "resolved"
    BY <2>1, CommitAdds
  <2> QED
    BY <1>1, <2>1, ConditionsGoOn
<1> QED
  BY <1>2, <1>3, <1>4, <1>5, <1>6, <1>7

-----------------------------------------------------------------------------
(* Requests of the owner. *)

\* What a step may do to the incidents: some close.
OnlyCloses ==
    /\ incidents' \in Seq(IncidentRow) /\ Len(incidents') = Len(incidents)
    /\ \A i \in DOMAIN incidents :
          /\ incidents'[i].rule = incidents[i].rule
          /\ incidents'[i].status = incidents[i].status \/ incidents'[i].status \in ClosedStatuses

\* What passed is on record for good.
RecordStays ==
    \A i \in Ids : \A n \in DOMAIN executions[i] :
        executions[i][n] = "succeeded" => n \in DOMAIN executions'[i] /\ executions'[i][n] = "succeeded"

RunsAlone(q) ==
    /\ request[q].n \in DOMAIN executions[request[q].id] /\ executions[request[q].id][request[q].n] = "running"
    /\ \A p \in OwnerRequests \ {q} : Checking(p) => request[p].id # request[q].id \/ request[p].n # request[q].n

LEMMA IncidentFacts ==
    ASSUME IncidentInv
    PROVE  /\ incidents \in Seq(IncidentRow) /\ DOMAIN incidents = 1 .. Len(incidents) /\ Len(incidents) \in Nat
           /\ DOMAIN incidents \subseteq Ids /\ Ids \subseteq Nat
           /\ request \in [OwnerRequests -> OwnerRow]
           /\ executions \in [Ids -> Seq(Outcome)]
           /\ \A q \in OwnerRequests : request[q].at # "idle" => request[q].id \in DOMAIN incidents /\ request[q].id \in Ids
           /\ \A q \in OwnerRequests : Checking(q) => RunsAlone(q)
<1>1. MaxIncidents \in Nat /\ incidents \in Seq(IncidentRow) /\ Len(incidents) <= MaxIncidents
  BY LimitsAssumption DEF IncidentInv, IncidentTypes
<1>2. DOMAIN incidents = 1 .. Len(incidents) /\ Len(incidents) \in Nat
  BY <1>1, SeqFacts
<1>3. DOMAIN incidents \subseteq Ids /\ Ids \subseteq Nat
  BY <1>1, <1>2 DEF Ids
<1> QED
  BY <1>1, <1>2, <1>3 DEF IncidentInv, IncidentTypes, ExecutionsRun, RunsAlone, Checking

LEMMA OwnerMoves ==
    ASSUME IncidentInv, NEW q \in OwnerRequests, NEW new \in OwnerRow,
           request' = [request EXCEPT ![q] = new], UNCHANGED <<ingest, overlapped>>,
           OnlyCloses, RecordStays, executions' \in [Ids -> Seq(Outcome)],
           \A i \in DOMAIN incidents : incidents'[i].status = "resolved" =>
               \/ incidents[i].status = "resolved"
               \/ \E n \in DOMAIN executions'[i] : executions'[i][n] = "succeeded",
           new.at # "idle" => new.id \in DOMAIN incidents,
           \A p \in OwnerRequests \ {q} : Checking(p) =>
               /\ request[p].n \in DOMAIN executions'[request[p].id]
               /\ executions'[request[p].id][request[p].n] = "running",
           new.at \in {"check", "conclude"} =>
               /\ new.n \in DOMAIN executions'[new.id] /\ executions'[new.id][new.n] = "running"
               /\ \A p \in OwnerRequests \ {q} : Checking(p) => request[p].id # new.id \/ request[p].n # new.n
    PROVE  IncidentInv'
<1>1. /\ incidents \in Seq(IncidentRow) /\ DOMAIN incidents = 1 .. Len(incidents)
      /\ incidents' \in Seq(IncidentRow) /\ DOMAIN incidents' = DOMAIN incidents /\ Len(incidents') = Len(incidents)
  <2>1. incidents' \in Seq(IncidentRow) /\ Len(incidents') = Len(incidents)
    BY DEF OnlyCloses
  <2>2. DOMAIN incidents' = 1 .. Len(incidents')
    BY <2>1, SeqFacts
  <2> QED
    BY <2>1, <2>2, IncidentFacts
<1>2. request \in [OwnerRequests -> OwnerRow] /\ DOMAIN incidents \subseteq Ids
  BY IncidentFacts
<1>3. /\ request' \in [OwnerRequests -> OwnerRow] /\ request'[q] = new
      /\ \A p \in OwnerRequests \ {q} : request'[p] = request[p]
  BY <1>2
<1>4. IncidentTypes'
  BY <1>1, <1>3 DEF IncidentInv, IncidentTypes
<1>5. OneSignalEach' /\ OneAtATime'
  BY DEF IncidentInv, OneSignalEach, OneAtATime
<1>6. LookedWell' /\ OneOpenIncident'
  <2>1. \A i \in DOMAIN incidents : /\ incidents'[i].rule = incidents[i].rule
                                    /\ incidents[i].status \in ClosedStatuses => incidents'[i].status \in ClosedStatuses
    BY DEF OnlyCloses
  <2>2. LookedWell'
    <3>1. SUFFICES ASSUME ~overlapped', NEW c \in Collectors, ingest'[c].at = "commit", NEW s \in ingest'[c].signals,
                          ingest'[c].found[s.rule] = 0, NEW i \in DOMAIN incidents', incidents'[i].rule = s.rule
                   PROVE  incidents'[i].status \in ClosedStatuses
      BY DEF LookedWell
    <3>2. i \in DOMAIN incidents /\ incidents[i].rule = s.rule
      BY <1>1, <2>1, <3>1
    <3>3. incidents[i].status \in ClosedStatuses
      BY <3>1, <3>2 DEF IncidentInv, LookedWell
    <3> QED
      BY <2>1, <3>2, <3>3
  <2>3. OneOpenIncident'
    BY <1>1, <2>1 DEF IncidentInv, OneOpenIncident
  <2> QED
    BY <2>2, <2>3
<1>7. ExecutionsRun'
  <2>1. \A p \in OwnerRequests : request'[p].at # "idle" => request'[p].id \in DOMAIN incidents'
    BY <1>1, <1>3, IncidentFacts
  <2>2. \A p \in OwnerRequests : Checking(p)' => /\ request'[p].n \in DOMAIN executions'[request'[p].id]
                                                 /\ executions'[request'[p].id][request'[p].n] = "running"
    BY <1>3 DEF Checking
  <2>3. \A p, r \in OwnerRequests :
           Checking(p)' /\ Checking(r)' /\ request'[p].id = request'[r].id /\ request'[p].n = request'[r].n => p = r
    BY <1>3 DEF Checking, IncidentInv, ExecutionsRun
  <2> QED
    BY <2>1, <2>2, <2>3 DEF ExecutionsRun
<1>8. ResolvedWasChecked'
  <2>1. SUFFICES ASSUME NEW i \in DOMAIN incidents, incidents'[i].status = "resolved"
                 PROVE  \E n \in DOMAIN executions'[i] : executions'[i][n] = "succeeded"
    BY <1>1 DEF ResolvedWasChecked
  <2>2. CASE incidents[i].status = "resolved"
    <3>1. PICK n \in DOMAIN executions[i] : executions[i][n] = "succeeded"
      BY <2>2 DEF IncidentInv, ResolvedWasChecked
    <3> QED
      BY <1>2, <3>1 DEF RecordStays
  <2> QED
    BY <2>1, <2>2
<1> QED
  BY <1>4, <1>5, <1>6, <1>7, <1>8 DEF IncidentInv

\* Steps that leave the incidents and their executions alone.
LEMMA OwnerMovesOnly ==
    ASSUME IncidentInv, NEW q \in OwnerRequests, NEW new \in OwnerRow,
           request' = [request EXCEPT ![q] = new], UNCHANGED <<ingest, overlapped, incidents, executions>>,
           new.at # "idle" => new.id \in DOMAIN incidents,
           new.at \in {"check", "conclude"} => Checking(q) /\ new.id = request[q].id /\ new.n = request[q].n
    PROVE  IncidentInv' /\ OnlyCloses
<1>1. OnlyCloses /\ RecordStays /\ executions' \in [Ids -> Seq(Outcome)]
  BY IncidentFacts DEF OnlyCloses, RecordStays
<1>2. \A p \in OwnerRequests : Checking(p) => RunsAlone(p)
  BY IncidentFacts
<1>3. IncidentInv'
  BY <1>1, <1>2, OwnerMoves DEF RunsAlone
<1> QED
  BY <1>1, <1>3

LEMMA IncidentCloses ==
    ASSUME IncidentInv, NEW q \in OwnerRequests, request[q].at # "idle", NEW status \in ClosedStatuses,
           WritesIncident(q, status)
    PROVE  /\ OnlyCloses
           /\ \A i \in DOMAIN incidents : i # request[q].id => incidents'[i] = incidents[i]
           /\ incidents'[request[q].id].status = status
<1>1. PICK k, new : k = request[q].id /\ new = [incidents[k] EXCEPT !.status = status]
  OBVIOUS
<1>2. incidents \in Seq(IncidentRow) /\ k \in DOMAIN incidents /\ DOMAIN incidents = 1 .. Len(incidents)
  BY <1>1, IncidentFacts
<1>3. incidents[k] \in IncidentRow
  BY <1>2, SeqFacts
<1>4. new \in IncidentRow /\ new.status = status /\ new.rule = incidents[k].rule
  BY <1>1, <1>3 DEF IncidentRow
<1>5. incidents' = [incidents EXCEPT ![k] = new]
  BY <1>1 DEF WritesIncident
<1>6. /\ incidents' \in Seq(IncidentRow) /\ Len(incidents') = Len(incidents) /\ incidents'[k] = new
      /\ \A i \in DOMAIN incidents : i # k => incidents'[i] = incidents[i]
  BY <1>2, <1>4, <1>5, ReplaceFacts
<1> QED
  BY <1>1, <1>4, <1>6 DEF OnlyCloses

LEMMA ExecutionEnds ==
    ASSUME IncidentInv, NEW q \in OwnerRequests, Checking(q), NEW status \in Outcome, Concludes(q, status)
    PROVE  /\ executions' \in [Ids -> Seq(Outcome)] /\ RecordStays
           /\ request[q].n \in DOMAIN executions'[request[q].id] /\ executions'[request[q].id][request[q].n] = status
           /\ \A p \in OwnerRequests \ {q} : Checking(p) =>
                 /\ request[p].n \in DOMAIN executions'[request[p].id]
                 /\ executions'[request[p].id][request[p].n] = "running"
<1>1. PICK k, n, x : k = request[q].id /\ n = request[q].n /\ x = [executions[k] EXCEPT ![n] = status]
  OBVIOUS
<1>2. /\ k \in Ids /\ executions \in [Ids -> Seq(Outcome)]
      /\ n \in DOMAIN executions[k] /\ executions[k][n] = "running"
      /\ \A p \in OwnerRequests \ {q} : Checking(p) => RunsAlone(p) /\ request[p].id \in Ids
      /\ \A p \in OwnerRequests \ {q} : Checking(p) => request[p].id # k \/ request[p].n # n
  BY <1>1, IncidentFacts DEF RunsAlone, Checking
<1>3. executions[k] \in Seq(Outcome)
  BY <1>2
<1>4. /\ x \in Seq(Outcome) /\ Len(x) = Len(executions[k]) /\ x[n] = status
      /\ \A i \in DOMAIN executions[k] : i # n => x[i] = executions[k][i]
  BY <1>1, <1>2, <1>3, ReplaceFacts
<1>5. DOMAIN x = DOMAIN executions[k]
  BY <1>3, <1>4, SeqFacts
<1>6. executions' = [executions EXCEPT ![k] = x]
  BY <1>1 DEF Concludes
<1>7. /\ executions' \in [Ids -> Seq(Outcome)] /\ executions'[k] = x
      /\ \A i \in Ids : i # k => executions'[i] = executions[i]
  BY <1>2, <1>4, <1>6
<1>8. RecordStays
  BY <1>2, <1>4, <1>5, <1>7 DEF RecordStays
<1>9. n \in DOMAIN executions'[k] /\ executions'[k][n] = status
  BY <1>2, <1>4, <1>5, <1>7
<1>10. ASSUME NEW p \in OwnerRequests \ {q}, Checking(p)
       PROVE  /\ request[p].n \in DOMAIN executions'[request[p].id]
              /\ executions'[request[p].id][request[p].n] = "running"
  <2>1. /\ request[p].n \in DOMAIN executions[request[p].id] /\ request[p].id \in Ids
        /\ executions[request[p].id][request[p].n] = "running"
    BY <1>2, <1>10 DEF RunsAlone
  <2>2. CASE request[p].id = k
    BY <1>2, <1>4, <1>5, <1>7, <1>10, <2>1, <2>2
  <2>3. CASE request[p].id # k
    BY <1>7, <2>1, <2>3
  <2> QED
    BY <2>2, <2>3
<1> QED
  BY <1>1, <1>7, <1>8, <1>9, <1>10

LEMMA AskFits ==
    ASSUME IncidentInv, NEW q \in OwnerRequests, NEW i \in DOMAIN incidents, AskRemediation(q, i),
           UNCHANGED <<metrics, lapsed, ingest, deployed, overlapped>>
    PROVE  IncidentInv' /\ OnlyCloses
<1>1. PICK at \in {"dismiss", "expire", "approve", "reject", "count"} : Opens(q, at, i, "none")
  BY DEF AskRemediation, AskDismiss, AskApprove, AskReject, AskExecute
<1>2. PICK new : new = [at |-> at, id |-> i, n |-> 0, seen |-> "none"]
  OBVIOUS
<1>3. new \in OwnerRow /\ new.at \notin {"idle", "check", "conclude"} /\ new.id = i
  BY <1>1, <1>2, IncidentFacts DEF OwnerRow
<1>4. request' = [request EXCEPT ![q] = new] /\ UNCHANGED <<ingest, overlapped, incidents, executions>>
  BY <1>1, <1>2 DEF Opens, AskRemediation
<1> QED
  BY <1>3, <1>4, OwnerMovesOnly

LEMMA IdleOwner == NoOwnerRequest \in OwnerRow /\ NoOwnerRequest.at = "idle"
BY DEF NoOwnerRequest, OwnerRow

LEMMA DecideFits ==
    ASSUME IncidentInv, NEW q \in OwnerRequests, Dismiss(q) \/ Decide(q) \/ AbandonRequest(q),
           UNCHANGED <<metrics, lapsed, ingest, deployed, overlapped>>
    PROVE  IncidentInv' /\ OnlyCloses
<1>1. request' = [request EXCEPT ![q] = NoOwnerRequest] /\ executions' = executions
  BY DEF Dismiss, Decide, AbandonRequest, Ends
<1>2. CASE Dismiss(q)
  <2>1. request[q].at # "idle" /\ WritesIncident(q, "dismissed")
    BY <1>2 DEF Dismiss, Ends
  <2>2. /\ OnlyCloses /\ incidents'[request[q].id].status = "dismissed"
        /\ \A i \in DOMAIN incidents : i # request[q].id => incidents'[i] = incidents[i]
    BY <2>1, IncidentCloses DEF ClosedStatuses
  <2>3. \A i \in DOMAIN incidents : incidents'[i].status = "resolved" => incidents[i].status = "resolved"
    BY <2>2
  <2>4. RecordStays /\ executions' \in [Ids -> Seq(Outcome)]
    BY <1>1, IncidentFacts DEF RecordStays
  <2>5. \A p \in OwnerRequests : Checking(p) => RunsAlone(p)
    BY IncidentFacts
  <2> QED
    BY <1>1, <2>2, <2>3, <2>4, <2>5, IdleOwner, OwnerMoves DEF RunsAlone
<1>3. CASE Decide(q) \/ AbandonRequest(q)
  <2>1. UNCHANGED incidents
    BY <1>3 DEF Decide, AbandonRequest
  <2> QED
    BY <1>1, <2>1, IdleOwner, OwnerMovesOnly
<1> QED
  BY <1>2, <1>3

LEMMA CountFits ==
    ASSUME IncidentInv, NEW q \in OwnerRequests, CountAttempts(q) \/ CheckPasses(q),
           UNCHANGED <<metrics, lapsed, ingest, deployed, overlapped>>
    PROVE  IncidentInv' /\ OnlyCloses
<1>1. request[q] \in OwnerRow /\ request[q].id \in DOMAIN incidents /\ request[q].id \in Ids
  BY IncidentFacts DEF CountAttempts, CheckPasses
<1>2. CASE CountAttempts(q)
  <2>1. PICK n, new : n = Len(executions[request[q].id]) + 1 /\ new = [request[q] EXCEPT !.at = "insert", !.n = n]
    OBVIOUS
  <2>2. n \in Nat
    <3>1. executions[request[q].id] \in Seq(Outcome)
      BY <1>1, IncidentFacts
    <3> QED
      BY <2>1, <3>1, SeqFacts
  <2>3. new \in OwnerRow /\ new.at = "insert" /\ new.id = request[q].id
    BY <1>1, <2>1, <2>2 DEF OwnerRow
  <2>4. request' = [request EXCEPT ![q] = new] /\ UNCHANGED <<ingest, overlapped, incidents, executions>>
    BY <1>2, <2>1 DEF CountAttempts
  <2> QED
    BY <1>1, <2>3, <2>4, OwnerMovesOnly
<1>3. CASE CheckPasses(q)
  <2>1. PICK new : new = [request[q] EXCEPT !.at = "conclude", !.seen = incidents[request[q].id].status]
    OBVIOUS
  <2>2. incidents[request[q].id] \in IncidentRow
    BY <1>1, IncidentFacts, SeqFacts
  <2>3. new \in OwnerRow /\ new.at = "conclude" /\ new.id = request[q].id /\ new.n = request[q].n
    BY <1>1, <2>1, <2>2 DEF OwnerRow, IncidentRow
  <2>4. request' = [request EXCEPT ![q] = new] /\ UNCHANGED <<ingest, overlapped, incidents, executions>> /\ Checking(q)
    BY <1>3, <2>1 DEF CheckPasses, Checking
  <2> QED
    BY <1>1, <2>3, <2>4, OwnerMovesOnly
<1> QED
  BY <1>2, <1>3

\* The number that an execution takes is taken for the first time.
LEMMA InsertFits ==
    ASSUME IncidentInv, NEW q \in OwnerRequests, InsertExecution(q),
           UNCHANGED <<metrics, lapsed, ingest, deployed, overlapped>>
    PROVE  IncidentInv' /\ OnlyCloses
<1>1. PICK k, e : k = request[q].id /\ e = executions[k]
  OBVIOUS
<1>2. /\ request[q] \in OwnerRow /\ k \in DOMAIN incidents /\ k \in Ids /\ e \in Seq(Outcome)
      /\ executions \in [Ids -> Seq(Outcome)]
      /\ \A p \in OwnerRequests : Checking(p) => RunsAlone(p) /\ request[p].id \in Ids
  BY <1>1, IncidentFacts DEF InsertExecution, Checking
<1>3. DOMAIN e = 1 .. Len(e) /\ Len(e) \in Nat
  BY <1>2, SeqFacts
<1>4. UNCHANGED incidents
  BY DEF InsertExecution
<1>5. CASE request[q].n # Len(e) + 1
  <2>1. request' = [request EXCEPT ![q] = NoOwnerRequest] /\ UNCHANGED executions
    BY <1>1, <1>5 DEF InsertExecution
  <2> QED
    BY <1>4, <2>1, IdleOwner, OwnerMovesOnly
<1>6. CASE request[q].n = Len(e) + 1
  <2>1. PICK new, x : new = [request[q] EXCEPT !.at = "check"] /\ x = Append(e, "running")
    OBVIOUS
  <2>2. new \in OwnerRow /\ new.at = "check" /\ new.id = k /\ new.n = Len(e) + 1
    BY <1>1, <1>2, <1>6, <2>1 DEF OwnerRow
  <2>3. request' = [request EXCEPT ![q] = new] /\ executions' = [executions EXCEPT ![k] = x]
    BY <1>1, <1>6, <2>1 DEF InsertExecution
  <2>4. "running" \in Outcome
    BY DEF Outcome
  <2>5. /\ x \in Seq(Outcome) /\ Len(x) = Len(e) + 1 /\ x[Len(e) + 1] = "running"
        /\ \A i \in 1 .. Len(e) : x[i] = e[i]
    BY <1>2, <2>1, <2>4, AppendFacts
  <2>6. DOMAIN x = 1 .. (Len(e) + 1)
    BY <2>5, SeqFacts
  <2>7. /\ executions' \in [Ids -> Seq(Outcome)] /\ executions'[k] = x
        /\ \A i \in Ids : i # k => executions'[i] = executions[i]
    BY <1>2, <2>3, <2>5
  <2>8. \A i \in DOMAIN e : i \in DOMAIN x /\ x[i] = e[i]
    BY <1>3, <2>5, <2>6
  <2>9. RecordStays /\ OnlyCloses
    <3>1. RecordStays
      BY <1>1, <2>7, <2>8 DEF RecordStays
    <3>2. OnlyCloses
      BY <1>4, IncidentFacts DEF OnlyCloses
    <3> QED
      BY <3>1, <3>2
  <2>10. \A p \in OwnerRequests \ {q} : Checking(p) =>
             /\ request[p].n \in DOMAIN executions'[request[p].id]
             /\ executions'[request[p].id][request[p].n] = "running"
    <3>1. SUFFICES ASSUME NEW p \in OwnerRequests \ {q}, Checking(p)
                   PROVE  /\ request[p].n \in DOMAIN executions'[request[p].id]
                          /\ executions'[request[p].id][request[p].n] = "running"
      OBVIOUS
    <3>2. /\ request[p].n \in DOMAIN executions[request[p].id] /\ request[p].id \in Ids
          /\ executions[request[p].id][request[p].n] = "running"
      BY <1>2, <3>1 DEF RunsAlone
    <3>3. CASE request[p].id = k
      BY <1>1, <2>7, <2>8, <3>2, <3>3
    <3>4. CASE request[p].id # k
      BY <2>7, <3>2, <3>4
    <3> QED
      BY <3>3, <3>4
  <2>11. /\ new.n \in DOMAIN executions'[new.id] /\ executions'[new.id][new.n] = "running"
         /\ \A p \in OwnerRequests \ {q} : Checking(p) => request[p].id # new.id \/ request[p].n # new.n
    <3>1. new.n \in DOMAIN x /\ x[new.n] = "running" /\ new.n \notin DOMAIN e
      BY <1>3, <2>2, <2>5, <2>6
    <3> QED
      BY <1>1, <1>2, <2>2, <2>7, <3>1 DEF RunsAlone
  <2> QED
    BY <1>2, <1>4, <2>2, <2>3, <2>7, <2>9, <2>10, <2>11, OwnerMoves
<1> QED
  BY <1>5, <1>6

LEMMA CheckEnds ==
    ASSUME IncidentInv, NEW q \in OwnerRequests, NothingToCheck(q) \/ CheckFails(q) \/ Conclude(q),
           UNCHANGED <<metrics, lapsed, ingest, deployed, overlapped>>
    PROVE  IncidentInv' /\ OnlyCloses
<1>1. PICK status \in Outcome : /\ Concludes(q, status)
                                /\ Conclude(q) => status = "succeeded"
  BY DEF NothingToCheck, CheckFails, Conclude, Outcome
<1>2. Checking(q) /\ request[q].at # "idle" /\ request' = [request EXCEPT ![q] = NoOwnerRequest]
  BY DEF NothingToCheck, CheckFails, Conclude, Ends, Checking
<1>3. /\ executions' \in [Ids -> Seq(Outcome)] /\ RecordStays
      /\ request[q].n \in DOMAIN executions'[request[q].id] /\ executions'[request[q].id][request[q].n] = status
      /\ \A p \in OwnerRequests \ {q} : Checking(p) =>
            /\ request[p].n \in DOMAIN executions'[request[p].id]
            /\ executions'[request[p].id][request[p].n] = "running"
  BY <1>1, <1>2, ExecutionEnds
<1>4. /\ OnlyCloses
      /\ \A i \in DOMAIN incidents : incidents'[i].status = "resolved" =>
            \/ incidents[i].status = "resolved"
            \/ \E n \in DOMAIN executions'[i] : executions'[i][n] = "succeeded"
  <2>1. CASE UNCHANGED incidents
    BY <2>1, IncidentFacts DEF OnlyCloses
  <2>2. CASE Conclude(q) /\ WritesIncident(q, "resolved")
    <3>1. /\ OnlyCloses
          /\ \A i \in DOMAIN incidents : i # request[q].id => incidents'[i] = incidents[i]
      BY <1>2, <2>2, IncidentCloses DEF ClosedStatuses
    <3> QED
      BY <1>1, <1>3, <2>2, <3>1
  <2> QED
    BY <2>1, <2>2 DEF NothingToCheck, CheckFails, Conclude
<1> QED
  BY <1>2, <1>3, <1>4, IdleOwner, OwnerMoves

LEMMA IncidentsStep == IncidentInv /\ [RemediationNext]_remediationVars => IncidentInv'
<1> SUFFICES ASSUME IncidentInv, [RemediationNext]_remediationVars PROVE IncidentInv'
  OBVIOUS
<1>1. CASE UNCHANGED remediationVars \/ DeleteDeployment \/ \E i \in Ids : LapseProposal(i)
  <2>1. UNCHANGED <<incidents, executions, ingest, request, overlapped>>
    BY <1>1 DEF remediationVars, DeleteDeployment, LapseProposal
  <2> QED
    BY <2>1 DEF IncidentInv, IncidentTypes, OneSignalEach, OneAtATime, LookedWell, ExecutionsRun, Checking,
                OneOpenIncident, ResolvedWasChecked
<1>2. ASSUME NEW c \in Collectors, IngestSample(c) \/ LookForIncidents(c) \/ CommitIngest(c) PROVE IncidentInv'
  BY <1>2, PostsSample, PostLooks, PostCommits
<1>3. ASSUME NEW q \in OwnerRequests,
             (\E i \in DOMAIN incidents : AskRemediation(q, i)) \/ Answer(q) \/ AbandonRequest(q),
             UNCHANGED <<metrics, lapsed, ingest, deployed, overlapped>>
      PROVE  IncidentInv'
  BY <1>3, AskFits, DecideFits, CountFits, InsertFits, CheckEnds DEF Answer
<1> QED
  BY <1>1, <1>2, <1>3 DEF RemediationNext

LEMMA ClosedStay ==
    IncidentInv /\ [RemediationNext]_remediationVars =>
        \A i \in DOMAIN incidents : incidents[i].status \in ClosedStatuses => incidents'[i].status \in ClosedStatuses
<1> SUFFICES ASSUME IncidentInv, [RemediationNext]_remediationVars
             PROVE  \A i \in DOMAIN incidents :
                        incidents[i].status \in ClosedStatuses => incidents'[i].status \in ClosedStatuses
  OBVIOUS
<1>1. CASE UNCHANGED incidents
  BY <1>1
<1>2. CASE OnlyCloses
  BY <1>2 DEF OnlyCloses
<1>3. ASSUME NEW c \in Collectors, CommitIngest(c)
      PROVE  \A i \in DOMAIN incidents : incidents'[i].status = incidents[i].status
  BY <1>3, CommitAdds
<1>4. ASSUME NEW q \in OwnerRequests,
             (\E i \in DOMAIN incidents : AskRemediation(q, i)) \/ Answer(q) \/ AbandonRequest(q),
             UNCHANGED <<metrics, lapsed, ingest, deployed, overlapped>>
      PROVE  OnlyCloses
  BY <1>4, AskFits, DecideFits, CountFits, InsertFits, CheckEnds DEF Answer
<1>5. CASE RemediationNext
  <2>1. \/ UNCHANGED incidents
        \/ \E c \in Collectors : CommitIngest(c)
        \/ OnlyCloses
    BY <1>4, <1>5 DEF RemediationNext, IngestSample, LookForIncidents, LapseProposal, DeleteDeployment
  <2> QED
    BY <1>1, <1>2, <1>3, <2>1
<1> QED
  BY <1>1, <1>5 DEF remediationVars

\* One condition has one open incident as long as posts do not overlap, and an
\* incident is resolved by a check that passed, whatever requests do meanwhile.
THEOREM IncidentsHold == RemediationSpec => []IncidentsAreSound
<1>1. RemediationSpec => []IncidentInv
  BY IncidentsStart, IncidentsStep, PTL DEF RemediationSpec
<1>2. IncidentInv => IncidentsAreSound
  BY DEF IncidentInv, IncidentsAreSound
<1> QED
  BY <1>1, <1>2, PTL

\* No request and no sample opens a closed incident again.
THEOREM ClosedIsFinal == RemediationSpec => ClosedStaysClosed
<1>1. RemediationSpec => []IncidentInv
  BY IncidentsStart, IncidentsStep, PTL DEF RemediationSpec
<1>2. IncidentInv /\ [RemediationNext]_remediationVars =>
          [\A i \in DOMAIN incidents :
              incidents[i].status \in ClosedStatuses => incidents'[i].status \in ClosedStatuses]_remediationVars
  BY ClosedStay
<1> QED
  BY <1>1, <1>2, PTL DEF RemediationSpec, ClosedStaysClosed

-----------------------------------------------------------------------------
(* The connection to Azure.  A fingerprint is only ever one of settings that   *)
(* Azure confirmed.  As long as no request overlaps another and nothing fails  *)
(* twice, there is one live row, what a request loaded is what is there, and   *)
(* the vault holds what fits the row, or what will fit it after the commit.    *)

Row == [tenant : Tenants, client : Clients, live : BOOLEAN, fingerprint : [tenant : {0, 1, 2}, client : {0, 1, 2}]]

Asked == [kind : {"none", "connect", "upsert", "disconnect"}, at : {"idle", "load", "vault", "commit"},
          tenant : {0, 1, 2}, client : {0, 1, 2}, secret : {0, 1, 2}, row : Nat,
          loaded : Row \cup {NoRow}, new : Row \cup {NoRow}, previous : {0, 1, 2}, failures : {0, 1}]

Credential == [state : {"absent", "set", "deleted"}, value : {0, 1, 2}]

ConnectionTypes ==
    /\ connections \in Seq(Row)
    /\ credential \in Credential
    /\ credential.state = "set" <=> credential.value # NoSecret
    /\ asking \in [ConnectRequests -> Asked]

\* Any rows there are have a latest one.
HasLatest == \A S \in SUBSET (1 .. Len(connections)) : S # {} => \E m \in S : \A j \in S : j <= m

Genuine(row) == row.fingerprint = NoFingerprint \/ row.fingerprint \in validated

Loaded(q) == asking[q].at \in {"vault", "commit"}

RowsAreGenuine ==
    /\ \A i \in DOMAIN connections : Genuine(connections[i])
    /\ \A q \in ConnectRequests :
          /\ asking[q].kind \in {"connect", "upsert"} => asking[q].tenant \in Tenants
          /\ asking[q].kind = "none" => asking[q].at = "idle"
          /\ Genuine(asking[q].loaded) /\ Genuine(asking[q].new)
          /\ Loaded(q) /\ asking[q].row # 0 => asking[q].row \in DOMAIN connections /\ asking[q].loaded \in Row
          /\ Loaded(q) /\ asking[q].kind = "disconnect" => asking[q].row # 0
          /\ asking[q].at = "commit" => asking[q].new \in Row

GenuineInv == ConnectionTypes /\ HasLatest /\ RowsAreGenuine

Fits(row, state, secret) == HasVerifiedTarget(row) => state = "set" /\ Accepts(row, secret)
AllFit == \A i \in DOMAIN connections : Fits(connections[i], credential.state, credential.value)

\* What the request loaded is what is there.
UpToDate(q) ==
    /\ asking[q].row = 0 => \A i \in DOMAIN connections : ~connections[i].live
    /\ asking[q].row # 0 => /\ connections[asking[q].row] = asking[q].loaded
                            /\ \A i \in DOMAIN connections : connections[i].live => i = asking[q].row

\* Between the store of the secret and the commit of the row.
Between(q) ==
    IF asking[q].kind = "disconnect" THEN ~asking[q].new.live
    ELSE /\ credential.state = "set" /\ Accepts(asking[q].new, credential.value)
         /\ asking[q].failures = 0 =>
               \A i \in DOMAIN connections :
                   HasVerifiedTarget(connections[i]) =>
                       asking[q].previous # NoSecret /\ Accepts(connections[i], asking[q].previous)

FitInv ==
    excuses = {} =>
        /\ \A p, q \in ConnectRequests : ~Idle(p) /\ ~Idle(q) => p = q
        /\ \A i, j \in DOMAIN connections : connections[i].live /\ connections[j].live => i = j
        /\ (\A q \in ConnectRequests : asking[q].at # "commit") => AllFit
        /\ \A q \in ConnectRequests : Loaded(q) => UpToDate(q)
        /\ \A q \in ConnectRequests : asking[q].at = "commit" => Between(q)

LEMMA NobodyConnects == NoConnect \in Asked /\ NoConnect.kind = "none" /\ NoConnect.at = "idle"
                        /\ NoConnect.loaded = NoRow /\ NoConnect.new = NoRow /\ NoConnect.row = 0
BY DEF NoConnect, Asked, NoRow, NoSecret

LEMMA NoRowIsGenuine == Genuine(NoRow)
BY DEF Genuine, NoRow

LEMMA ConnectionFacts ==
    ASSUME GenuineInv
    PROVE  /\ connections \in Seq(Row) /\ DOMAIN connections = 1 .. Len(connections) /\ Len(connections) \in Nat
           /\ \A i \in DOMAIN connections : connections[i] \in Row /\ Genuine(connections[i])
           /\ credential \in Credential /\ (credential.state = "set" <=> credential.value # NoSecret)
           /\ asking \in [ConnectRequests -> Asked]
<1>1. connections \in Seq(Row)
  BY DEF GenuineInv, ConnectionTypes
<1>2. DOMAIN connections = 1 .. Len(connections) /\ \A i \in DOMAIN connections : connections[i] \in Row
  BY <1>1, SeqFacts
<1> QED
  BY <1>1, <1>2, SeqFacts DEF GenuineInv, ConnectionTypes, RowsAreGenuine

LEMMA LatestIsLive ==
    ASSUME GenuineInv
    PROVE  \/ ActiveConnection = 0 /\ \A i \in DOMAIN connections : ~connections[i].live
           \/ ActiveConnection \in DOMAIN connections /\ connections[ActiveConnection].live
<1>1. PICK live : live = {i \in DOMAIN connections : connections[i].live}
  OBVIOUS
<1>2. CASE live = {}
  BY <1>1, <1>2 DEF ActiveConnection
<1>3. CASE live # {}
  <2>1. live \in SUBSET (1 .. Len(connections))
    BY <1>1, ConnectionFacts
  <2>2. \E m \in live : \A j \in live : j <= m
    BY <1>3, <2>1 DEF GenuineInv, HasLatest
  <2>3. ActiveConnection = CHOOSE m \in live : \A j \in live : j <= m
    BY <1>1, <1>3 DEF ActiveConnection
  <2>4. ActiveConnection \in live
    BY <2>2, <2>3
  <2> QED
    BY <1>1, <2>4
<1> QED
  BY <1>2, <1>3

LEMMA MergedFacts ==
    ASSUME NEW row \in Row, NEW r \in Asked, r.new \in Row, r.loaded \in Row
    PROVE  /\ Merged(row, r) \in Row
           /\ Merged(row, r).fingerprint \in {row.fingerprint, r.new.fingerprint}
           /\ row = r.loaded => Merged(row, r) = r.new
<1>1. PICK m : m = Merged(row, r)
  OBVIOUS
<1>2. DOMAIN row = {"tenant", "client", "live", "fingerprint"}
  BY DEF Row
<1>3. /\ m = [f \in {"tenant", "client", "live", "fingerprint"} |-> IF r.new[f] # r.loaded[f] THEN r.new[f] ELSE row[f]]
  BY <1>1, <1>2 DEF Merged
<1>4. m = [tenant |-> m.tenant, client |-> m.client, live |-> m.live, fingerprint |-> m.fingerprint]
  BY <1>3
<1>5. /\ m.tenant \in {row.tenant, r.new.tenant}
      /\ m.client \in {row.client, r.new.client}
      /\ m.live \in {row.live, r.new.live}
      /\ m.fingerprint \in {row.fingerprint, r.new.fingerprint}
  BY <1>3
<1>6. m \in Row
  BY <1>4, <1>5 DEF Row
<1>7. ASSUME row = r.loaded PROVE m = r.new
  <2>1. /\ m.tenant = r.new.tenant /\ m.client = r.new.client /\ m.live = r.new.live
        /\ m.fingerprint = r.new.fingerprint
    BY <1>3, <1>7
  <2>2. r.new = [tenant |-> r.new.tenant, client |-> r.new.client, live |-> r.new.live, fingerprint |-> r.new.fingerprint]
    BY DEF Row
  <2> QED
    BY <1>4, <2>1, <2>2
<1> QED
  BY <1>1, <1>5, <1>6, <1>7

LEMMA RequestMoves ==
    ASSUME GenuineInv, NEW q \in ConnectRequests, NEW new \in Asked, Become(q, new)
    PROVE  /\ asking' \in [ConnectRequests -> Asked] /\ asking'[q] = new
           /\ \A p \in ConnectRequests \ {q} : asking'[p] = asking[p]
BY ConnectionFacts DEF Become

\* What every step that leaves the rows alone has to respect.
LEMMA StaysGenuine ==
    ASSUME GenuineInv, NEW q \in ConnectRequests, NEW new \in Asked, Become(q, new),
           UNCHANGED connections, validated \subseteq validated',
           credential' \in Credential, credential'.state = "set" <=> credential'.value # NoSecret,
           new.kind \in {"connect", "upsert"} => new.tenant \in Tenants,
           new.kind = "none" => new.at = "idle",
           Genuine(new.loaded)', Genuine(new.new)',
           new.at \in {"vault", "commit"} => /\ new.row # 0 => new.row \in DOMAIN connections /\ new.loaded \in Row
                                             /\ new.kind = "disconnect" => new.row # 0,
           new.at = "commit" => new.new \in Row
    PROVE  GenuineInv'
<1>1. /\ asking' \in [ConnectRequests -> Asked] /\ asking'[q] = new
      /\ \A p \in ConnectRequests \ {q} : asking'[p] = asking[p]
  BY RequestMoves
<1>2. ConnectionTypes' /\ HasLatest'
  BY <1>1 DEF GenuineInv, ConnectionTypes, HasLatest
<1>3. (\A i \in DOMAIN connections : Genuine(connections[i]))'
  BY DEF GenuineInv, RowsAreGenuine, Genuine
<1>4. ASSUME NEW p \in ConnectRequests
      PROVE  /\ asking'[p].kind \in {"connect", "upsert"} => asking'[p].tenant \in Tenants
             /\ asking'[p].kind = "none" => asking'[p].at = "idle"
             /\ Genuine(asking[p].loaded)' /\ Genuine(asking[p].new)'
             /\ Loaded(p)' /\ asking'[p].row # 0 => asking'[p].row \in DOMAIN connections' /\ asking'[p].loaded \in Row
             /\ Loaded(p)' /\ asking'[p].kind = "disconnect" => asking'[p].row # 0
             /\ asking'[p].at = "commit" => asking'[p].new \in Row
  <2>1. CASE p = q
    BY <1>1, <2>1 DEF Loaded, Genuine
  <2>2. CASE p # q
    BY <1>1, <2>2 DEF Loaded, Genuine, GenuineInv, RowsAreGenuine
  <2> QED
    BY <2>1, <2>2
<1>5. RowsAreGenuine'
  BY <1>3, <1>4 DEF RowsAreGenuine
<1> QED
  BY <1>2, <1>5 DEF GenuineInv

LEMMA RequestEnds ==
    ASSUME GenuineInv, NEW q \in ConnectRequests, Done(q), UNCHANGED connections, validated \subseteq validated',
           credential' \in Credential, credential'.state = "set" <=> credential'.value # NoSecret
    PROVE  GenuineInv'
<1>1. Genuine(NoRow)'
  BY DEF Genuine, NoRow
<1> QED
  BY <1>1, NobodyConnects, StaysGenuine DEF Done

LEMMA CredentialFacts ==
    ASSUME GenuineInv
    PROVE  /\ Readable \in {0, 1, 2} /\ (credential.state = "set" => Readable = credential.value)
           /\ \A s \in {1, 2} : Stored(s) => /\ credential' \in Credential /\ credential'.state = "set"
                                             /\ credential'.value = s /\ credential'.value # NoSecret
           /\ Deleted => /\ credential' \in Credential /\ credential'.state = "deleted" /\ credential'.value = NoSecret
           /\ UNCHANGED credential => /\ credential' \in Credential
                                      /\ credential'.state = "set" <=> credential'.value # NoSecret
BY ConnectionFacts, FallbackAssumption DEF Readable, Stored, Deleted, Credential, NoSecret

LEMMA AskIs ==
    ASSUME GenuineInv, NEW q \in ConnectRequests, AskConnection(q)
    PROVE  /\ UNCHANGED <<connections, credential>> /\ validated \subseteq validated'
           /\ \E new \in Asked : /\ Become(q, new) /\ new.at = "load" /\ new.loaded = NoRow /\ new.new = NoRow
                                 /\ new.kind # "none" /\ (new.kind # "disconnect" => new.tenant \in Tenants)
<1>1. CASE \E t \in Tenants, c \in Clients : Become(q, [NoConnect EXCEPT !.kind = "connect", !.at = "load",
                                                            !.tenant = t, !.client = c, !.secret = c])
  <2>1. PICK t \in Tenants, c \in Clients : Become(q, [NoConnect EXCEPT !.kind = "connect", !.at = "load",
                                                            !.tenant = t, !.client = c, !.secret = c])
    BY <1>1
  <2>2. PICK x : x = [NoConnect EXCEPT !.kind = "connect", !.at = "load", !.tenant = t, !.client = c, !.secret = c]
    OBVIOUS
  <2>3. /\ x \in Asked /\ x.at = "load" /\ x.kind = "connect" /\ x.tenant \in Tenants
        /\ x.loaded = NoRow /\ x.new = NoRow
    BY <2>2, NobodyConnects DEF NoConnect, Asked, Tenants, Clients
  <2> QED
    BY <2>1, <2>2, <2>3 DEF AskConnection
<1>2. CASE \E t \in Tenants, c \in Clients \cup {Omitted}, s \in Clients \cup {NoSecret} :
               Become(q, [NoConnect EXCEPT !.kind = "upsert", !.at = "load", !.tenant = t, !.client = c, !.secret = s])
  <2>1. PICK t \in Tenants, c \in Clients \cup {Omitted}, s \in Clients \cup {NoSecret} :
               Become(q, [NoConnect EXCEPT !.kind = "upsert", !.at = "load", !.tenant = t, !.client = c, !.secret = s])
    BY <1>2
  <2>2. PICK x : x = [NoConnect EXCEPT !.kind = "upsert", !.at = "load", !.tenant = t, !.client = c, !.secret = s]
    OBVIOUS
  <2>3. /\ x \in Asked /\ x.at = "load" /\ x.kind = "upsert" /\ x.tenant \in Tenants
        /\ x.loaded = NoRow /\ x.new = NoRow
    BY <2>2, NobodyConnects DEF NoConnect, Asked, Tenants, Clients, Omitted, NoSecret
  <2> QED
    BY <2>1, <2>2, <2>3 DEF AskConnection
<1>3. CASE Become(q, [NoConnect EXCEPT !.kind = "disconnect", !.at = "load"])
  <2>1. PICK x : x = [NoConnect EXCEPT !.kind = "disconnect", !.at = "load"]
    OBVIOUS
  <2>2. x \in Asked /\ x.at = "load" /\ x.kind = "disconnect" /\ x.loaded = NoRow /\ x.new = NoRow
    BY <2>1, NobodyConnects DEF NoConnect, Asked
  <2> QED
    BY <1>3, <2>1, <2>2 DEF AskConnection
<1> QED
  BY <1>1, <1>2, <1>3 DEF AskConnection

LEMMA AskGenuine ==
    ASSUME GenuineInv, NEW q \in ConnectRequests, AskConnection(q)
    PROVE  GenuineInv'
<1>1. PICK new \in Asked : /\ Become(q, new) /\ new.at = "load" /\ new.loaded = NoRow /\ new.new = NoRow
                           /\ new.kind # "none" /\ (new.kind # "disconnect" => new.tenant \in Tenants)
  BY AskIs
<1>2. UNCHANGED <<connections, credential>> /\ validated \subseteq validated'
  BY AskIs
<1>3. Genuine(NoRow)'
  BY DEF Genuine, NoRow
<1>4. credential' \in Credential /\ (credential'.state = "set" <=> credential'.value # NoSecret)
  BY <1>2, CredentialFacts
<1> QED
  BY <1>1, <1>2, <1>3, <1>4, StaysGenuine

LEMMA LoadGenuine ==
    ASSUME GenuineInv, NEW q \in ConnectRequests, LoadConnection(q)
    PROVE  GenuineInv'
<1>1. UNCHANGED <<connections, credential, validated>> /\ asking[q].at = "load" /\ asking[q] \in Asked
  BY ConnectionFacts DEF LoadConnection
<1>2. credential' \in Credential /\ (credential'.state = "set" <=> credential'.value # NoSecret)
  BY <1>1, CredentialFacts
<1>3. CASE Done(q)
  BY <1>1, <1>2, <1>3, RequestEnds
<1>4. CASE ~Done(q)
  <2>1. PICK loaded, new : /\ loaded = (IF ActiveConnection = 0 THEN NoRow ELSE connections[ActiveConnection])
                           /\ new = [asking[q] EXCEPT !.at = "vault", !.row = ActiveConnection, !.loaded = loaded]
    OBVIOUS
  <2>2. Become(q, new) /\ (asking[q].kind = "disconnect" => ActiveConnection # 0)
    BY <1>4, <2>1 DEF LoadConnection
  <2>3. /\ loaded \in Row \cup {NoRow} /\ Genuine(loaded) /\ ActiveConnection \in Nat
        /\ ActiveConnection # 0 => ActiveConnection \in DOMAIN connections /\ loaded \in Row
    BY <2>1, LatestIsLive, ConnectionFacts, NoRowIsGenuine
  <2>4. /\ new \in Asked /\ new.at = "vault" /\ new.kind = asking[q].kind /\ new.tenant = asking[q].tenant
        /\ new.row = ActiveConnection /\ new.loaded = loaded /\ new.new = asking[q].new
    BY <1>1, <2>1, <2>3 DEF Asked
  <2>5. Genuine(asking[q].new) /\ (asking[q].kind \in {"connect", "upsert"} => asking[q].tenant \in Tenants)
        /\ asking[q].kind # "none"
    BY <1>1 DEF GenuineInv, RowsAreGenuine
  <2>6. Genuine(new.loaded)' /\ Genuine(new.new)'
    BY <1>1, <2>3, <2>4, <2>5 DEF Genuine
  <2> QED
    BY <1>1, <1>2, <2>2, <2>3, <2>4, <2>5, <2>6, StaysGenuine
<1> QED
  BY <1>3, <1>4

LEMMA ConnectedIs ==
    ASSUME NEW r, NEW settings \in [tenant : Tenants, client : Clients]
    PROVE  /\ Connected(r, settings) \in Row
           /\ Connected(r, settings).fingerprint = settings
           /\ Connected(r, settings).client = settings.client
           /\ Connected(r, settings).live = TRUE
<1>1. PICK a, b : /\ a = [tenant |-> settings.tenant, client |-> settings.client, live |-> TRUE, fingerprint |-> NoFingerprint]
                  /\ b = [a EXCEPT !.fingerprint = Settings(a)]
  OBVIOUS
<1>2. Settings(a) = settings
  <2>1. Settings(a) = [tenant |-> settings.tenant, client |-> settings.client]
    BY <1>1 DEF Settings
  <2> QED
    BY <2>1
<1>3. b = [tenant |-> settings.tenant, client |-> settings.client, live |-> TRUE, fingerprint |-> settings]
  BY <1>1, <1>2
<1>4. settings \in [tenant : {0, 1, 2}, client : {0, 1, 2}]
  BY DEF Tenants, Clients
<1>5. b \in Row
  BY <1>3, <1>4 DEF Row
<1>6. Connected(r, settings) = b
  BY <1>1 DEF Connected, Fingerprinted
<1> QED
  BY <1>3, <1>5, <1>6

\* What a store that succeeds leaves behind.
Stores(q, previous, failed, secret, settings) ==
    /\ settings.client = secret /\ settings \in validated' /\ Stored(secret)
    /\ Become(q, [asking[q] EXCEPT !.at = "commit", !.new = Connected(asking[q], settings),
                                   !.previous = previous, !.failures = failed])
    /\ failed = 0 => previous = IF asking[q].row = 0 THEN NoSecret ELSE Readable

LEMMA StoreIs ==
    ASSUME GenuineInv, NEW q \in ConnectRequests, StoreCredential(q)
    PROVE  /\ UNCHANGED <<connections, asks>> /\ validated \subseteq validated'
           /\ asking[q].at = "vault" /\ asking[q].kind \in {"connect", "upsert"} /\ asking[q] \in Asked
           /\ \/ Done(q) /\ UNCHANGED <<credential, excuses>>
              \/ Done(q) /\ Excuse({"unanswered"}) /\ \E secret \in {1, 2} : Stored(secret)
              \/ UNCHANGED excuses /\ \E previous \in {0, 1, 2}, failed \in {0, 1}, secret \in {1, 2},
                    settings \in [tenant : Tenants, client : Clients] : Stores(q, previous, failed, secret, settings)
<1>1. PICK r : r = asking[q]
  OBVIOUS
<1>2. r \in Asked /\ r.at = "vault" /\ r.kind # "disconnect" /\ UNCHANGED <<connections, asks>>
  BY <1>1, ConnectionFacts DEF StoreCredential
<1>3. r.kind \in {"connect", "upsert"} /\ r.tenant \in Tenants
  BY <1>1, <1>2 DEF Asked, GenuineInv, RowsAreGenuine
<1>4. PICK readFails \in BOOLEAN :
          LET before == IF r.row = 0 THEN NoSecret ELSE IF readFails THEN FallbackSecret ELSE Readable
              f      == Effective(r, before)
          IN  IF Accepts(f.settings, f.secret)
              THEN /\ validated' = validated \cup {f.settings}
                   /\ \/ /\ Storable
                         /\ Stored(f.secret)
                         /\ Become(q, [r EXCEPT !.at = "commit", !.new = Connected(r, f.settings), !.previous = before,
                                                !.failures = IF readFails /\ r.row # 0 THEN 1 ELSE 0])
                         /\ UNCHANGED excuses
                      \/ Done(q) /\ UNCHANGED <<credential, excuses>>
                      \/ Done(q) /\ Storable /\ Stored(f.secret) /\ Excuse({"unanswered"})
              ELSE Done(q) /\ UNCHANGED <<credential, validated, excuses>>
  BY <1>1 DEF StoreCredential
<1>5. PICK previous, e, failed :
           /\ previous = (IF r.row = 0 THEN NoSecret ELSE IF readFails THEN FallbackSecret ELSE Readable)
           /\ e = Effective(r, previous)
           /\ failed = (IF readFails /\ r.row # 0 THEN 1 ELSE 0)
  OBVIOUS
<1>6. IF Accepts(e.settings, e.secret)
      THEN /\ validated' = validated \cup {e.settings}
           /\ \/ /\ Storable
                 /\ Stored(e.secret)
                 /\ Become(q, [r EXCEPT !.at = "commit", !.new = Connected(r, e.settings), !.previous = previous,
                                        !.failures = failed])
                 /\ UNCHANGED excuses
              \/ Done(q) /\ UNCHANGED <<credential, excuses>>
              \/ Done(q) /\ Storable /\ Stored(e.secret) /\ Excuse({"unanswered"})
      ELSE Done(q) /\ UNCHANGED <<credential, validated, excuses>>
  BY <1>4, <1>5
<1>7. CASE Done(q) /\ UNCHANGED <<credential, excuses>>
  BY <1>1, <1>2, <1>3, <1>6, <1>7
<1>8. CASE ~(Done(q) /\ UNCHANGED <<credential, excuses>>)
  <2>1. /\ Accepts(e.settings, e.secret) /\ validated' = validated \cup {e.settings} /\ Stored(e.secret)
        /\ \/ /\ Become(q, [r EXCEPT !.at = "commit", !.new = Connected(r, e.settings), !.previous = previous,
                                     !.failures = failed])
              /\ UNCHANGED excuses
           \/ Done(q) /\ Excuse({"unanswered"})
    BY <1>6, <1>8
  <2>2. previous \in {0, 1, 2} /\ failed \in {0, 1}
    BY <1>5, CredentialFacts, FallbackAssumption DEF NoSecret
  <2>3. failed = 0 => previous = IF r.row = 0 THEN NoSecret ELSE Readable
    BY <1>5
  <2>4. r.loaded.client \in {0, 1, 2} /\ r.client \in {0, 1, 2} /\ r.secret \in {0, 1, 2}
    BY <1>2 DEF Asked, Row, NoRow, Clients
  <2>5. PICK client, secret : /\ client = (IF r.client = Omitted THEN r.loaded.client ELSE r.client)
                              /\ secret = (IF r.secret = NoSecret THEN previous ELSE r.secret)
    OBVIOUS
  <2>6. e = [settings |-> [tenant |-> r.tenant, client |-> client], secret |-> secret]
    BY <1>5, <2>5 DEF Effective
  <2>7. secret \in {0, 1, 2} /\ client = secret /\ secret # 0
    BY <2>1, <2>2, <2>4, <2>5, <2>6 DEF Accepts, NoSecret
  <2>8. e.settings \in [tenant : Tenants, client : Clients] /\ e.settings.client = e.secret /\ e.secret \in {1, 2}
    BY <1>3, <2>6, <2>7 DEF Clients
  <2>9. CASE Done(q) /\ Excuse({"unanswered"})
    BY <1>1, <1>2, <1>3, <2>1, <2>8, <2>9
  <2>10. CASE ~(Done(q) /\ Excuse({"unanswered"}))
    BY <1>1, <1>2, <1>3, <2>1, <2>2, <2>3, <2>8, <2>10 DEF Stores
  <2> QED
    BY <2>9, <2>10
<1> QED
  BY <1>7, <1>8

LEMMA StoreGenuine ==
    ASSUME GenuineInv, NEW q \in ConnectRequests, StoreCredential(q)
    PROVE  GenuineInv'
<1>1. CASE Done(q) /\ (UNCHANGED credential \/ \E secret \in {1, 2} : Stored(secret))
  <2>1. credential' \in Credential /\ (credential'.state = "set" <=> credential'.value # NoSecret)
    BY <1>1, CredentialFacts
  <2> QED
    BY <1>1, <2>1, StoreIs, RequestEnds
<1>2. CASE ~(Done(q) /\ (UNCHANGED credential \/ \E secret \in {1, 2} : Stored(secret)))
  <2>1. PICK previous \in {0, 1, 2}, failed \in {0, 1}, secret \in {1, 2},
             settings \in [tenant : Tenants, client : Clients] : Stores(q, previous, failed, secret, settings)
    BY <1>2, StoreIs
  <2>2. PICK row, new : /\ row = Connected(asking[q], settings)
                        /\ new = [asking[q] EXCEPT !.at = "commit", !.new = row, !.previous = previous, !.failures = failed]
    OBVIOUS
  <2>3. row \in Row /\ row.fingerprint = settings
    BY <2>2, ConnectedIs
  <2>4. /\ new \in Asked /\ new.at = "commit" /\ new.kind = asking[q].kind /\ new.tenant = asking[q].tenant
        /\ new.row = asking[q].row /\ new.loaded = asking[q].loaded /\ new.new = row
    <3>1. asking[q] \in Asked
      BY StoreIs
    <3> QED
      BY <2>2, <2>3, <3>1 DEF Asked
  <2>5. /\ asking[q].tenant \in Tenants /\ Genuine(asking[q].loaded)
        /\ asking[q].row # 0 => asking[q].row \in DOMAIN connections /\ asking[q].loaded \in Row
    BY StoreIs DEF GenuineInv, RowsAreGenuine, Loaded
  <2>6. Genuine(new.loaded)' /\ Genuine(new.new)'
    BY <2>1, <2>3, <2>4, <2>5, StoreIs DEF Genuine, Stores
  <2>7. credential' \in Credential /\ (credential'.state = "set" <=> credential'.value # NoSecret)
    BY <2>1, CredentialFacts DEF Stores
  <2>8. UNCHANGED connections /\ validated \subseteq validated' /\ asking[q].kind \in {"connect", "upsert"}
    BY StoreIs
  <2>9. Become(q, new)
    BY <2>1, <2>2 DEF Stores
  <2> QED
    BY <2>3, <2>4, <2>5, <2>6, <2>7, <2>8, <2>9, StaysGenuine
<1> QED
  BY <1>1, <1>2

LEMMA DeleteIs ==
    ASSUME GenuineInv, NEW q \in ConnectRequests, DeleteCredential(q)
    PROVE  /\ UNCHANGED <<connections, asks, validated>> /\ asking[q] \in Asked
           /\ asking[q].at = "vault" /\ asking[q].kind = "disconnect"
           /\ asking[q].row \in DOMAIN connections /\ asking[q].loaded \in Row /\ asking[q].row # 0
           /\ \/ Done(q) /\ UNCHANGED <<credential, excuses>>
              \/ Done(q) /\ Excuse({"unanswered"}) /\ Deleted
              \/ Deleted /\ UNCHANGED excuses /\ \E previous \in {0, 1, 2}, row \in Row :
                    /\ row.fingerprint = NoFingerprint /\ ~row.live
                    /\ Become(q, [asking[q] EXCEPT !.at = "commit", !.previous = previous, !.new = row])
<1>1. asking[q] \in Asked /\ asking[q].at = "vault" /\ asking[q].kind = "disconnect"
  BY ConnectionFacts DEF DeleteCredential
<1>2. asking[q].row \in DOMAIN connections /\ asking[q].loaded \in Row /\ asking[q].row # 0
  BY <1>1 DEF GenuineInv, RowsAreGenuine, Loaded
<1>3. CASE ~(Done(q) /\ (UNCHANGED <<credential, excuses>> \/ (Excuse({"unanswered"}) /\ Deleted)))
  <2>1. PICK row : row = [asking[q].loaded EXCEPT !.live = FALSE, !.fingerprint = NoFingerprint]
    OBVIOUS
  <2>2. row \in Row /\ row.fingerprint = NoFingerprint /\ row.live = FALSE
    BY <1>2, <2>1 DEF Row, NoFingerprint
  <2>3. PICK r : r = asking[q]
    OBVIOUS
  <2>4. /\ Deleted /\ UNCHANGED excuses
        /\ \E previous \in {Readable, FallbackSecret} :
              Become(q, [r EXCEPT !.at = "commit", !.previous = previous,
                                  !.new = [r.loaded EXCEPT !.live = FALSE, !.fingerprint = NoFingerprint]])
    BY <1>3, <2>3, Zenon DEF DeleteCredential
  <2>5. PICK previous \in {Readable, FallbackSecret} :
            Become(q, [r EXCEPT !.at = "commit", !.previous = previous,
                                !.new = [r.loaded EXCEPT !.live = FALSE, !.fingerprint = NoFingerprint]])
    BY <2>4
  <2>6. [r EXCEPT !.at = "commit", !.previous = previous,
                  !.new = [r.loaded EXCEPT !.live = FALSE, !.fingerprint = NoFingerprint]]
            = [asking[q] EXCEPT !.at = "commit", !.previous = previous, !.new = row]
    BY <1>1, <2>1, <2>3 DEF Asked
  <2>7. previous \in {0, 1, 2}
    BY CredentialFacts, FallbackAssumption
  <2> QED
    BY <1>1, <1>2, <2>2, <2>4, <2>5, <2>6, <2>7 DEF DeleteCredential
<1> QED
  BY <1>1, <1>2, <1>3 DEF DeleteCredential

LEMMA DeleteGenuine ==
    ASSUME GenuineInv, NEW q \in ConnectRequests, DeleteCredential(q)
    PROVE  GenuineInv'
<1>1. CASE Done(q) /\ (UNCHANGED credential \/ Deleted)
  <2>1. credential' \in Credential /\ (credential'.state = "set" <=> credential'.value # NoSecret)
    BY <1>1, CredentialFacts DEF NoSecret
  <2> QED
    BY <1>1, <2>1, DeleteIs, RequestEnds
<1>2. CASE ~(Done(q) /\ (UNCHANGED credential \/ Deleted))
  <2>1. PICK previous \in {0, 1, 2}, row \in Row :
             /\ row.fingerprint = NoFingerprint /\ ~row.live
             /\ Become(q, [asking[q] EXCEPT !.at = "commit", !.previous = previous, !.new = row])
    BY <1>2, DeleteIs
  <2>2. PICK new : new = [asking[q] EXCEPT !.at = "commit", !.previous = previous, !.new = row]
    OBVIOUS
  <2>3. /\ new \in Asked /\ new.at = "commit" /\ new.kind = "disconnect" /\ new.row = asking[q].row
        /\ new.loaded = asking[q].loaded /\ new.new = row
    <3>1. asking[q] \in Asked /\ asking[q].kind = "disconnect"
      BY DeleteIs
    <3> QED
      BY <2>2, <3>1 DEF Asked
  <2>4. Genuine(asking[q].loaded)
    BY DEF GenuineInv, RowsAreGenuine
  <2>5. Genuine(new.loaded)' /\ Genuine(new.new)'
    <3>1. validated' = validated
      BY DeleteIs
    <3> QED
      BY <2>1, <2>3, <2>4, <3>1 DEF Genuine
  <2>6. credential' \in Credential /\ (credential'.state = "set" <=> credential'.value # NoSecret)
    BY <1>2, DeleteIs, CredentialFacts DEF NoSecret
  <2> QED
    BY <2>1, <2>2, <2>3, <2>5, <2>6, DeleteIs, StaysGenuine
<1> QED
  BY <1>1, <1>2

\* A commit writes the row that the request means, when the row is as it was loaded.
LEMMA SavedIs ==
    ASSUME GenuineInv, NEW q \in ConnectRequests, asking[q].at = "commit", Saved(asking[q])
    PROVE  /\ asking[q] \in Asked /\ asking[q].new \in Row
           /\ connections' \in Seq(Row)
           /\ \/ /\ asking[q].row = 0 /\ Len(connections') = Len(connections) + 1
                 /\ \A i \in DOMAIN connections : connections'[i] = connections[i]
                 /\ connections'[Len(connections) + 1] = asking[q].new
              \/ /\ asking[q].row \in DOMAIN connections /\ Len(connections') = Len(connections)
                 /\ asking[q].row # 0
                 /\ \A i \in DOMAIN connections \ {asking[q].row} : connections'[i] = connections[i]
                 /\ connections'[asking[q].row].fingerprint
                        \in {connections[asking[q].row].fingerprint, asking[q].new.fingerprint}
                 /\ connections[asking[q].row] = asking[q].loaded => connections'[asking[q].row] = asking[q].new
<1>1. PICK r : r = asking[q]
  OBVIOUS
<1>2. r.at = "commit" /\ r \in Asked
  BY <1>1, ConnectionFacts
<1>3. r.new \in Row /\ (r.row # 0 => r.row \in DOMAIN connections /\ r.loaded \in Row)
  BY <1>1, <1>2 DEF GenuineInv, RowsAreGenuine, Loaded
<1>4. connections \in Seq(Row) /\ DOMAIN connections = 1 .. Len(connections)
  BY ConnectionFacts
<1>5. CASE r.row = 0
  <2>1. connections' = Append(connections, r.new)
    BY <1>1, <1>5 DEF Saved
  <2>2. /\ connections' \in Seq(Row) /\ Len(connections') = Len(connections) + 1
        /\ \A i \in DOMAIN connections : connections'[i] = connections[i]
        /\ connections'[Len(connections) + 1] = r.new
    BY <1>3, <1>4, <2>1, AppendFacts
  <2> QED
    BY <1>1, <1>2, <1>3, <1>5, <2>2
<1>6. CASE r.row # 0
  <2>1. PICK row, new : row = connections[r.row] /\ new = Merged(row, r)
    OBVIOUS
  <2>2. row \in Row
    BY <1>3, <1>6, <2>1, ConnectionFacts
  <2>3. /\ new \in Row /\ new.fingerprint \in {row.fingerprint, r.new.fingerprint}
        /\ row = r.loaded => new = r.new
    BY <1>2, <1>3, <1>6, <2>1, <2>2, MergedFacts
  <2>4. connections' = [connections EXCEPT ![r.row] = new]
    BY <1>1, <1>6, <2>1 DEF Saved
  <2>5. /\ connections' \in Seq(Row) /\ Len(connections') = Len(connections) /\ connections'[r.row] = new
        /\ \A i \in DOMAIN connections : i # r.row => connections'[i] = connections[i]
    BY <1>3, <1>4, <1>6, <2>3, <2>4, ReplaceFacts
  <2> QED
    BY <1>1, <1>2, <1>3, <1>6, <2>1, <2>3, <2>5
<1> QED
  BY <1>5, <1>6

LEMMA LatestGrows ==
    ASSUME HasLatest, NEW n \in Nat, Len(connections) = n, Len(connections') \in {n, n + 1}
    PROVE  HasLatest'
<1>1. SUFFICES ASSUME NEW S \in SUBSET (1 .. Len(connections')), S # {} PROVE \E m \in S : \A j \in S : j <= m
  BY DEF HasLatest
<1>2. CASE n + 1 \in S
  BY <1>1, <1>2
<1>3. CASE n + 1 \notin S
  <2>1. S \in SUBSET (1 .. n)
    BY <1>1, <1>3
  <2> QED
    BY <1>1, <2>1 DEF HasLatest
<1> QED
  BY <1>2, <1>3

\* Whether the request learns of it or not.
LEMMA SavedGenuine ==
    ASSUME GenuineInv, NEW q \in ConnectRequests, asking[q].at = "commit", Saved(asking[q]), Done(q),
           UNCHANGED validated,
           credential' \in Credential, credential'.state = "set" <=> credential'.value # NoSecret
    PROVE  GenuineInv'
<1>1. /\ asking' \in [ConnectRequests -> Asked] /\ asking'[q] = NoConnect
      /\ \A p \in ConnectRequests \ {q} : asking'[p] = asking[p]
  BY NobodyConnects, RequestMoves DEF Done
<1>2. connections' \in Seq(Row)
  BY SavedIs
<1>3. DOMAIN connections' = 1 .. Len(connections') /\ Len(connections) \in Nat
      /\ DOMAIN connections = 1 .. Len(connections)
  BY <1>2, SeqFacts, ConnectionFacts
<1>4. Len(connections') \in {Len(connections), Len(connections) + 1}
  BY SavedIs
<1>5. /\ DOMAIN connections \subseteq DOMAIN connections'
      /\ \A i \in DOMAIN connections' : i \in DOMAIN connections \/ i = Len(connections) + 1
  <2>1. PICK n, m : n = Len(connections) /\ m = Len(connections')
    OBVIOUS
  <2>2. n \in Nat /\ m \in {n, n + 1}
    BY <1>3, <1>4, <2>1
  <2>3. DOMAIN connections = 1 .. n /\ DOMAIN connections' = 1 .. m
    BY <1>3, <2>1
  <2>4. 1 .. n \subseteq 1 .. m /\ \A i \in 1 .. m : i \in 1 .. n \/ i = n + 1
    BY <2>2
  <2> QED
    BY <2>1, <2>3, <2>4
<1>6. ConnectionTypes' /\ HasLatest'
  <2>1. HasLatest'
    BY <1>3, <1>4, LatestGrows DEF GenuineInv
  <2> QED
    BY <1>1, <1>2, <2>1 DEF GenuineInv, ConnectionTypes
<1>7. \A i \in DOMAIN connections : Genuine(connections[i])
  BY ConnectionFacts
<1>8. Genuine(asking[q].new)
  BY DEF GenuineInv, RowsAreGenuine
<1>9. ASSUME NEW i \in DOMAIN connections'
      PROVE  connections'[i].fingerprint = NoFingerprint \/ connections'[i].fingerprint \in validated
  <2>1. CASE asking[q].row = 0
    <3>1. i \in DOMAIN connections \/ i = Len(connections) + 1
      BY <1>5
    <3> QED
      BY <1>7, <1>8, <2>1, <3>1, SavedIs DEF Genuine
  <2>2. CASE asking[q].row # 0
    <3>1. i \in DOMAIN connections
      BY <1>3, <2>2, SavedIs
    <3>2. CASE i # asking[q].row
      BY <1>7, <2>2, <3>1, <3>2, SavedIs DEF Genuine
    <3>3. CASE i = asking[q].row
      <4>1. connections'[i].fingerprint \in {connections[i].fingerprint, asking[q].new.fingerprint}
        BY <2>2, <3>3, SavedIs
      <4> QED
        BY <1>7, <1>8, <3>1, <4>1 DEF Genuine
    <3> QED
      BY <3>2, <3>3
  <2> QED
    BY <2>1, <2>2
<1>10. RowsAreGenuine'
  <2>1. (\A i \in DOMAIN connections : Genuine(connections[i]))'
    BY <1>9 DEF Genuine
  <2>2. ASSUME NEW p \in ConnectRequests
        PROVE  /\ asking'[p].kind \in {"connect", "upsert"} => asking'[p].tenant \in Tenants
               /\ asking'[p].kind = "none" => asking'[p].at = "idle"
               /\ Genuine(asking[p].loaded)' /\ Genuine(asking[p].new)'
               /\ Loaded(p)' /\ asking'[p].row # 0 => asking'[p].row \in DOMAIN connections' /\ asking'[p].loaded \in Row
               /\ Loaded(p)' /\ asking'[p].kind = "disconnect" => asking'[p].row # 0
               /\ asking'[p].at = "commit" => asking'[p].new \in Row
    <3>1. CASE p = q
      BY <1>1, <3>1, NobodyConnects, NoRowIsGenuine DEF Loaded, Genuine, NoRow
    <3>2. CASE p # q
      BY <1>1, <1>5, <3>2 DEF Loaded, Genuine, GenuineInv, RowsAreGenuine
    <3> QED
      BY <3>1, <3>2
  <2> QED
    BY <2>1, <2>2 DEF RowsAreGenuine
<1> QED
  BY <1>6, <1>10 DEF GenuineInv

LEMMA CommitGenuine ==
    ASSUME GenuineInv, NEW q \in ConnectRequests, CommitConnection(q)
    PROVE  GenuineInv'
<1>1. UNCHANGED <<credential, validated>> /\ asking[q].at = "commit" /\ Saved(asking[q]) /\ Done(q)
  BY DEF CommitConnection
<1> QED
  BY <1>1, CredentialFacts, SavedGenuine

\* What the vault holds after a commit that failed.
LEMMA CompensatedIs ==
    ASSUME GenuineInv, NEW q \in ConnectRequests, CommitFails(q)
    PROVE  /\ asking[q].at = "commit" /\ asking[q] \in Asked /\ Done(q) /\ UNCHANGED <<asks, validated>>
           /\ credential' \in Credential /\ (credential'.state = "set" <=> credential'.value # NoSecret)
           /\ UNCHANGED connections \/ Saved(asking[q])
           /\ excuses' = {} => /\ excuses = {} /\ asking[q].kind # "disconnect" /\ asking[q].failures = 0
                               /\ UNCHANGED connections
                               /\ asking[q].previous # NoSecret /\ credential.state = "set" =>
                                     credential'.state = "set" /\ credential'.value = asking[q].previous
<1>1. PICK r : r = asking[q]
  OBVIOUS
<1>2. r.at = "commit" /\ r \in Asked /\ Done(q) /\ UNCHANGED <<asks, validated>>
  BY <1>1, ConnectionFacts DEF CommitFails
<1>3. r.previous \in {0, 1, 2} /\ r.failures \in {0, 1}
  BY <1>2 DEF Asked
<1>4. PICK unanswered \in BOOLEAN, compensated \in BOOLEAN :
          /\ IF unanswered THEN Saved(r) ELSE UNCHANGED connections
          /\ IF compensated THEN CompensateWrite(r) ELSE UNCHANGED credential
          /\ Excuse((IF unanswered THEN {"unanswered"} ELSE {})
                      \cup (IF r.kind = "disconnect" THEN {"disconnect"} ELSE {})
                      \cup (IF r.failures > 0 \/ ~compensated THEN {"failures"} ELSE {}))
  BY <1>1 DEF CommitFails
<1>5. excuses' = {} => excuses = {} /\ ~unanswered /\ r.kind # "disconnect" /\ r.failures = 0 /\ compensated
  BY <1>3, <1>4 DEF Excuse
<1>6. compensated /\ r.previous # NoSecret /\ credential.state = "set" =>
          credential'.state = "set" /\ credential'.value = r.previous
  BY <1>4 DEF CompensateWrite, Storable, Stored
<1>7. \/ UNCHANGED credential
      \/ Deleted
      \/ Stored(r.previous) /\ r.previous # NoSecret
  BY <1>4 DEF CompensateWrite
<1>8. credential' \in Credential /\ (credential'.state = "set" <=> credential'.value # NoSecret)
  BY <1>3, <1>7, CredentialFacts DEF NoSecret
<1> QED
  BY <1>1, <1>2, <1>4, <1>5, <1>6, <1>8

LEMMA GenuineStart == ConnectionsInit => GenuineInv
<1> SUFFICES ASSUME ConnectionsInit PROVE GenuineInv
  OBVIOUS
<1> USE DEF ConnectionsInit
<1>1. connections \in Seq(Row) /\ DOMAIN connections = {} /\ Len(connections) = 0
  OBVIOUS
<1>2. ConnectionTypes
  BY <1>1, NobodyConnects DEF ConnectionTypes, Credential, NoSecret
<1>3. HasLatest
  <2>1. 1 .. Len(connections) = {}
    BY <1>1
  <2> QED
    BY <2>1, Zenon DEF HasLatest
<1>4. RowsAreGenuine
  BY <1>1, NobodyConnects, NoRowIsGenuine DEF RowsAreGenuine, Loaded
<1> QED
  BY <1>2, <1>3, <1>4 DEF GenuineInv

LEMMA GenuineStep == GenuineInv /\ [ConnectionsNext]_connectionVars => GenuineInv'
<1> SUFFICES ASSUME GenuineInv, [ConnectionsNext]_connectionVars PROVE GenuineInv'
  OBVIOUS
<1>1. CASE UNCHANGED connectionVars \/ Purge
  <2>1. UNCHANGED <<connections, asking, validated>>
    BY <1>1 DEF connectionVars, Purge
  <2>2. credential' \in Credential /\ (credential'.state = "set" <=> credential'.value # NoSecret)
    BY <1>1, ConnectionFacts DEF connectionVars, Purge, Credential, NoSecret
  <2> QED
    BY <2>1, <2>2 DEF GenuineInv, ConnectionTypes, HasLatest, RowsAreGenuine, Genuine, Loaded
<1>2. ASSUME NEW q \in ConnectRequests, CommitFails(q) \/ ConnectionRequestDies(q) PROVE GenuineInv'
  <2>1. Done(q) /\ UNCHANGED validated
    BY <1>2 DEF CommitFails, ConnectionRequestDies
  <2>2. credential' \in Credential /\ (credential'.state = "set" <=> credential'.value # NoSecret)
    BY <1>2, CompensatedIs, CredentialFacts DEF ConnectionRequestDies
  <2>3. UNCHANGED connections \/ (asking[q].at = "commit" /\ Saved(asking[q]))
    BY <1>2, CompensatedIs DEF ConnectionRequestDies
  <2>4. CASE UNCHANGED connections
    BY <2>1, <2>2, <2>4, RequestEnds
  <2>5. CASE asking[q].at = "commit" /\ Saved(asking[q])
    BY <2>1, <2>2, <2>5, SavedGenuine
  <2> QED
    BY <2>3, <2>4, <2>5
<1> QED
  BY <1>1, <1>2, AskGenuine, LoadGenuine, StoreGenuine, DeleteGenuine, CommitGenuine DEF ConnectionsNext

-----------------------------------------------------------------------------
(* The secret and the row. *)

LEMMA NobodyElse ==
    ASSUME FitInv, excuses = {}, NEW q \in ConnectRequests, asking[q].at # "idle"
    PROVE  /\ \A p \in ConnectRequests \ {q} : asking[p].at = "idle"
           /\ asking[q].at # "commit" => AllFit
           /\ asking[q].at \in {"vault", "commit"} => UpToDate(q)
           /\ asking[q].at = "commit" => Between(q)
           /\ \A i, j \in DOMAIN connections : connections[i].live /\ connections[j].live => i = j
<1>1. \A p \in ConnectRequests \ {q} : asking[p].at = "idle"
  BY DEF FitInv, Idle
<1>2. asking[q].at # "commit" => \A p \in ConnectRequests : asking[p].at # "commit"
  BY <1>1
<1> QED
  BY <1>1, <1>2 DEF FitInv, Loaded

LEMMA FitMoves ==
    ASSUME GenuineInv, FitInv, excuses = {}, NEW q \in ConnectRequests, NEW new \in Asked, Become(q, new),
           UNCHANGED connections, \A p \in ConnectRequests \ {q} : asking[p].at = "idle",
           new.at # "commit" => AllFit',
           new.at \in {"vault", "commit"} => UpToDate(q)',
           new.at = "commit" => Between(q)'
    PROVE  FitInv'
<1>1. /\ asking'[q] = new
      /\ \A p \in ConnectRequests : p # q => asking'[p].at = "idle"
  BY RequestMoves
<1>2. \A p \in ConnectRequests : asking'[p].at # "idle" => p = q
  BY <1>1
<1>3. \A i, j \in DOMAIN connections' : connections'[i].live /\ connections'[j].live => i = j
  BY DEF FitInv
<1>4. (\A p \in ConnectRequests : asking[p].at # "commit")' => AllFit'
  BY <1>1
<1>5. ASSUME NEW p \in ConnectRequests, Loaded(p)' PROVE UpToDate(p)'
  <2>1. p = q
    BY <1>1, <1>5 DEF Loaded
  <2> QED
    BY <1>1, <1>5, <2>1 DEF Loaded
<1>6. ASSUME NEW p \in ConnectRequests, asking'[p].at = "commit" PROVE Between(p)'
  <2>1. p = q
    BY <1>1, <1>6
  <2> QED
    BY <1>1, <1>6, <2>1
<1> QED
  BY <1>2, <1>3, <1>4, <1>5, <1>6 DEF FitInv, Idle

LEMMA FitAsks ==
    ASSUME GenuineInv, FitInv, NEW q \in ConnectRequests, excuses' = {},
           AskConnection(q) \/ LoadConnection(q)
    PROVE  FitInv'
<1>1. CASE AskConnection(q)
  <2>1. excuses = {} /\ \A p \in ConnectRequests : asking[p].at = "idle"
    BY <1>1 DEF AskConnection, Excuse, Overlap, Idle
  <2>2. PICK new \in Asked : Become(q, new) /\ new.at = "load"
    BY <1>1, AskIs
  <2>3. UNCHANGED <<connections, credential>>
    BY <1>1, AskIs
  <2>4. AllFit'
    BY <2>1, <2>3 DEF FitInv, AllFit
  <2> QED
    BY <2>1, <2>2, <2>3, <2>4, FitMoves
<1>2. CASE LoadConnection(q)
  <2>1. excuses = {} /\ asking[q].at = "load" /\ UNCHANGED <<connections, credential>>
    BY <1>2 DEF LoadConnection
  <2>2. /\ AllFit /\ \A p \in ConnectRequests \ {q} : asking[p].at = "idle"
        /\ \A i, j \in DOMAIN connections : connections[i].live /\ connections[j].live => i = j
    BY <2>1, NobodyElse
  <2>3. AllFit'
    BY <2>1, <2>2 DEF AllFit
  <2>4. CASE Done(q)
    BY <2>1, <2>2, <2>3, <2>4, NobodyConnects, FitMoves DEF Done
  <2>5. CASE ~Done(q)
    <3>1. PICK loaded, new : /\ loaded = (IF ActiveConnection = 0 THEN NoRow ELSE connections[ActiveConnection])
                             /\ new = [asking[q] EXCEPT !.at = "vault", !.row = ActiveConnection, !.loaded = loaded]
      OBVIOUS
    <3>2. Become(q, new)
      BY <1>2, <2>5, <3>1 DEF LoadConnection
    <3>3. loaded \in Row \cup {NoRow} /\ ActiveConnection \in Nat /\ asking[q] \in Asked
      BY <3>1, LatestIsLive, ConnectionFacts
    <3>4. new \in Asked /\ new.at = "vault" /\ new.row = ActiveConnection /\ new.loaded = loaded
      BY <3>1, <3>3 DEF Asked
    <3>5. asking'[q] = new
      BY <3>2, <3>4, RequestMoves
    <3>6. /\ ActiveConnection = 0 => \A i \in DOMAIN connections : ~connections[i].live
          /\ ActiveConnection # 0 => /\ connections[ActiveConnection] = loaded
                                     /\ \A i \in DOMAIN connections : connections[i].live => i = ActiveConnection
      BY <2>2, <3>1, LatestIsLive, ConnectionFacts
    <3>7. UpToDate(q)'
      BY <2>1, <3>4, <3>5, <3>6 DEF UpToDate
    <3> QED
      BY <2>1, <2>2, <2>3, <3>2, <3>4, <3>7, FitMoves
  <2> QED
    BY <2>4, <2>5
<1> QED
  BY <1>1, <1>2

LEMMA FitStores ==
    ASSUME GenuineInv, FitInv, NEW q \in ConnectRequests, excuses' = {}, StoreCredential(q)
    PROVE  FitInv'
<1>1. /\ excuses = {} /\ UNCHANGED excuses /\ asking[q].at = "vault" /\ asking[q].kind # "disconnect" /\ UNCHANGED connections
      /\ asking[q] \in Asked
  BY StoreIs DEF Excuse
<1>2. AllFit /\ UpToDate(q) /\ \A p \in ConnectRequests \ {q} : asking[p].at = "idle"
  BY <1>1, NobodyElse
<1>3. CASE Done(q) /\ UNCHANGED credential
  <2>1. AllFit'
    BY <1>1, <1>2, <1>3 DEF AllFit
  <2> QED
    BY <1>1, <1>2, <1>3, <2>1, NobodyConnects, FitMoves DEF Done
<1>4. CASE ~(Done(q) /\ UNCHANGED credential)
  <2>1. PICK previous \in {0, 1, 2}, failed \in {0, 1}, secret \in {1, 2},
             settings \in [tenant : Tenants, client : Clients] : Stores(q, previous, failed, secret, settings)
    BY <1>1, <1>4, StoreIs DEF Excuse
  <2>2. PICK row, new : /\ row = Connected(asking[q], settings)
                        /\ new = [asking[q] EXCEPT !.at = "commit", !.new = row, !.previous = previous, !.failures = failed]
    OBVIOUS
  <2>3. row \in Row /\ row.client = secret
    BY <2>1, <2>2, ConnectedIs DEF Stores
  <2>4. /\ new \in Asked /\ new.at = "commit" /\ new.kind = asking[q].kind /\ new.row = asking[q].row
        /\ new.loaded = asking[q].loaded /\ new.new = row /\ new.previous = previous /\ new.failures = failed
    BY <1>1, <2>2, <2>3 DEF Asked
  <2>5. Become(q, new) /\ asking'[q] = new
    <3>1. Become(q, new)
      BY <2>1, <2>2 DEF Stores
    <3> QED
      BY <2>4, <3>1, RequestMoves
  <2>6. UpToDate(q)'
    BY <1>1, <1>2, <2>4, <2>5 DEF UpToDate
  <2>7. credential'.state = "set" /\ credential'.value = secret
    BY <2>1, CredentialFacts DEF Stores
  <2>8. Accepts(row, secret)
    BY <2>3 DEF Accepts, NoSecret
  <2>9. ASSUME failed = 0, NEW i \in DOMAIN connections, HasVerifiedTarget(connections[i])
        PROVE  previous # NoSecret /\ Accepts(connections[i], previous)
    <3>1. credential.state = "set" /\ Accepts(connections[i], credential.value)
      BY <1>2, <2>9 DEF AllFit, Fits
    <3>2. asking[q].row # 0
      BY <1>2, <2>9 DEF UpToDate, HasVerifiedTarget
    <3>3. previous = credential.value
      BY <2>1, <2>9, <3>1, <3>2, CredentialFacts DEF Stores
    <3> QED
      BY <3>1, <3>3 DEF Accepts
  <2>10. Between(q)'
    BY <1>1, <2>4, <2>5, <2>7, <2>8, <2>9 DEF Between
  <2> QED
    BY <1>1, <1>2, <2>4, <2>5, <2>6, <2>10, FitMoves DEF Stores
<1> QED
  BY <1>3, <1>4

LEMMA FitDeletes ==
    ASSUME GenuineInv, FitInv, NEW q \in ConnectRequests, excuses' = {}, DeleteCredential(q)
    PROVE  FitInv'
<1>1. /\ excuses = {} /\ UNCHANGED excuses /\ asking[q].at = "vault" /\ asking[q].kind = "disconnect" /\ UNCHANGED connections
      /\ asking[q] \in Asked
  BY DeleteIs DEF Excuse
<1>2. AllFit /\ UpToDate(q) /\ \A p \in ConnectRequests \ {q} : asking[p].at = "idle"
  BY <1>1, NobodyElse
<1>3. CASE Done(q) /\ UNCHANGED credential
  <2>1. AllFit'
    BY <1>1, <1>2, <1>3 DEF AllFit
  <2> QED
    BY <1>1, <1>2, <1>3, <2>1, NobodyConnects, FitMoves DEF Done
<1>4. CASE ~(Done(q) /\ UNCHANGED credential)
  <2>1. PICK previous \in {0, 1, 2}, row \in Row :
             ~row.live /\ Become(q, [asking[q] EXCEPT !.at = "commit", !.previous = previous, !.new = row])
    BY <1>1, <1>4, DeleteIs DEF Excuse
  <2>2. PICK new : new = [asking[q] EXCEPT !.at = "commit", !.previous = previous, !.new = row]
    OBVIOUS
  <2>3. /\ new \in Asked /\ new.at = "commit" /\ new.kind = "disconnect" /\ new.row = asking[q].row
        /\ new.loaded = asking[q].loaded /\ new.new = row
    BY <1>1, <2>2 DEF Asked
  <2>4. Become(q, new) /\ asking'[q] = new
    <3>1. Become(q, new)
      BY <2>1, <2>2
    <3> QED
      BY <2>3, <3>1, RequestMoves
  <2>5. UpToDate(q)'
    BY <1>1, <1>2, <2>3, <2>4 DEF UpToDate
  <2>6. Between(q)'
    BY <2>1, <2>3, <2>4 DEF Between
  <2> QED
    BY <1>1, <1>2, <2>3, <2>4, <2>5, <2>6, FitMoves
<1> QED
  BY <1>3, <1>4

LEMMA FitCommits ==
    ASSUME GenuineInv, FitInv, NEW q \in ConnectRequests, excuses' = {}, CommitConnection(q)
    PROVE  FitInv'
<1>1. excuses = {} /\ asking[q].at = "commit" /\ UNCHANGED credential /\ Done(q) /\ Saved(asking[q])
  BY DEF CommitConnection
<1>2. /\ UpToDate(q) /\ Between(q) /\ \A p \in ConnectRequests \ {q} : asking[p].at = "idle"
      /\ \A i, j \in DOMAIN connections : connections[i].live /\ connections[j].live => i = j
  BY <1>1, NobodyElse
<1>3. \A p \in ConnectRequests : asking'[p].at = "idle"
  BY <1>1, <1>2, NobodyConnects, RequestMoves DEF Done
<1>4. PICK k, new : k = (IF asking[q].row = 0 THEN Len(connections) + 1 ELSE asking[q].row) /\ new = asking[q].new
  OBVIOUS
<1>5. /\ connections'[k] = new
      /\ \A i \in DOMAIN connections' : i # k => ~connections'[i].live
  <2>1. DOMAIN connections = 1 .. Len(connections) /\ DOMAIN connections' = 1 .. Len(connections')
        /\ Len(connections) \in Nat
    BY <1>1, ConnectionFacts, SavedIs, SeqFacts
  <2>2. CASE asking[q].row = 0
    <3>1. /\ connections'[k] = new /\ Len(connections') = Len(connections) + 1 /\ k = Len(connections) + 1
          /\ \A i \in DOMAIN connections : connections'[i] = connections[i] /\ ~connections[i].live
      BY <1>1, <1>2, <1>4, <2>2, SavedIs DEF UpToDate
    <3> QED
      BY <2>1, <3>1
  <2>3. CASE asking[q].row # 0
    <3>1. /\ connections'[k] = new /\ Len(connections') = Len(connections)
          /\ \A i \in DOMAIN connections : i # k => connections'[i] = connections[i] /\ ~connections[i].live
      BY <1>1, <1>2, <1>4, <2>3, SavedIs DEF UpToDate
    <3> QED
      BY <2>1, <3>1
  <2> QED
    BY <2>2, <2>3
<1>6. Fits(new, credential.state, credential.value)
  BY <1>2, <1>4 DEF Fits, Between, HasVerifiedTarget
<1>7. AllFit'
  <2>1. ASSUME NEW i \in DOMAIN connections' PROVE Fits(connections'[i], credential.state, credential.value)
    <3>1. CASE i = k
      BY <1>5, <1>6, <3>1
    <3>2. CASE i # k
      BY <1>5, <2>1, <3>2 DEF Fits, HasVerifiedTarget
    <3> QED
      BY <3>1, <3>2
  <2> QED
    BY <1>1, <2>1 DEF AllFit, Fits, HasVerifiedTarget, Accepts
<1>8. \A i, j \in DOMAIN connections' : connections'[i].live /\ connections'[j].live => i = j
  BY <1>5
<1> QED
  BY <1>3, <1>7, <1>8 DEF FitInv, Idle, Loaded

LEMMA FitCompensates ==
    ASSUME GenuineInv, FitInv, NEW q \in ConnectRequests, excuses' = {}, CommitFails(q)
    PROVE  FitInv'
<1>1. /\ excuses = {} /\ asking[q].at = "commit" /\ asking[q].kind # "disconnect" /\ asking[q].failures = 0
      /\ Done(q) /\ UNCHANGED connections
      /\ asking[q].previous # NoSecret /\ credential.state = "set" =>
            credential'.state = "set" /\ credential'.value = asking[q].previous
  BY CompensatedIs
<1>2. Between(q) /\ \A p \in ConnectRequests \ {q} : asking[p].at = "idle"
  BY <1>1, NobodyElse
<1>3. credential.state = "set"
  BY <1>1, <1>2 DEF Between
<1>4. ASSUME NEW i \in DOMAIN connections, HasVerifiedTarget(connections[i])
      PROVE  credential'.state = "set" /\ Accepts(connections[i], credential'.value)
  BY <1>1, <1>2, <1>3, <1>4 DEF Between
<1>5. AllFit'
  BY <1>1, <1>4 DEF AllFit, Fits, HasVerifiedTarget, Accepts
<1> QED
  BY <1>1, <1>2, <1>5, NobodyConnects, FitMoves DEF Done

LEMMA FitStart == ConnectionsInit => FitInv
<1> SUFFICES ASSUME ConnectionsInit PROVE FitInv
  OBVIOUS
<1>1. DOMAIN connections = {} /\ \A q \in ConnectRequests : asking[q].at = "idle"
  BY NobodyConnects DEF ConnectionsInit
<1> QED
  BY <1>1 DEF FitInv, Idle, Loaded, AllFit

LEMMA FitStep == GenuineInv /\ FitInv /\ [ConnectionsNext]_connectionVars => FitInv'
<1> SUFFICES ASSUME GenuineInv, FitInv, [ConnectionsNext]_connectionVars PROVE FitInv'
  OBVIOUS
<1> SUFFICES ASSUME excuses' = {} PROVE FitInv'
  BY DEF FitInv
<1>1. CASE UNCHANGED connectionVars
  BY <1>1 DEF connectionVars, FitInv, Idle, Loaded, AllFit, Fits, UpToDate, Between, HasVerifiedTarget, Accepts
<1>2. CASE Purge
  <2>1. credential.state = "deleted" /\ UNCHANGED <<connections, asking, excuses>>
    BY <1>2 DEF Purge
  <2>2. (\A q \in ConnectRequests : asking[q].at # "commit") =>
            \A i \in DOMAIN connections : ~HasVerifiedTarget(connections[i])
    BY <2>1 DEF FitInv, AllFit, Fits
  <2>3. \A q \in ConnectRequests : asking[q].at = "commit" => asking[q].kind = "disconnect" /\ ~asking[q].new.live
    BY <2>1 DEF FitInv, Between
  <2>4. (\A q \in ConnectRequests : asking'[q].at # "commit") => AllFit'
    BY <2>1, <2>2 DEF AllFit, Fits, HasVerifiedTarget
  <2>5. \A q \in ConnectRequests : asking'[q].at = "commit" => Between(q)'
    BY <2>1, <2>3 DEF Between
  <2>6. \A q \in ConnectRequests : Loaded(q)' => UpToDate(q)'
    BY <2>1 DEF FitInv, Loaded, UpToDate
  <2> QED
    BY <2>1, <2>4, <2>5, <2>6 DEF FitInv, Idle
<1>3. ASSUME NEW q \in ConnectRequests PROVE ~ConnectionRequestDies(q)
  BY DEF ConnectionRequestDies, Excuse
<1> QED
  BY <1>1, <1>2, <1>3, FitAsks, FitStores, FitDeletes, FitCommits, FitCompensates DEF ConnectionsNext

LEMMA ConnectionIsUsable == GenuineInv /\ FitInv => VerifiedIsUsable
<1> SUFFICES ASSUME GenuineInv, FitInv PROVE VerifiedIsUsable
  OBVIOUS
<1>1. VerifiedWasValidated
  <2>1. SUFFICES ASSUME NEW i \in DOMAIN connections, HasVerifiedTarget(connections[i])
                 PROVE  Settings(connections[i]) \in validated
    BY DEF VerifiedWasValidated
  <2>2. connections[i] \in Row /\ Genuine(connections[i]) /\ connections[i].fingerprint = Settings(connections[i])
    BY <2>1, ConnectionFacts DEF HasVerifiedTarget
  <2>3. connections[i].tenant # 0
    BY <2>2 DEF Row, Tenants
  <2>4. Settings(connections[i]) # NoFingerprint
    BY <2>3 DEF Settings, NoFingerprint
  <2> QED
    BY <2>2, <2>4 DEF Genuine
<1>2. CredentialFits
  <2>1. SUFFICES ASSUME excuses = {}, \A q \in ConnectRequests : Idle(q),
                        NEW i \in DOMAIN connections, HasVerifiedTarget(connections[i])
                 PROVE  credential.state = "set" /\ Accepts(connections[i], credential.value)
    BY DEF CredentialFits
  <2>2. AllFit
    BY <2>1 DEF FitInv, Idle
  <2> QED
    BY <2>1, <2>2 DEF AllFit, Fits
<1> QED
  BY <1>1, <1>2 DEF VerifiedIsUsable

-----------------------------------------------------------------------------
(* All records together, as the run checks them. *)

LEMMA RecordsStart == RecordsInit => MemberInv /\ IncidentInv /\ GenuineInv /\ FitInv
BY MembersStart, IncidentsStart, GenuineStart, FitStart DEF RecordsInit

LEMMA RecordsMove ==
    [RecordsNext]_recordVars =>
        [Next]_vars /\ [RemediationNext]_remediationVars /\ [ConnectionsNext]_connectionVars
BY Zenon DEF RecordsNext, recordVars

\* Members, incidents and the connection of a workspace: what requests that overlap
\* leave behind has an owner, one open incident for a condition, and a target that
\* counts as verified only when Azure confirmed it and the secret fits.
THEOREM RecordsHold == RecordsSpec => [](MembershipIsSound /\ IncidentsAreSound /\ VerifiedIsUsable)
<1>1. RecordsSpec => [](MemberInv /\ IncidentInv /\ GenuineInv /\ FitInv)
  BY RecordsStart, RecordsMove, MembersStep, IncidentsStep, GenuineStep, FitStep, PTL DEF RecordsSpec
<1>2. MemberInv => MembershipIsSound
  BY DEF MemberInv, MemberSound, RowsFit, MembershipIsSound
<1>3. IncidentInv => IncidentsAreSound
  BY DEF IncidentInv, IncidentsAreSound
<1> QED
  BY <1>1, <1>2, <1>3, ConnectionIsUsable, PTL

\* No request, no sample and nothing else in the workspace opens a closed incident again.
THEOREM ClosedIsFinalInRecords == RecordsSpec => ClosedStaysClosed
<1>1. RecordsSpec => []IncidentInv
  BY RecordsStart, RecordsMove, IncidentsStep, PTL DEF RecordsSpec
<1>2. IncidentInv /\ [RecordsNext]_recordVars =>
          [\A i \in DOMAIN incidents :
              incidents[i].status \in ClosedStatuses => incidents'[i].status \in ClosedStatuses]_remediationVars
  BY RecordsMove, ClosedStay
<1> QED
  BY <1>1, <1>2, PTL DEF RecordsSpec, ClosedStaysClosed
=============================================================================
