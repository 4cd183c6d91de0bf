------------------------ MODULE ReleaseControlProofs ------------------------
(***************************************************************************)
(* Proofs about ReleaseControl: for any number of requests, deliveries,    *)
(* commits, releases and configurations, a pushed commit and an approval   *)
(* are released once, and under an approval mode the web app runs what was *)
(* validated and then approved.                                            *)
(***************************************************************************)
EXTENDS ReleaseControl, FiniteSetTheorems, TLAPS

-----------------------------------------------------------------------------
(* The inductive invariant. *)

RequestTypes ==
    /\ req \in [Requests -> [kind : Kinds \cup {"none"}, on : (0 .. MaxReleases) \cup Deliveries,
                             commit : Commits, config : Versions, revision : Versions]]
    /\ \A q \in Requests : req[q].kind = "push" => req[q].on \in Deliveries

\* Requests that may still create a release have their place.
RoomIsReserved == IsFiniteSet(Creating) /\ Len(releases) + Cardinality(Creating) <= MaxReleases

Deciding(q) == req[q].kind \in {"approve", "reject"}

\* The locked release still waits for the decision, with what the request has read.
DecisionsAreOpen ==
    \A q \in Requests :
       /\ Deciding(q) \/ req[q].kind \in {"delete", "forget"} => req[q].on \in Known
       /\ Deciding(q) => releases[req[q].on].status = "waiting" /\ releases[req[q].on].decision = "pending"
       /\ req[q].kind = "approve" =>
             /\ req[q].commit = releases[req[q].on].commit
             /\ req[q].config = releases[req[q].on].config
             /\ req[q].revision = releases[req[q].on].revision

ConfigurationsExist == \A i \in Known : releases[i].config \in 1 .. Len(configs)

OneEach == \A i, j \in Known :
    /\ releases[i].origin = "push" /\ releases[j].origin = "push" /\ releases[i].commit = releases[j].commit => i = j
    /\ releases[i].origin = "approval" /\ releases[j].origin = "approval" /\ releases[i].of = releases[j].of => i = j

\* An approval's release repeats the release that was approved, which stays as it was.
Repeats(i, v) ==
    /\ releases[i].origin = "approval" /\ releases[i].of = v
    /\ releases[v].status = "waiting" /\ releases[v].decision = "consumed"
    /\ releases[v].commit = releases[i].commit
    /\ releases[v].config = releases[i].config
    /\ releases[v].revision = releases[i].revision

ApprovalsRepeat == \A i \in Known : releases[i].origin = "approval" => \E v \in Known : Repeats(i, v)

ConsumedIsReleased == \A v \in Known : releases[v].decision = "consumed" => \E i \in Known : Repeats(i, v)

\* Only an approval's release gets past the gate of an approval mode.
GateIsPassed ==
    \A i \in Known :
        /\ Mode(i) = "require_approval"
        /\ releases[i].status \in {"deploying", "verifying", "running"} \/ app = i
        => releases[i].origin = "approval"

Sound ==
    /\ RequestTypes /\ RoomIsReserved /\ DecisionsAreOpen /\ ConfigurationsExist
    /\ OneEach /\ ApprovalsRepeat /\ ConsumedIsReleased /\ GateIsPassed

IInv == TypeOK /\ Sound

-----------------------------------------------------------------------------
(* Operators. *)

LEMMA ReleaseFields ==
    ASSUME NEW r \in Release
    PROVE  /\ r.status \in Statuses /\ r.origin \in Origins /\ r.of \in 0 .. MaxReleases
           /\ r.commit \in Commits /\ r.config \in Versions /\ r.revision \in Versions
           /\ r.decision \in {"not_required", "pending", "approved", "consumed", "rejected"}
BY DEF Release

\* A release is added at the end of a list, or one of the list is replaced.
LEMMA AppendFacts ==
    ASSUME NEW s \in Seq(Release), NEW r \in Release
    PROVE  /\ Append(s, r) \in Seq(Release) /\ Len(Append(s, r)) = Len(s) + 1
           /\ DOMAIN s = 1 .. Len(s) /\ DOMAIN Append(s, r) = 1 .. Len(s) + 1
           /\ \A i \in 1 .. Len(s) : Append(s, r)[i] = s[i]
           /\ Append(s, r)[Len(s) + 1] = r
OBVIOUS

LEMMA ReplaceFacts ==
    ASSUME NEW s \in Seq(Release), NEW k \in 1 .. Len(s), NEW r \in Release
    PROVE  /\ [s EXCEPT ![k] = r] \in Seq(Release) /\ Len([s EXCEPT ![k] = r]) = Len(s)
           /\ DOMAIN s = 1 .. Len(s) /\ DOMAIN [s EXCEPT ![k] = r] = 1 .. Len(s)
           /\ [s EXCEPT ![k] = r][k] = r
           /\ \A i \in 1 .. Len(s) : i # k => [s EXCEPT ![k] = r][i] = s[i]
OBVIOUS

LEMMA KnownIs ==
    ASSUME TypeOK
    PROVE  Known = 1 .. Len(releases) /\ Len(releases) \in Nat /\ \A i \in Known : releases[i] \in Release
BY DEF TypeOK, Known

\* What a new release takes over from the request.
LEMMA NewReleaseFields ==
    ASSUME NEW q \in Requests, NEW origin \in Origins, NEW of \in 0 .. MaxReleases, NEW commit \in Commits,
           RequestTypes
    PROVE  LET r == NewRelease(q, origin, of, commit) IN
           /\ r \in Release
           /\ r.status = "queued" /\ r.origin = origin /\ r.of = of /\ r.commit = commit
           /\ r.config = req[q].config /\ r.revision = req[q].revision
           /\ r.decision \in {"not_required", "pending", "approved"}
<1>1. PICK d : d = (IF origin = "approval" THEN "approved"
                    ELSE IF configs[req[q].config].mode = "require_approval" THEN "pending" ELSE "not_required")
  OBVIOUS
<1>2. d \in {"not_required", "pending", "approved"}
  BY <1>1
<1>3. NewRelease(q, origin, of, commit) =
        [status |-> "queued", origin |-> origin, of |-> of, commit |-> commit,
         config |-> req[q].config, revision |-> req[q].revision, decision |-> d]
  BY <1>1 DEF NewRelease
<1>4. req[q].config \in Versions /\ req[q].revision \in Versions
  BY DEF RequestTypes
<1>5. "queued" \in Statuses
  BY DEF Statuses
<1>6. NewRelease(q, origin, of, commit) \in Release
  BY <1>2, <1>3, <1>4, <1>5 DEF Release
<1> QED
  BY <1>2, <1>3, <1>6

LEMMA NoRequestType ==
    /\ NoRequest \in [kind : Kinds \cup {"none"}, on : (0 .. MaxReleases) \cup Deliveries,
                      commit : Commits, config : Versions, revision : Versions]
    /\ NoRequest.kind = "none" /\ NoRequest.config = 1
BY BoundsAssumption DEF NoRequest, Commits, Versions, Kinds

-----------------------------------------------------------------------------
LEMMA InitIInv == Init => IInv
<1> SUFFICES ASSUME Init PROVE IInv
  OBVIOUS
<1>1. PICK c \in Configurations : configs = <<c>>
  BY DEF Init
<1>2. Len(configs) = 1 /\ configs \in Seq(Configurations) /\ 1 \in Versions
  BY <1>1, BoundsAssumption DEF Versions
<1>3. releases = <<>> /\ Known = {} /\ Len(releases) = 0 /\ deleted = {} /\ app = 0 /\ handled = {}
  BY DEF Init, Known
<1>4. \A q \in Requests : req[q] = NoRequest
  BY DEF Init
<1>5. TypeOK
  <2>1. head \in Commits /\ carries \in [Deliveries -> 0 .. MaxCommits]
    BY BoundsAssumption DEF Init, Commits
  <2>2. plan \in [revision : Versions, status : {"draft", "approved"}]
    BY <1>2 DEF Init
  <2>3. releases \in Seq(Release) /\ 0 <= MaxReleases /\ 0 \in 0 .. 0
    BY <1>3, BoundsAssumption
  <2>4. ASSUME NEW q \in Requests
        PROVE  /\ req[q].commit \in Commits /\ req[q].config \in 1 .. Len(configs)
               /\ req[q].kind \notin {"approve", "reject"}
    BY <1>2, <1>4, NoRequestType
  <2> QED
    BY <1>2, <1>3, <1>4, <2>1, <2>2, <2>3, <2>4 DEF TypeOK
<1>6. RequestTypes
  BY <1>4, NoRequestType DEF RequestTypes, Init
<1>7. RoomIsReserved
  <2>1. Creating = {}
    BY <1>4, NoRequestType DEF Creating
  <2> QED
    BY <1>3, <2>1, FS_EmptySet, BoundsAssumption DEF RoomIsReserved
<1>8. DecisionsAreOpen
  BY <1>4, NoRequestType DEF DecisionsAreOpen, Deciding
<1>9. ConfigurationsExist /\ OneEach /\ ApprovalsRepeat /\ ConsumedIsReleased /\ GateIsPassed
  BY <1>3 DEF ConfigurationsExist, OneEach, ApprovalsRepeat, ConsumedIsReleased, GateIsPassed
<1> QED
  BY <1>5, <1>6, <1>7, <1>8, <1>9 DEF IInv, Sound

-----------------------------------------------------------------------------
(* What a step does. *)

\* A worker moves a release; past the gate of an approval mode only with evidence.
LEMMA WorkStep ==
    ASSUME NEW i \in Known, Work(i)
    PROVE  \E from \in Active, to \in Statuses :
              /\ Move(i, from, to)
              /\ to \in {"deploying", "verifying", "running"} =>
                    \/ from \in {"deploying", "verifying"}
                    \/ Mode(i) = "require_approval" => releases[i].origin = "approval"
              /\ app' = app \/ (app' = i /\ from = "deploying")
<1>1. CASE Validate(i) \/ AwaitApproval(i)
  <2>1. \E to \in {"validated", "waiting"} : Move(i, "queued", to) /\ UNCHANGED app
    BY <1>1 DEF Validate, AwaitApproval
  <2> QED
    BY <2>1 DEF Active, Statuses
<1>2. CASE PassGate(i)
  <2>1. Move(i, "queued", "deploying") /\ UNCHANGED app
    BY <1>2 DEF PassGate
  <2>2. Mode(i) = "require_approval" => releases[i].origin = "approval"
    BY <1>2 DEF PassGate, EvidenceHolds
  <2> QED
    BY <2>1, <2>2 DEF Active, Statuses
<1>3. CASE RollOut(i)
  BY <1>3 DEF RollOut, Active, Statuses
<1>4. CASE Verify(i)
  BY <1>4 DEF Verify, Active, Statuses
<1>5. CASE Fail(i)
  BY <1>5 DEF Fail, Active, Statuses
<1> QED
  BY <1>1, <1>2, <1>3, <1>4, <1>5 DEF Work

\* A step that no release is changed by.
Steady ==
    \/ Configure \/ EditPlan \/ ApprovePlan \/ UNCHANGED vars
    \/ \E d \in Deliveries : Push(d) \/ IgnorePush(d)
    \/ \E q \in Requests : OpenDeploy(q) \/ BlockPush(q) \/ TearDown(q) \/ Forget(q) \/ Abandon(q)
    \/ \E q \in Requests : \E d \in Deliveries : OpenPush(q, d)
    \/ \E q \in Requests : \E i \in Known : OpenApprove(q, i) \/ OpenReject(q, i) \/ OpenDelete(q, i)

LEMMA SteadyKeeps == Steady => UNCHANGED releases
BY DEF Steady, Configure, EditPlan, ApprovePlan, vars, Push, IgnorePush, OpenDeploy, BlockPush, TearDown, Forget,
       Abandon, OpenPush, OpenApprove, OpenReject, OpenDelete, Open

LEMMA Steps ==
    ASSUME [Next]_vars
    PROVE  \/ Steady
           \/ \E q \in Requests : CommitDeploy(q)
           \/ \E q \in Requests : CommitPush(q)
           \/ \E q \in Requests : CommitApprove(q)
           \/ \E q \in Requests : CommitReject(q)
           \/ \E i \in Known : Work(i)
<1>1. CASE \E q \in Requests : Owner(q) \/ Webhook(q)
  BY <1>1 DEF Steady, Owner, Webhook
<1>2. CASE \/ Configure \/ EditPlan \/ ApprovePlan \/ UNCHANGED vars
           \/ \E d \in Deliveries : Push(d) \/ IgnorePush(d)
  BY <1>2 DEF Steady
<1> QED
  BY <1>1, <1>2 DEF Next

\* The place of a request that may still create a release.
LEMMA PlaceIsThere ==
    ASSUME IInv, NEW q \in Creating
    PROVE  Len(releases) + 1 <= MaxReleases
<1>1. IsFiniteSet(Creating) /\ Len(releases) + Cardinality(Creating) <= MaxReleases /\ Len(releases) \in Nat
  BY KnownIs DEF IInv, Sound, RoomIsReserved
<1>2. Cardinality(Creating) \in Nat /\ Cardinality(Creating) # 0
  BY <1>1, FS_CardinalityType, FS_EmptySet
<1> QED
  BY <1>1, <1>2, BoundsAssumption

\* What never changes of a release.
Same(r, s) == r.origin = s.origin /\ r.of = s.of /\ r.commit = s.commit /\ r.config = s.config /\ r.revision = s.revision

\* A release is added that no approval asked for.
LEMMA DeployStep ==
    ASSUME IInv, NEW q \in Requests, CommitDeploy(q) \/ CommitPush(q)
    PROVE  LET n == Len(releases) + 1 IN
           /\ n \in Nat /\ n <= MaxReleases /\ n \notin Known
           /\ releases' \in Seq(Release) /\ Len(releases') = n /\ Known' = Known \cup {n}
           /\ \A i \in Known : releases'[i] = releases[i]
           /\ releases'[n].status = "queued" /\ releases'[n].origin # "approval"
           /\ releases'[n].decision # "consumed" /\ releases'[n].config = req[q].config
           /\ releases'[n].origin = "push" => PushedRuns(releases'[n].commit) = {}
           /\ Close(q) /\ UNCHANGED <<head, carries, configs, plan, deleted, app>>
<1> DEFINE n == Len(releases) + 1
<1>0. /\ TypeOK /\ RequestTypes /\ Known = 1 .. Len(releases) /\ Len(releases) \in Nat
      /\ releases \in Seq(Release)
  BY KnownIs DEF IInv, Sound, TypeOK
<1>1. q \in Creating
  BY DEF Creating, CommitDeploy, CommitPush
<1>2. n \in Nat /\ n <= MaxReleases /\ n \notin Known
  BY <1>0, <1>1, PlaceIsThere
<1>3. PICK origin \in {"manual", "push"} :
         /\ releases' = Append(releases, NewRelease(q, origin, 0, req[q].commit))
         /\ origin = "push" => PushedRuns(req[q].commit) = {}
  BY DEF CommitDeploy, CommitPush, KeyIsFree
<1>4. PICK r : r = NewRelease(q, origin, 0, req[q].commit)
  OBVIOUS
<1>5. /\ r \in Release /\ r.status = "queued" /\ r.origin = origin /\ r.commit = req[q].commit
      /\ r.config = req[q].config /\ r.decision \in {"not_required", "pending", "approved"}
  <2>1. req[q].commit \in Commits /\ origin \in Origins /\ 0 \in 0 .. MaxReleases
    BY <1>0, BoundsAssumption DEF RequestTypes, Origins
  <2> QED
    BY <1>0, <1>4, <2>1, NewReleaseFields
<1>6. releases' = Append(releases, r)
  BY <1>3, <1>4
<1>7. /\ releases' \in Seq(Release) /\ Len(releases') = n
      /\ DOMAIN releases' = 1 .. n
      /\ \A i \in 1 .. Len(releases) : releases'[i] = releases[i]
      /\ releases'[n] = r
  BY <1>0, <1>5, <1>6, AppendFacts
<1>8. Known' = Known \cup {n}
  BY <1>0, <1>7 DEF Known
<1>9. Close(q) /\ UNCHANGED <<head, carries, configs, plan, deleted, app>>
  BY DEF CommitDeploy, CommitPush
<1> QED
  BY <1>0, <1>2, <1>3, <1>5, <1>7, <1>8, <1>9

\* An approval is consumed, and a release is added that repeats what was approved.
LEMMA ApproveStep ==
    ASSUME IInv, NEW q \in Requests, CommitApprove(q)
    PROVE  LET n == Len(releases) + 1
               v == req[q].on
           IN
           /\ n \in Nat /\ n <= MaxReleases /\ n \notin Known
           /\ v \in Known /\ releases[v].decision = "pending" /\ releases[v].status = "waiting"
           /\ releases' \in Seq(Release) /\ Len(releases') = n /\ Known' = Known \cup {n}
           /\ \A i \in Known : i # v => releases'[i] = releases[i]
           /\ Same(releases'[v], releases[v]) /\ releases'[v].status = "waiting" /\ releases'[v].decision = "consumed"
           /\ releases'[n].status = "queued" /\ releases'[n].origin = "approval" /\ releases'[n].of = v
           /\ releases'[n].decision # "consumed" /\ releases'[n].config = req[q].config
           /\ releases'[n].commit = releases[v].commit /\ releases'[n].config = releases[v].config
           /\ releases'[n].revision = releases[v].revision
           /\ Close(q) /\ UNCHANGED <<head, carries, configs, plan, deleted, app>>
<1> DEFINE n == Len(releases) + 1
           v == req[q].on
<1>0. /\ TypeOK /\ RequestTypes /\ Known = 1 .. Len(releases) /\ Len(releases) \in Nat
      /\ releases \in Seq(Release) /\ req[q].kind = "approve"
      /\ \A i \in Known : releases[i] \in Release
  BY KnownIs DEF IInv, Sound, TypeOK, CommitApprove
<1>1. q \in Creating
  BY <1>0 DEF Creating
<1>2. n \in Nat /\ n <= MaxReleases /\ n \notin Known
  BY <1>0, <1>1, PlaceIsThere
<1>3. /\ v \in Known /\ releases[v].decision = "pending" /\ releases[v].status = "waiting"
      /\ req[q].config = releases[v].config /\ req[q].revision = releases[v].revision
  BY <1>0 DEF IInv, Sound, DecisionsAreOpen, Deciding
<1>4. PICK r : r = NewRelease(q, "approval", v, releases[v].commit)
  OBVIOUS
<1>5. /\ r \in Release /\ r.status = "queued" /\ r.origin = "approval" /\ r.of = v /\ r.commit = releases[v].commit
      /\ r.config = req[q].config /\ r.revision = req[q].revision
      /\ r.decision \in {"not_required", "pending", "approved"}
  <2>1. releases[v].commit \in Commits /\ "approval" \in Origins /\ v \in 0 .. MaxReleases
    BY <1>0, <1>2, <1>3, ReleaseFields, BoundsAssumption DEF Origins
  <2> HIDE DEF v
  <2> QED
    BY <1>0, <1>4, <2>1, NewReleaseFields
<1>6. PICK w : w = [releases[v] EXCEPT !.decision = "consumed"]
  OBVIOUS
<1>7. w \in Release /\ Same(w, releases[v]) /\ w.status = "waiting" /\ w.decision = "consumed"
  BY <1>0, <1>3, <1>6 DEF Release, Same
<1>8. PICK s : s = [releases EXCEPT ![v] = w]
  OBVIOUS
<1>9. releases' = Append(s, r)
  BY <1>4, <1>6, <1>8 DEF CommitApprove
<1> HIDE DEF v
<1>10. /\ s \in Seq(Release) /\ Len(s) = Len(releases) /\ s[v] = w
       /\ \A i \in Known : i # v => s[i] = releases[i]
  BY <1>0, <1>3, <1>7, <1>8, ReplaceFacts
<1>11. /\ releases' \in Seq(Release) /\ Len(releases') = n
       /\ DOMAIN releases' = 1 .. n
       /\ \A i \in 1 .. Len(releases) : releases'[i] = s[i]
       /\ releases'[n] = r
  BY <1>0, <1>5, <1>9, <1>10, AppendFacts
<1>12. Known' = Known \cup {n}
  BY <1>0, <1>11 DEF Known
<1>13. Close(q) /\ UNCHANGED <<head, carries, configs, plan, deleted, app>>
  BY DEF CommitApprove
<1>14. releases'[v] = w /\ \A i \in Known : i # v => releases'[i] = releases[i]
  BY <1>0, <1>3, <1>10, <1>11
<1> QED
  BY <1>2, <1>3, <1>5, <1>7, <1>11, <1>12, <1>13, <1>14 DEF v

LEMMA RejectStep ==
    ASSUME IInv, NEW q \in Requests, CommitReject(q)
    PROVE  LET v == req[q].on IN
           /\ v \in Known /\ releases[v].decision = "pending" /\ releases[v].status = "waiting"
           /\ releases' \in Seq(Release) /\ Len(releases') = Len(releases) /\ Known' = Known
           /\ \A i \in Known : i # v => releases'[i] = releases[i]
           /\ Same(releases'[v], releases[v]) /\ releases'[v].status = "rejected" /\ releases'[v].decision = "rejected"
           /\ Close(q) /\ UNCHANGED <<head, carries, configs, plan, deleted, app>>
<1> DEFINE v == req[q].on
<1>0. /\ Known = 1 .. Len(releases) /\ releases \in Seq(Release) /\ req[q].kind = "reject"
      /\ \A i \in Known : releases[i] \in Release
  BY KnownIs DEF IInv, TypeOK, CommitReject
<1>1. v \in Known /\ releases[v].decision = "pending" /\ releases[v].status = "waiting"
  BY <1>0 DEF IInv, Sound, DecisionsAreOpen, Deciding
<1>2. PICK w : w = [releases[v] EXCEPT !.status = "rejected", !.decision = "rejected"]
  OBVIOUS
<1>3. w \in Release /\ Same(w, releases[v]) /\ w.status = "rejected" /\ w.decision = "rejected"
  BY <1>0, <1>1, <1>2 DEF Release, Same, Statuses
<1>4. releases' = [releases EXCEPT ![v] = w]
  BY <1>0, <1>1, <1>2 DEF CommitReject
<1> HIDE DEF v
<1>5. /\ releases' \in Seq(Release) /\ Len(releases') = Len(releases)
      /\ DOMAIN releases' = 1 .. Len(releases) /\ releases'[v] = w
      /\ \A i \in Known : i # v => releases'[i] = releases[i]
  BY <1>0, <1>1, <1>3, <1>4, ReplaceFacts
<1>6. Known' = Known
  BY <1>0, <1>5 DEF Known
<1>7. Close(q) /\ UNCHANGED <<head, carries, configs, plan, deleted, app>>
  BY DEF CommitReject
<1> QED
  BY <1>1, <1>3, <1>5, <1>6, <1>7 DEF v

LEMMA MoveStep ==
    ASSUME IInv, NEW v \in Known, NEW from \in Active, NEW to \in Statuses, Move(v, from, to)
    PROVE  /\ releases[v].status = from
           /\ releases' \in Seq(Release) /\ Len(releases') = Len(releases) /\ Known' = Known
           /\ \A i \in Known : i # v => releases'[i] = releases[i]
           /\ Same(releases'[v], releases[v]) /\ releases'[v].status = to
           /\ releases'[v].decision = releases[v].decision
           /\ UNCHANGED <<head, carries, handled, configs, plan, deleted, req>>
<1>0. /\ Known = 1 .. Len(releases) /\ releases \in Seq(Release)
      /\ \A i \in Known : releases[i] \in Release
  BY KnownIs DEF IInv, TypeOK
<1>1. PICK w : w = [releases[v] EXCEPT !.status = to]
  OBVIOUS
<1>2. w \in Release /\ Same(w, releases[v]) /\ w.status = to /\ w.decision = releases[v].decision
  BY <1>0, <1>1 DEF Release, Same
<1>3. releases' = [releases EXCEPT ![v] = w]
  BY <1>1 DEF Move
<1>4. /\ releases' \in Seq(Release) /\ Len(releases') = Len(releases)
      /\ DOMAIN releases' = 1 .. Len(releases) /\ releases'[v] = w
      /\ \A i \in Known : i # v => releases'[i] = releases[i]
  BY <1>0, <1>2, <1>3, ReplaceFacts
<1>5. Known' = Known
  BY <1>0, <1>4 DEF Known
<1> QED
  BY <1>2, <1>4, <1>5 DEF Move

\* What a request has read when it is opened.
Opens(q) ==
    \E kind \in Kinds, on \in (0 .. MaxReleases) \cup Deliveries, commit \in Commits :
       /\ Open(q, kind, on, commit)
       /\ kind # "forget"
       /\ kind = "push" => on \in Deliveries
       /\ kind \in {"push", "deploy", "approve"} => RoomForOne
       /\ kind \in {"approve", "reject", "delete"} => on \in Known
       /\ kind \in {"approve", "reject"} => Decidable(on) /\ ~Locked(on)
       /\ kind = "approve" =>
             /\ commit = releases[on].commit /\ releases[on].config = Len(configs)
             /\ releases[on].revision = plan.revision

LEMMA RequestStep ==
    ASSUME IInv, [Next]_vars
    PROVE  \/ UNCHANGED req
           \/ \E q \in Requests : Opens(q)
           \/ \E q \in Requests : req[q] # NoRequest /\ Close(q) /\ UNCHANGED <<configs, plan>>
           \/ \E q \in Requests : TearDown(q)
<1>0. /\ TypeOK /\ \A i \in Known : releases[i] \in Release /\ i \in 0 .. MaxReleases
      /\ \A i \in Known : releases[i].commit \in Commits
      /\ 0 \in 0 .. MaxReleases
  BY KnownIs, ReleaseFields, BoundsAssumption DEF IInv, TypeOK
<1>1. ASSUME NEW q \in Requests, OpenDeploy(q) PROVE Opens(q)
  <2>1. Open(q, "deploy", 0, head) /\ RoomForOne /\ head \in Commits /\ "deploy" \in Kinds
    BY <1>0, <1>1 DEF OpenDeploy, TypeOK, Kinds
  <2> QED
    BY <1>0, <2>1 DEF Opens
<1>2. ASSUME NEW q \in Requests, NEW d \in Deliveries, OpenPush(q, d) PROVE Opens(q)
  <2>1. Open(q, "push", d, carries[d]) /\ RoomForOne /\ carries[d] \in Commits /\ "push" \in Kinds
    BY <1>0, <1>2, BoundsAssumption DEF OpenPush, TypeOK, Kinds, Commits
  <2> QED
    BY <2>1 DEF Opens
<1>3. ASSUME NEW q \in Requests, NEW i \in Known, OpenApprove(q, i) PROVE Opens(q)
  <2>1. /\ Open(q, "approve", i, releases[i].commit) /\ RoomForOne /\ Decidable(i) /\ ~Locked(i) /\ "approve" \in Kinds
        /\ releases[i].config = Len(configs) /\ releases[i].revision = plan.revision
    BY <1>3 DEF OpenApprove, Kinds
  <2> QED
    BY <1>0, <2>1 DEF Opens
<1>4. ASSUME NEW q \in Requests, NEW i \in Known, OpenReject(q, i) PROVE Opens(q)
  <2>1. Open(q, "reject", i, releases[i].commit) /\ Decidable(i) /\ ~Locked(i) /\ "reject" \in Kinds
    BY <1>4 DEF OpenReject, Kinds
  <2> QED
    BY <1>0, <2>1 DEF Opens
<1>5. ASSUME NEW q \in Requests, NEW i \in Known, OpenDelete(q, i) PROVE Opens(q)
  <2>1. Open(q, "delete", i, releases[i].commit) /\ "delete" \in Kinds
    BY <1>5 DEF OpenDelete, Kinds
  <2> QED
    BY <1>0, <2>1 DEF Opens
<1>6. ASSUME NEW q \in Requests, BlockPush(q) \/ Forget(q) \/ Abandon(q)
      PROVE  req[q] # NoRequest /\ Close(q) /\ UNCHANGED <<configs, plan>>
  BY <1>6, NoRequestType DEF BlockPush, Forget, Abandon
<1>7. ASSUME NEW q \in Requests, CommitDeploy(q) \/ CommitPush(q) \/ CommitApprove(q) \/ CommitReject(q)
      PROVE  req[q] # NoRequest /\ Close(q) /\ UNCHANGED <<configs, plan>>
  BY <1>7, NoRequestType DEF CommitDeploy, CommitPush, CommitApprove, CommitReject
<1>8. CASE Configure \/ EditPlan \/ ApprovePlan \/ UNCHANGED vars
  BY <1>8 DEF Configure, EditPlan, ApprovePlan, vars
<1>9. CASE \E d \in Deliveries : Push(d) \/ IgnorePush(d)
  BY <1>9 DEF Push, IgnorePush
<1>10. ASSUME NEW i \in Known, Work(i) PROVE UNCHANGED req
  BY <1>10, WorkStep DEF Move
<1>11. CASE Steady
  BY <1>1, <1>2, <1>3, <1>4, <1>5, <1>6, <1>8, <1>9, <1>11 DEF Steady
<1> QED
  BY <1>7, <1>10, <1>11, Steps

\* Deliveries, configurations and the plan.
LEMMA InputTypes ==
    ASSUME IInv, [Next]_vars
    PROVE  /\ head' \in Commits /\ carries' \in [Deliveries -> 0 .. MaxCommits] /\ handled' \subseteq Deliveries
           /\ configs' \in Seq(Configurations) /\ Len(configs') \in Versions /\ Len(configs') >= Len(configs)
           /\ \A c \in 1 .. Len(configs) : configs'[c] = configs[c]
           /\ plan' \in [revision : Versions, status : {"draft", "approved"}]
<1> DEFINE Good ==
           /\ head' \in Commits /\ carries' \in [Deliveries -> 0 .. MaxCommits] /\ handled' \subseteq Deliveries
           /\ configs' \in Seq(Configurations) /\ Len(configs') \in Versions /\ Len(configs') >= Len(configs)
           /\ \A c \in 1 .. Len(configs) : configs'[c] = configs[c]
           /\ plan' \in [revision : Versions, status : {"draft", "approved"}]
<1>0. /\ head \in Commits /\ carries \in [Deliveries -> 0 .. MaxCommits] /\ handled \subseteq Deliveries
      /\ configs \in Seq(Configurations) /\ Len(configs) \in Versions /\ Len(configs) \in Nat /\ Len(configs) >= 1
      /\ plan \in [revision : Versions, status : {"draft", "approved"}]
      /\ plan.revision \in Nat /\ plan.revision >= 1
      /\ \A q \in Requests : req[q].kind = "push" => req[q].on \in Deliveries
  BY BoundsAssumption DEF IInv, Sound, TypeOK, RequestTypes, Versions
<1>1. CASE UNCHANGED <<head, carries, handled, configs, plan>>
  BY <1>0, <1>1
<1>2. ASSUME NEW d \in Deliveries, handled' = handled \cup {d}, UNCHANGED <<head, carries, configs, plan>> PROVE Good
  BY <1>0, <1>2
<1>3. ASSUME NEW d \in Deliveries, Push(d) PROVE Good
  <2>1. /\ head' \in Commits /\ carries' = [carries EXCEPT ![d] = head'] /\ UNCHANGED <<handled, configs, plan>>
    BY <1>3 DEF Push
  <2>2. carries' \in [Deliveries -> 0 .. MaxCommits]
    BY <1>0, <2>1, BoundsAssumption DEF Commits
  <2> QED
    BY <1>0, <2>1, <2>2
<1>4. CASE Configure
  <2>1. PICK c \in Configurations : configs' = Append(configs, c)
    BY <1>4 DEF Configure
  <2>2. Len(configs) + 1 \in Versions
    BY <1>0, <1>4, BoundsAssumption DEF Configure, MayChange, Versions
  <2>3. configs' \in Seq(Configurations) /\ Len(configs') = Len(configs) + 1
        /\ \A k \in 1 .. Len(configs) : configs'[k] = configs[k]
    BY <1>0, <2>1
  <2> QED
    BY <1>0, <1>4, <2>2, <2>3 DEF Configure
<1>5. CASE EditPlan
  <2>1. plan.revision + 1 \in Versions
    BY <1>0, <1>5, BoundsAssumption DEF EditPlan, MayChange, Versions
  <2>2. plan' = [revision |-> plan.revision + 1, status |-> "draft"] /\ UNCHANGED <<head, carries, handled, configs>>
    BY <1>5 DEF EditPlan
  <2> QED
    BY <1>0, <2>1, <2>2
<1>6. CASE ApprovePlan
  BY <1>0, <1>6 DEF ApprovePlan
<1>7. CASE Steady
  <2>1. CASE \E q \in Requests : OpenDeploy(q) \/ TearDown(q) \/ Forget(q) \/ Abandon(q)
    BY <1>1, <2>1 DEF OpenDeploy, TearDown, Forget, Abandon, Open
  <2>2. CASE \E q \in Requests : \E d \in Deliveries : OpenPush(q, d)
    BY <1>1, <2>2 DEF OpenPush, Open
  <2>3. CASE \E q \in Requests : \E i \in Known : OpenApprove(q, i) \/ OpenReject(q, i) \/ OpenDelete(q, i)
    BY <1>1, <2>3 DEF OpenApprove, OpenReject, OpenDelete, Open
  <2>4. CASE \E q \in Requests : BlockPush(q)
    BY <1>0, <1>2, <2>4 DEF BlockPush
  <2>5. CASE \E d \in Deliveries : Push(d) \/ IgnorePush(d)
    BY <1>2, <1>3, <2>5 DEF IgnorePush
  <2>6. CASE UNCHANGED vars
    BY <1>1, <2>6 DEF vars
  <2> QED
    BY <1>4, <1>5, <1>6, <1>7, <2>1, <2>2, <2>3, <2>4, <2>5, <2>6 DEF Steady
<1>8. CASE \E q \in Requests : CommitDeploy(q) \/ CommitApprove(q) \/ CommitReject(q)
  BY <1>1, <1>8 DEF CommitDeploy, CommitApprove, CommitReject
<1>9. CASE \E q \in Requests : CommitPush(q)
  BY <1>0, <1>2, <1>9 DEF CommitPush
<1>10. CASE \E i \in Known : Work(i)
  BY <1>1, <1>10, WorkStep DEF Move
<1> QED
  BY <1>7, <1>8, <1>9, <1>10, Steps

\* Every step keeps what never changes of a release, and leaves a consumed one alone.
LEMMA ReleasesStep ==
    ASSUME IInv, [Next]_vars
    PROVE  /\ releases' \in Seq(Release) /\ Len(releases') <= MaxReleases /\ Len(releases') >= Len(releases)
           /\ Known \subseteq Known' /\ Known' \ Known \subseteq {Len(releases) + 1}
           /\ \A i \in Known : Same(releases'[i], releases[i])
           /\ \A i \in Known : releases[i].status = "waiting" /\ releases[i].decision = "consumed" =>
                 releases'[i].status = "waiting" /\ releases'[i].decision = "consumed"
           /\ \A i \in Known' \ Known : /\ releases'[i].status = "queued" /\ releases'[i].decision # "consumed"
                                        /\ releases'[i].config \in 1 .. Len(configs)
<1>0. /\ releases \in Seq(Release) /\ Len(releases) <= MaxReleases /\ Len(releases) \in Nat
      /\ \A q \in Requests : req[q].config \in 1 .. Len(configs)
  BY KnownIs DEF IInv, TypeOK
<1>1. CASE UNCHANGED releases
  BY <1>0, <1>1 DEF Same, Known
<1>2. ASSUME NEW q \in Requests, CommitDeploy(q) \/ CommitPush(q)
      PROVE  /\ releases' \in Seq(Release) /\ Len(releases') <= MaxReleases /\ Len(releases') >= Len(releases)
             /\ Known \subseteq Known' /\ Known' \ Known \subseteq {Len(releases) + 1}
             /\ \A i \in Known : releases'[i] = releases[i]
             /\ \A i \in Known' \ Known : /\ releases'[i].status = "queued" /\ releases'[i].decision # "consumed"
                                          /\ releases'[i].config \in 1 .. Len(configs)
  BY <1>0, <1>2, DeployStep
<1>3. ASSUME NEW q \in Requests, CommitApprove(q)
      PROVE  /\ releases' \in Seq(Release) /\ Len(releases') <= MaxReleases /\ Len(releases') >= Len(releases)
             /\ Known \subseteq Known' /\ Known' \ Known \subseteq {Len(releases) + 1}
             /\ \A i \in Known : i # req[q].on => releases'[i] = releases[i]
             /\ Same(releases'[req[q].on], releases[req[q].on]) /\ releases[req[q].on].decision = "pending"
             /\ \A i \in Known' \ Known : /\ releases'[i].status = "queued" /\ releases'[i].decision # "consumed"
                                          /\ releases'[i].config \in 1 .. Len(configs)
  BY <1>0, <1>3, ApproveStep
<1>4. ASSUME NEW q \in Requests, CommitReject(q)
      PROVE  /\ releases' \in Seq(Release) /\ Len(releases') = Len(releases)
             /\ Known' = Known
             /\ \A i \in Known : i # req[q].on => releases'[i] = releases[i]
             /\ Same(releases'[req[q].on], releases[req[q].on]) /\ releases[req[q].on].decision = "pending"
  BY <1>0, <1>4, RejectStep
<1>5. ASSUME NEW v \in Known, Work(v)
      PROVE  /\ releases' \in Seq(Release) /\ Len(releases') = Len(releases)
             /\ Known' = Known
             /\ \A i \in Known : i # v => releases'[i] = releases[i]
             /\ Same(releases'[v], releases[v]) /\ releases[v].status \in Active
  <2>1. PICK from \in Active, to \in Statuses : Move(v, from, to)
    BY <1>5, WorkStep
  <2> QED
    BY <2>1, MoveStep
<1>6. "waiting" \notin Active
  BY DEF Active
<1>7. CASE \E q \in Requests : CommitDeploy(q) \/ CommitPush(q)
  BY <1>2, <1>7 DEF Same
<1>8. CASE \E q \in Requests : CommitApprove(q)
  BY <1>3, <1>8 DEF Same
<1>9. CASE \E q \in Requests : CommitReject(q)
  BY <1>0, <1>4, <1>9 DEF Same
<1>10. CASE \E i \in Known : Work(i)
  BY <1>0, <1>5, <1>6, <1>10 DEF Same
<1> QED
  BY <1>1, <1>7, <1>8, <1>9, <1>10, Steps, SteadyKeeps

\* What the web app runs, and which deployments are gone.
LEMMA AppStep ==
    ASSUME IInv, [Next]_vars
    PROVE  /\ app' \in 0 .. Len(releases') /\ deleted' \subseteq Known'
           /\ \/ app' \in {app, 0}
              \/ app' \in Known /\ releases[app'].status = "deploying"
<1>0. /\ app \in 0 .. Len(releases) /\ deleted \subseteq Known /\ Known = 1 .. Len(releases) /\ Len(releases) \in Nat
      /\ Len(releases') >= Len(releases) /\ Known \subseteq Known' /\ Len(releases') \in Nat
  BY KnownIs, ReleasesStep DEF IInv, TypeOK
<1>1. ASSUME app' \in {app, 0}, UNCHANGED deleted
      PROVE  app' \in 0 .. Len(releases') /\ deleted' \subseteq Known'
  BY <1>0, <1>1
<1>2. ASSUME NEW q \in Requests, TearDown(q) PROVE app' \in {app, 0} /\ UNCHANGED deleted
  BY <1>2 DEF TearDown
<1>3. ASSUME NEW q \in Requests, Forget(q)
      PROVE  app' \in {app, 0} /\ app' \in 0 .. Len(releases') /\ deleted' \subseteq Known'
  <2>1. deleted' = deleted \cup {req[q].on} /\ UNCHANGED app /\ req[q].on \in Known
    BY <1>3 DEF Forget, IInv, Sound, DecisionsAreOpen
  <2>2. app' \in {app, 0} /\ app' \in 0 .. Len(releases')
    BY <1>0, <2>1
  <2>3. deleted' \subseteq Known'
    BY <1>0, <2>1
  <2> QED
    BY <2>2, <2>3
<1>4. ASSUME NEW v \in Known, Work(v)
      PROVE  /\ app' \in 0 .. Len(releases') /\ deleted' \subseteq Known'
             /\ app' = app \/ (app' \in Known /\ releases[app'].status = "deploying")
  <2>1. PICK from \in Active, to \in Statuses : Move(v, from, to) /\ (app' = app \/ (app' = v /\ from = "deploying"))
    BY <1>4, WorkStep
  <2>2. releases[v].status = from /\ UNCHANGED deleted
    BY <2>1, MoveStep
  <2> QED
    BY <1>0, <2>1, <2>2
<1>5. CASE UNCHANGED <<app, deleted>>
  BY <1>0, <1>5
<1>6. CASE Steady
  <2>1. CASE \E q \in Requests : OpenDeploy(q) \/ BlockPush(q) \/ Abandon(q)
    BY <1>5, <2>1 DEF OpenDeploy, BlockPush, Abandon, Open
  <2>2. CASE \E q \in Requests : \E d \in Deliveries : OpenPush(q, d)
    BY <1>5, <2>2 DEF OpenPush, Open
  <2>3. CASE \E q \in Requests : \E i \in Known : OpenApprove(q, i) \/ OpenReject(q, i) \/ OpenDelete(q, i)
    BY <1>5, <2>3 DEF OpenApprove, OpenReject, OpenDelete, Open
  <2>4. CASE Configure \/ EditPlan \/ ApprovePlan \/ UNCHANGED vars
    BY <1>5, <2>4 DEF Configure, EditPlan, ApprovePlan, vars
  <2>5. CASE \E d \in Deliveries : Push(d) \/ IgnorePush(d)
    BY <1>5, <2>5 DEF Push, IgnorePush
  <2>6. CASE \E q \in Requests : TearDown(q) \/ Forget(q)
    BY <1>1, <1>2, <1>3, <2>6
  <2> QED
    BY <1>6, <2>1, <2>2, <2>3, <2>4, <2>5, <2>6 DEF Steady
<1>7. CASE \E q \in Requests : CommitDeploy(q) \/ CommitPush(q) \/ CommitApprove(q) \/ CommitReject(q)
  BY <1>5, <1>7 DEF CommitDeploy, CommitPush, CommitApprove, CommitReject
<1> QED
  BY <1>4, <1>6, <1>7, Steps

-----------------------------------------------------------------------------
(* Requests. *)

LEMMA RequestTypesStep ==
    ASSUME IInv, [Next]_vars
    PROVE  /\ RequestTypes'
           /\ \A q \in Requests : req'[q].commit \in Commits /\ req'[q].config \in 1 .. Len(configs')
<1>0. /\ RequestTypes /\ Len(configs) \in Versions /\ Len(configs) \in Nat /\ Len(configs) >= 1
      /\ plan.revision \in Versions
      /\ \A q \in Requests : req[q].commit \in Commits /\ req[q].config \in 1 .. Len(configs)
      /\ Len(configs') \in Nat /\ Len(configs') >= Len(configs)
  BY InputTypes, BoundsAssumption DEF IInv, Sound, TypeOK, Versions
<1>1. CASE UNCHANGED req
  BY <1>0, <1>1 DEF RequestTypes
<1>2. ASSUME NEW q \in Requests, Opens(q)
      PROVE  /\ RequestTypes'
             /\ \A r \in Requests : req'[r].commit \in Commits /\ req'[r].config \in 1 .. Len(configs')
  <2>1. PICK kind \in Kinds, on \in (0 .. MaxReleases) \cup Deliveries, commit \in Commits :
           Open(q, kind, on, commit) /\ (kind = "push" => on \in Deliveries)
    BY <1>2 DEF Opens
  <2>2. PICK x : x = [kind |-> kind, on |-> on, commit |-> commit, config |-> Len(configs), revision |-> plan.revision]
    OBVIOUS
  <2>3. req' = [req EXCEPT ![q] = x]
    BY <2>1, <2>2 DEF Open
  <2>4. /\ x \in [kind : Kinds \cup {"none"}, on : (0 .. MaxReleases) \cup Deliveries,
                  commit : Commits, config : Versions, revision : Versions]
        /\ x.kind = "push" => x.on \in Deliveries
        /\ x.commit \in Commits /\ x.config \in 1 .. Len(configs')
    BY <1>0, <2>1, <2>2
  <2> QED
    BY <1>0, <2>3, <2>4 DEF RequestTypes
<1>3. ASSUME NEW q \in Requests, Close(q)
      PROVE  /\ RequestTypes'
             /\ \A r \in Requests : req'[r].commit \in Commits /\ req'[r].config \in 1 .. Len(configs')
  BY <1>0, <1>3, NoRequestType DEF Close, RequestTypes
<1>4. ASSUME NEW q \in Requests, TearDown(q)
      PROVE  /\ RequestTypes'
             /\ \A r \in Requests : req'[r].commit \in Commits /\ req'[r].config \in 1 .. Len(configs')
  <2>1. PICK x : x = [req[q] EXCEPT !.kind = "forget"]
    OBVIOUS
  <2>2. req' = [req EXCEPT ![q] = x]
    BY <1>4, <2>1 DEF TearDown
  <2>3. /\ x \in [kind : Kinds \cup {"none"}, on : (0 .. MaxReleases) \cup Deliveries,
                  commit : Commits, config : Versions, revision : Versions]
        /\ x.kind # "push" /\ x.commit \in Commits /\ x.config \in 1 .. Len(configs')
    BY <1>0, <2>1 DEF RequestTypes, Kinds
  <2> QED
    BY <1>0, <2>2, <2>3 DEF RequestTypes
<1> QED
  BY <1>1, <1>2, <1>3, <1>4, RequestStep

\* No release is locked by two requests.
LEMMA LocksExclude ==
    ASSUME IInv, [Next]_vars, NEW q \in Requests, NEW r \in Requests, q # r, Deciding(q)', Deciding(r)'
    PROVE  req'[r].on # req'[q].on
<1>0. /\ RequestTypes
      /\ \A x, y \in Requests : x # y /\ Deciding(x) /\ Deciding(y) => req[x].on # req[y].on
  BY DEF IInv, Sound, TypeOK, Deciding
<1>1. CASE UNCHANGED req
  BY <1>0, <1>1 DEF Deciding
<1>2. ASSUME NEW x \in Requests, Opens(x) PROVE req'[r].on # req'[q].on
  <2>1. PICK kind \in Kinds, on \in (0 .. MaxReleases) \cup Deliveries, commit \in Commits :
           Open(x, kind, on, commit) /\ (kind \in {"approve", "reject"} => ~Locked(on))
    BY <1>2 DEF Opens
  <2>2. /\ req'[x].kind = kind /\ req'[x].on = on
        /\ \A y \in Requests : y # x => req'[y] = req[y]
    BY <1>0, <2>1 DEF Open, RequestTypes
  <2>3. CASE x = q
    BY <1>0, <2>1, <2>2, <2>3 DEF Deciding, Locked
  <2>4. CASE x = r
    BY <1>0, <2>1, <2>2, <2>4 DEF Deciding, Locked
  <2>5. CASE x # q /\ x # r
    BY <1>0, <2>2, <2>5 DEF Deciding
  <2> QED
    BY <2>3, <2>4, <2>5
<1>3. ASSUME NEW x \in Requests, Close(x) PROVE req'[r].on # req'[q].on
  BY <1>0, <1>3, NoRequestType DEF Close, RequestTypes, Deciding
<1>4. ASSUME NEW x \in Requests, TearDown(x) PROVE req'[r].on # req'[q].on
  <2>1. req'[x].kind = "forget" /\ \A y \in Requests : y # x => req'[y] = req[y]
    BY <1>0, <1>4 DEF TearDown, RequestTypes
  <2> QED
    BY <1>0, <2>1 DEF Deciding
<1> QED
  BY <1>1, <1>2, <1>3, <1>4, RequestStep

LEMMA RoomIsReservedStep ==
    ASSUME IInv, [Next]_vars
    PROVE  RoomIsReserved'
<1> DEFINE Makes(kind) == kind \in {"push", "deploy", "approve"}
<1>0. /\ RequestTypes /\ IsFiniteSet(Creating) /\ Len(releases) + Cardinality(Creating) <= MaxReleases
      /\ Len(releases) \in Nat /\ Cardinality(Creating) \in Nat
  BY KnownIs, FS_CardinalityType DEF IInv, Sound, RoomIsReserved
<1>1. Creating = {q \in Requests : Makes(req[q].kind)} /\ Creating' = {q \in Requests : Makes(req'[q].kind)}
  BY DEF Creating
<1> HIDE DEF Makes
\* A request that is opened found room, one that is closed gives it up or uses it.
<1>2. ASSUME NEW q \in Requests, Opens(q), UNCHANGED releases PROVE RoomIsReserved'
  <2>1. PICK kind \in Kinds, on \in (0 .. MaxReleases) \cup Deliveries, commit \in Commits :
           Open(q, kind, on, commit) /\ (kind \in {"push", "deploy", "approve"} => RoomForOne)
    BY <1>2 DEF Opens
  <2>2. req[q] = NoRequest /\ req'[q].kind = kind /\ \A y \in Requests : y # q => req'[y] = req[y]
    BY <1>0, <2>1 DEF Open, RequestTypes
  <2>3. ~Makes(req[q].kind)
    BY <2>2, NoRequestType DEF Makes
  <2>4. CASE Makes(kind)
    <3>1. Creating' = Creating \cup {q} /\ q \notin Creating
      BY <1>1, <2>2, <2>3, <2>4
    <3>2. Len(releases) + Cardinality(Creating) < MaxReleases
      BY <2>1, <2>4 DEF Makes, RoomForOne
    <3>3. IsFiniteSet(Creating \cup {q}) /\ Cardinality(Creating \cup {q}) = Cardinality(Creating) + 1
      BY <1>0, <3>1, FS_AddElement
    <3> QED
      BY <1>0, <1>2, <3>1, <3>2, <3>3, BoundsAssumption DEF RoomIsReserved
  <2>5. CASE ~Makes(kind)
    <3>1. Creating' = Creating
      BY <1>1, <2>2, <2>3, <2>5
    <3> QED
      BY <1>0, <1>2, <3>1 DEF RoomIsReserved
  <2> QED
    BY <2>4, <2>5
<1>3. ASSUME NEW q \in Requests, Close(q)
      PROVE  /\ IsFiniteSet(Creating') /\ Cardinality(Creating') \in Nat
             /\ Cardinality(Creating') <= Cardinality(Creating)
             /\ Makes(req[q].kind) => Cardinality(Creating') + 1 = Cardinality(Creating)
  <2>1. req'[q].kind = "none" /\ \A y \in Requests : y # q => req'[y] = req[y]
    BY <1>0, <1>3, NoRequestType DEF Close, RequestTypes
  <2>2. Creating' = Creating \ {q}
    BY <1>1, <2>1 DEF Makes
  <2>3. IsFiniteSet(Creating \ {q})
        /\ Cardinality(Creating \ {q}) = (IF q \in Creating THEN Cardinality(Creating) - 1 ELSE Cardinality(Creating))
    BY <1>0, FS_RemoveElement
  <2>4. Cardinality(Creating \ {q}) \in Nat
    BY <2>3, FS_CardinalityType
  <2>5. Makes(req[q].kind) => q \in Creating
    BY <1>1
  <2> QED
    BY <1>0, <2>2, <2>3, <2>4, <2>5
<1>4. ASSUME NEW q \in Requests, TearDown(q) PROVE Creating' = Creating
  <2>1. req[q].kind = "delete" /\ req'[q].kind = "forget" /\ \A y \in Requests : y # q => req'[y] = req[y]
    BY <1>0, <1>4 DEF TearDown, RequestTypes
  <2> QED
    BY <1>1, <2>1 DEF Makes
<1>5. CASE Len(releases') = Len(releases)
  <2>1. CASE \E q \in Requests : Opens(q)
    BY <1>2, <2>1 DEF Opens, Open
  <2>2. CASE \E q \in Requests : Close(q)
    <3>1. IsFiniteSet(Creating') /\ Cardinality(Creating') \in Nat /\ Cardinality(Creating') <= Cardinality(Creating)
      BY <1>3, <2>2
    <3> QED
      BY <1>0, <1>5, <3>1, BoundsAssumption DEF RoomIsReserved
  <2>3. CASE \E q \in Requests : TearDown(q)
    BY <1>0, <1>4, <1>5, <2>3 DEF RoomIsReserved
  <2>4. CASE UNCHANGED req
    <3>1. Creating' = Creating
      BY <2>4 DEF Creating
    <3> QED
      BY <1>0, <1>5, <3>1 DEF RoomIsReserved
  <2> QED
    BY <2>1, <2>2, <2>3, <2>4, RequestStep
<1>6. ASSUME NEW q \in Requests, CommitDeploy(q) \/ CommitPush(q) \/ CommitApprove(q) PROVE RoomIsReserved'
  <2>1. Close(q) /\ Len(releases') = Len(releases) + 1
    BY <1>6, DeployStep, ApproveStep
  <2>2. Makes(req[q].kind)
    BY <1>6 DEF CommitDeploy, CommitPush, CommitApprove, Makes
  <2> QED
    BY <1>0, <1>3, <2>1, <2>2, BoundsAssumption DEF RoomIsReserved
<1>7. ASSUME NEW q \in Requests, CommitReject(q) PROVE Len(releases') = Len(releases)
  BY <1>7, RejectStep
<1>8. ASSUME NEW v \in Known, Work(v) PROVE Len(releases') = Len(releases)
  BY <1>8, WorkStep, MoveStep
<1> QED
  BY <1>5, <1>6, <1>7, <1>8, Steps, SteadyKeeps

LEMMA DecisionsAreOpenStep ==
    ASSUME IInv, [Next]_vars
    PROVE  DecisionsAreOpen'
<1>0. /\ RequestTypes /\ Known \subseteq Known' /\ \A i \in Known : Same(releases'[i], releases[i])
  BY ReleasesStep DEF IInv, Sound
<1>1. \A q \in Requests :
         /\ Deciding(q) \/ req[q].kind \in {"delete", "forget"} => req[q].on \in Known
         /\ Deciding(q) => releases[req[q].on].status = "waiting" /\ releases[req[q].on].decision = "pending"
         /\ req[q].kind = "approve" =>
               /\ req[q].commit = releases[req[q].on].commit
               /\ req[q].config = releases[req[q].on].config
               /\ req[q].revision = releases[req[q].on].revision
  BY DEF IInv, Sound, DecisionsAreOpen
\* The lock keeps every other decision away from the release.
<1>2. ASSUME NEW q \in Requests, Deciding(q), req'[q] = req[q]
      PROVE  releases'[req[q].on].status = "waiting" /\ releases'[req[q].on].decision = "pending"
  <2>1. req[q].on \in Known /\ releases[req[q].on].status = "waiting" /\ releases[req[q].on].decision = "pending"
    BY <1>1, <1>2
  <2>2. CASE Steady
    BY <2>1, <2>2, SteadyKeeps
  <2>3. CASE \E x \in Requests : CommitDeploy(x) \/ CommitPush(x)
    BY <2>1, <2>3, DeployStep
  <2>4. ASSUME NEW x \in Requests, CommitApprove(x) \/ CommitReject(x)
        PROVE  releases'[req[q].on] = releases[req[q].on]
    <3>1. Close(x) /\ \A i \in Known : i # req[x].on => releases'[i] = releases[i]
      BY <2>4, ApproveStep, RejectStep
    <3>2. req[x].kind \in {"approve", "reject"}
      BY <2>4 DEF CommitApprove, CommitReject
    <3>3. q # x
      BY <1>0, <1>2, <3>1, NoRequestType DEF Close, RequestTypes, Deciding
    <3>4. req[q].on # req[x].on
      BY <1>2, <3>2, <3>3 DEF IInv, TypeOK, Deciding
    <3> QED
      BY <2>1, <3>1, <3>4
  <2>5. ASSUME NEW v \in Known, Work(v) PROVE releases'[req[q].on] = releases[req[q].on]
    <3>1. PICK from \in Active, to \in Statuses : Move(v, from, to)
      BY <2>5, WorkStep
    <3>2. releases[v].status \in Active /\ \A i \in Known : i # v => releases'[i] = releases[i]
      BY <3>1, MoveStep
    <3> QED
      BY <2>1, <3>2 DEF Active
  <2> QED
    BY <2>1, <2>2, <2>3, <2>4, <2>5, Steps
<1> DEFINE IsOpen(q) ==
         /\ Deciding(q)' \/ req'[q].kind \in {"delete", "forget"} => req'[q].on \in Known'
         /\ Deciding(q)' => releases'[req'[q].on].status = "waiting" /\ releases'[req'[q].on].decision = "pending"
         /\ req'[q].kind = "approve" =>
               /\ req'[q].commit = releases'[req'[q].on].commit
               /\ req'[q].config = releases'[req'[q].on].config
               /\ req'[q].revision = releases'[req'[q].on].revision
<1>3. ASSUME NEW q \in Requests, req'[q] = req[q] PROVE IsOpen(q)
  <2>1. (Deciding(q)' <=> Deciding(q))
    BY <1>3 DEF Deciding
  <2>2. Deciding(q) \/ req[q].kind \in {"delete", "forget"} => req'[q].on \in Known'
    BY <1>0, <1>1, <1>3
  <2>3. req[q].kind = "approve" => Same(releases'[req[q].on], releases[req[q].on])
    BY <1>0, <1>1 DEF Deciding
  <2> QED
    BY <1>1, <1>2, <1>3, <2>1, <2>2, <2>3 DEF Same
<1>4. ASSUME NEW q \in Requests, Opens(q) PROVE DecisionsAreOpen'
  <2>1. PICK kind \in Kinds, on \in (0 .. MaxReleases) \cup Deliveries, commit \in Commits :
           /\ Open(q, kind, on, commit) /\ kind # "forget"
           /\ kind \in {"approve", "reject", "delete"} => on \in Known
           /\ kind \in {"approve", "reject"} => Decidable(on)
           /\ kind = "approve" =>
                 /\ commit = releases[on].commit /\ releases[on].config = Len(configs)
                 /\ releases[on].revision = plan.revision
    BY <1>4 DEF Opens
  <2>2. /\ req'[q].kind = kind /\ req'[q].on = on /\ req'[q].commit = commit
        /\ req'[q].config = Len(configs) /\ req'[q].revision = plan.revision
        /\ \A y \in Requests : y # q => req'[y] = req[y]
        /\ UNCHANGED releases
    BY <1>0, <2>1 DEF Open, RequestTypes
  <2>3. IsOpen(q)
    <3>1. Deciding(q)' => kind \in {"approve", "reject"} /\ releases[on].status = "waiting" /\ releases[on].decision = "pending"
      BY <2>1, <2>2 DEF Deciding, Decidable
    <3>2. Deciding(q)' \/ req'[q].kind \in {"delete", "forget"} => req'[q].on \in Known'
      BY <1>0, <2>1, <2>2, <3>1
    <3> QED
      BY <2>1, <2>2, <3>1, <3>2
  <2> QED
    BY <1>3, <2>2, <2>3 DEF DecisionsAreOpen
<1>5. ASSUME NEW q \in Requests, Close(q) PROVE DecisionsAreOpen'
  <2>1. req'[q].kind = "none" /\ \A y \in Requests : y # q => req'[y] = req[y]
    BY <1>0, <1>5, NoRequestType DEF Close, RequestTypes
  <2>2. IsOpen(q)
    BY <2>1 DEF Deciding
  <2> QED
    BY <1>3, <2>1, <2>2 DEF DecisionsAreOpen
<1>6. ASSUME NEW q \in Requests, TearDown(q) PROVE DecisionsAreOpen'
  <2>1. /\ req[q].kind = "delete" /\ req'[q].kind = "forget" /\ req'[q].on = req[q].on
        /\ \A y \in Requests : y # q => req'[y] = req[y]
    BY <1>0, <1>6 DEF TearDown, RequestTypes
  <2>2. IsOpen(q)
    BY <1>0, <1>1, <2>1 DEF Deciding
  <2> QED
    BY <1>3, <2>1, <2>2 DEF DecisionsAreOpen
<1>7. CASE UNCHANGED req
  BY <1>3, <1>7 DEF DecisionsAreOpen
<1> QED
  BY <1>4, <1>5, <1>6, <1>7, RequestStep

-----------------------------------------------------------------------------
(* Releases. *)

LEMMA TypeStep ==
    ASSUME IInv, [Next]_vars
    PROVE  TypeOK'
<1>1. \A q \in Requests :
         /\ req'[q] = NoRequest \/ req'[q].kind \in Kinds
         /\ req'[q].kind \in {"approve", "reject"} =>
               \A r \in Requests \ {q} : req'[r].kind \in {"approve", "reject"} => req'[r].on # req'[q].on
  <2>1. \A q \in Requests : req[q] = NoRequest \/ req[q].kind \in Kinds
    BY DEF IInv, TypeOK
  <2>2. RequestTypes
    BY DEF IInv, Sound
  <2>3. CASE \E q \in Requests : Opens(q)
    <3>1. PICK q \in Requests, kind \in Kinds, on \in (0 .. MaxReleases) \cup Deliveries, commit \in Commits :
             Open(q, kind, on, commit)
      BY <2>3 DEF Opens
    <3>2. req'[q].kind = kind /\ \A y \in Requests : y # q => req'[y] = req[y]
      BY <2>2, <3>1 DEF Open, RequestTypes
    <3> QED
      BY <2>1, <3>1, <3>2, LocksExclude DEF Deciding
  <2>4. CASE \E q \in Requests : Close(q)
    <3>1. PICK q \in Requests : req' = [req EXCEPT ![q] = NoRequest]
      BY <2>4 DEF Close
    <3>2. req'[q] = NoRequest /\ \A y \in Requests : y # q => req'[y] = req[y]
      BY <2>2, <3>1 DEF RequestTypes
    <3> QED
      BY <2>1, <3>2, LocksExclude DEF Deciding
  <2>5. CASE \E q \in Requests : TearDown(q)
    <3>1. PICK q \in Requests : req'[q].kind = "forget" /\ \A y \in Requests : y # q => req'[y] = req[y]
      BY <2>2, <2>5 DEF TearDown, RequestTypes
    <3>2. "forget" \in Kinds
      BY DEF Kinds
    <3> QED
      BY <2>1, <3>1, <3>2, LocksExclude DEF Deciding
  <2>6. CASE UNCHANGED req
    BY <2>1, <2>6, LocksExclude DEF Deciding
  <2> QED
    BY <2>3, <2>4, <2>5, <2>6, RequestStep
<1>2. \A q \in Requests : req'[q].commit \in Commits /\ req'[q].config \in 1 .. Len(configs')
  BY RequestTypesStep
<1> QED
  BY <1>1, <1>2, InputTypes, ReleasesStep, AppStep DEF TypeOK

LEMMA ConfigurationsExistStep ==
    ASSUME IInv, [Next]_vars
    PROVE  /\ ConfigurationsExist'
           /\ \A i \in Known : Mode(i)' = Mode(i)
<1>0. /\ \A i \in Known : releases[i].config \in 1 .. Len(configs)
      /\ \A i \in Known : releases'[i].config = releases[i].config
      /\ \A i \in Known' \ Known : releases'[i].config \in 1 .. Len(configs)
      /\ Len(configs) \in Nat /\ Len(configs') \in Nat /\ Len(configs') >= Len(configs)
      /\ \A c \in 1 .. Len(configs) : configs'[c] = configs[c]
  BY ReleasesStep, InputTypes, BoundsAssumption DEF IInv, Sound, ConfigurationsExist, Same, TypeOK, Versions
<1>1. ConfigurationsExist'
  BY <1>0 DEF ConfigurationsExist
<1>2. \A i \in Known : Mode(i)' = Mode(i)
  BY <1>0 DEF Mode
<1> QED
  BY <1>1, <1>2

\* What is repeated stays as it was.
LEMMA RepeatsStep ==
    ASSUME IInv, [Next]_vars, NEW i \in Known, NEW v \in Known, Repeats(i, v)
    PROVE  Repeats(i, v)'
BY ReleasesStep DEF Repeats, Same

LEMMA NewRepeats ==
    ASSUME IInv, NEW q \in Requests, CommitApprove(q), NEW n, n = Len(releases) + 1, NEW v, v = req[q].on
    PROVE  v \in Known' /\ n \in Known' /\ Repeats(n, v)'
BY ApproveStep DEF Repeats, Same

\* Where a new release comes from, and a consumed decision.
LEMMA NewStep ==
    ASSUME IInv, [Next]_vars, NEW i \in Known' \ Known
    PROVE  /\ i = Len(releases) + 1
           /\ \/ /\ releases'[i].origin # "approval"
                 /\ releases'[i].origin = "push" => PushedRuns(releases'[i].commit) = {}
              \/ \E q \in Requests : CommitApprove(q)
<1>1. i = Len(releases) + 1
  BY ReleasesStep
<1>2. CASE \E q \in Requests : CommitDeploy(q) \/ CommitPush(q)
  BY <1>1, <1>2, DeployStep
<1>3. CASE Steady
  BY <1>3, SteadyKeeps DEF Known
<1>4. CASE \E q \in Requests : CommitReject(q)
  BY <1>4, RejectStep
<1>5. CASE \E v \in Known : Work(v)
  BY <1>5, WorkStep, MoveStep
<1> QED
  BY <1>1, <1>2, <1>3, <1>4, <1>5, Steps

LEMMA DecisionStep ==
    ASSUME IInv, [Next]_vars, NEW v \in Known
    PROVE  /\ releases'[v].decision = "consumed" =>
                 releases[v].decision = "consumed" \/ \E q \in Requests : CommitApprove(q) /\ req[q].on = v
           /\ releases'[v].status \in {releases[v].status, "waiting", "rejected"} \/ Work(v)
<1>1. CASE \E q \in Requests : CommitDeploy(q) \/ CommitPush(q)
  BY <1>1, DeployStep
<1>2. CASE Steady
  BY <1>2, SteadyKeeps
<1>3. CASE \E q \in Requests : CommitReject(q)
  BY <1>3, RejectStep
<1>4. CASE \E q \in Requests : CommitApprove(q)
  BY <1>4, ApproveStep
<1>5. ASSUME NEW i \in Known, Work(i)
      PROVE  /\ releases'[v].decision = releases[v].decision
             /\ i # v => releases'[v].status = releases[v].status
  BY <1>5, WorkStep, MoveStep
<1> QED
  BY <1>1, <1>2, <1>3, <1>4, <1>5, Steps

LEMMA ApprovalsRepeatStep ==
    ASSUME IInv, [Next]_vars
    PROVE  ApprovalsRepeat' /\ ConsumedIsReleased'
<1>0. Known \subseteq Known' /\ \A i \in Known : Same(releases'[i], releases[i])
  BY ReleasesStep
<1>1. ASSUME NEW i \in Known', releases'[i].origin = "approval" PROVE \E v \in Known' : Repeats(i, v)'
  <2>1. CASE i \in Known
    <3>1. PICK v \in Known : Repeats(i, v)
      BY <1>0, <1>1, <2>1 DEF IInv, Sound, ApprovalsRepeat, Same
    <3> QED
      BY <1>0, <2>1, <3>1, RepeatsStep
  <2>2. CASE i \notin Known
    <3>1. PICK q \in Requests : CommitApprove(q) /\ i = Len(releases) + 1
      BY <1>1, <2>2, NewStep
    <3> QED
      BY <3>1, NewRepeats
  <2> QED
    BY <2>1, <2>2
<1>2. ASSUME NEW v \in Known', releases'[v].decision = "consumed" PROVE \E i \in Known' : Repeats(i, v)'
  <2>1. v \in Known
    BY <1>2, ReleasesStep
  <2>2. CASE releases[v].decision = "consumed"
    <3>1. PICK i \in Known : Repeats(i, v)
      BY <2>1, <2>2 DEF IInv, Sound, ConsumedIsReleased
    <3> QED
      BY <1>0, <2>1, <3>1, RepeatsStep
  <2>3. CASE \E q \in Requests : CommitApprove(q) /\ req[q].on = v
    <3>1. PICK n : n = Len(releases) + 1
      OBVIOUS
    <3> QED
      BY <2>3, <3>1, NewRepeats
  <2> QED
    BY <1>2, <2>1, <2>2, <2>3, DecisionStep
<1> QED
  BY <1>1, <1>2 DEF ApprovalsRepeat, ConsumedIsReleased

LEMMA OneEachStep ==
    ASSUME IInv, [Next]_vars
    PROVE  OneEach'
<1>0. /\ \A i \in Known : Same(releases'[i], releases[i])
      /\ OneEach /\ ApprovalsRepeat
  BY ReleasesStep DEF IInv, Sound
\* A new release next to an older one of the same cause.
<1>1. ASSUME NEW i \in Known' \ Known, NEW j \in Known
      PROVE  /\ releases'[i].origin = "push" /\ releases'[j].origin = "push" => releases'[i].commit # releases'[j].commit
             /\ releases'[i].origin = "approval" /\ releases'[j].origin = "approval" => releases'[i].of # releases'[j].of
  <2>1. CASE \E q \in Requests : CommitApprove(q)
    <3>1. PICK q \in Requests : CommitApprove(q)
      BY <2>1
    <3>2. /\ releases'[i].origin = "approval" /\ releases'[i].of = req[q].on
          /\ releases[req[q].on].decision = "pending"
      BY <3>1, ApproveStep, NewStep
    <3>3. ASSUME releases'[j].origin = "approval", releases'[j].of = req[q].on PROVE FALSE
      <4>1. releases[j].origin = "approval" /\ releases[j].of = req[q].on
        BY <1>0, <3>3 DEF Same
      <4>2. PICK v \in Known : Repeats(j, v)
        BY <1>0, <4>1 DEF ApprovalsRepeat
      <4> QED
        BY <3>2, <4>1, <4>2 DEF Repeats
    <3> QED
      BY <3>2, <3>3
  <2>2. CASE /\ releases'[i].origin # "approval"
             /\ releases'[i].origin = "push" => PushedRuns(releases'[i].commit) = {}
    BY <1>0, <2>2 DEF PushedRuns, Same
  <2> QED
    BY <2>1, <2>2, NewStep
<1>2. ASSUME NEW i \in Known' \ Known, NEW j \in Known' \ Known PROVE i = j
  BY ReleasesStep
<1>3. ASSUME NEW i \in Known, NEW j \in Known
      PROVE  /\ releases'[i].origin = "push" /\ releases'[j].origin = "push" /\ releases'[i].commit = releases'[j].commit => i = j
             /\ releases'[i].origin = "approval" /\ releases'[j].origin = "approval" /\ releases'[i].of = releases'[j].of => i = j
  BY <1>0 DEF Same, OneEach
<1> QED
  BY <1>1, <1>2, <1>3 DEF OneEach

LEMMA GateIsPassedStep ==
    ASSUME IInv, [Next]_vars
    PROVE  GateIsPassed'
<1>0. /\ \A i \in Known : Same(releases'[i], releases[i])
      /\ \A i \in Known : Mode(i)' = Mode(i)
      /\ GateIsPassed /\ Known = 1 .. Len(releases) /\ Len(releases) \in Nat /\ app \in 0 .. Len(releases)
  BY ReleasesStep, ConfigurationsExistStep, KnownIs DEF IInv, Sound, TypeOK
<1> SUFFICES ASSUME NEW i \in Known', Mode(i)' = "require_approval",
                    releases'[i].status \in {"deploying", "verifying", "running"} \/ app' = i
             PROVE  releases'[i].origin = "approval"
  BY DEF GateIsPassed
<1>1. CASE i \notin Known
  <2>1. i = Len(releases) + 1 /\ releases'[i].status = "queued"
    BY <1>1, ReleasesStep
  <2>2. app' # i
    BY <1>0, <1>1, <2>1, AppStep
  <2> QED
    BY <2>1, <2>2
<1>2. CASE i \in Known
  <2>1. Mode(i) = "require_approval" /\ releases'[i].origin = releases[i].origin
    BY <1>0, <1>2 DEF Same
  <2>2. CASE app' = i
    <3>1. app = i \/ releases[i].status = "deploying"
      BY <1>0, <1>2, <2>2, AppStep
    <3> QED
      BY <1>0, <1>2, <2>1, <3>1 DEF GateIsPassed
  <2>3. CASE releases'[i].status \in {"deploying", "verifying", "running"}
    <3>1. CASE Work(i)
      <4>1. PICK from \in Active, to \in Statuses :
               /\ Move(i, from, to)
               /\ to \in {"deploying", "verifying", "running"} =>
                     \/ from \in {"deploying", "verifying"}
                     \/ Mode(i) = "require_approval" => releases[i].origin = "approval"
        BY <1>2, <3>1, WorkStep
      <4>2. releases[i].status = from /\ releases'[i].status = to
        BY <1>2, <4>1, MoveStep
      <4> QED
        BY <1>0, <1>2, <2>1, <2>3, <4>1, <4>2 DEF GateIsPassed
    <3>2. CASE releases'[i].status \in {releases[i].status, "waiting", "rejected"}
      BY <1>0, <1>2, <2>1, <2>3, <3>2 DEF GateIsPassed
    <3> QED
      BY <1>2, <3>1, <3>2, DecisionStep
  <2> QED
    BY <2>2, <2>3
<1> QED
  BY <1>1, <1>2

-----------------------------------------------------------------------------
(* Results. *)

\* In every state of every behaviour: a decision's release is still waiting while the
\* request holds its lock, a request that creates a release has its place, and an
\* approval's release repeats the one that was approved.
THEOREM ReleaseInvariance == Spec => []IInv
<1>1. IInv /\ [Next]_vars => IInv'
  BY TypeStep, RequestTypesStep, RoomIsReservedStep, DecisionsAreOpenStep, ConfigurationsExistStep, OneEachStep,
     ApprovalsRepeatStep, GateIsPassedStep DEF IInv, Sound
<1> QED
  BY InitIInv, <1>1, PTL DEF Spec

\* A pushed commit and an approval are released once, whatever GitHub delivers again
\* and however decisions, deletions and changes race (routes/devsecops.py,
\* github_push_webhook, approve_pipeline_run and reject_pipeline_run).
THEOREM OneRelease == Spec => []OneReleasePerCause
<1>1. ASSUME IInv, NEW S, \A i, j \in S : i = j PROVE IsFiniteSet(S) /\ Cardinality(S) \in {0, 1}
  <2>1. CASE S = {}
    BY <2>1, FS_EmptySet
  <2>2. ASSUME NEW x \in S PROVE IsFiniteSet(S) /\ Cardinality(S) \in {0, 1}
    <3>1. S = {x}
      BY <1>1
    <3> QED
      BY <3>1, FS_Singleton
  <2> QED
    BY <2>1, <2>2
<1>2. ASSUME IInv, NEW c \in Commits PROVE Cardinality(PushedRuns(c)) <= 1
  <2>1. \A i, j \in PushedRuns(c) : i = j
    BY <1>2 DEF IInv, Sound, OneEach, PushedRuns
  <2>2. Cardinality(PushedRuns(c)) \in {0, 1}
    BY <1>1, <1>2, <2>1
  <2> QED
    BY <2>2
<1>3. ASSUME IInv, NEW v \in Known
      PROVE  Cardinality(Successors(v)) = IF releases[v].decision = "consumed" THEN 1 ELSE 0
  <2>1. CASE releases[v].decision = "consumed"
    <3>1. PICK i \in Known : Repeats(i, v)
      BY <1>3, <2>1 DEF IInv, Sound, ConsumedIsReleased
    <3>2. Successors(v) = {i}
      BY <1>3, <3>1 DEF IInv, Sound, OneEach, Successors, Repeats
    <3> QED
      BY <2>1, <3>2, FS_Singleton
  <2>2. CASE releases[v].decision # "consumed"
    <3>1. Successors(v) = {}
      BY <1>3, <2>2 DEF IInv, Sound, ApprovalsRepeat, Successors, Repeats
    <3> QED
      BY <2>2, <3>1, FS_EmptySet
  <2> QED
    BY <2>1, <2>2
<1>4. IInv => OneReleasePerCause
  BY <1>2, <1>3 DEF IInv, OneReleasePerCause, OneReleasePerPush, OneDecision
<1> QED
  BY ReleaseInvariance, <1>4, PTL

\* Under an approval mode the web app runs only a commit that was validated with the
\* same plan and configuration and then approved (services/pipeline.py,
\* _validated_pipeline_approval).
THEOREM ServedIsApproved == Spec => []ServesWhatWasApproved
<1>1. IInv => ServesWhatWasApproved
  <2> SUFFICES ASSUME IInv, app # 0, Mode(app) = "require_approval"
               PROVE  \E v \in Known : /\ app \in Successors(v)
                                       /\ releases[v].status = "waiting" /\ releases[v].decision = "consumed"
                                       /\ releases[v].commit = releases[app].commit
                                       /\ releases[v].config = releases[app].config
                                       /\ releases[v].revision = releases[app].revision
    BY DEF ServesWhatWasApproved
  <2>1. app \in Known
    BY KnownIs DEF IInv, TypeOK
  <2>2. PICK v \in Known : Repeats(app, v)
    BY <2>1 DEF IInv, Sound, GateIsPassed, ApprovalsRepeat
  <2> QED
    BY <2>1, <2>2 DEF Repeats, Successors
<1> QED
  BY ReleaseInvariance, <1>1, PTL
=============================================================================
