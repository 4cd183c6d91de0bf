----------------------- MODULE HistoryProjectionProofs -----------------------
(***************************************************************************)
(* Proofs about HistoryProjection: whatever is redelivered, lapses or      *)
(* crashes, no writer of a run's timeline loses a race for a sequence      *)
(* number or an event id, and the run's status follows from its events.    *)
(***************************************************************************)
EXTENDS HistoryProjection, TLAPS

-----------------------------------------------------------------------------
(* The inductive invariant.                                                  *)

\* The advisory lock is held by whoever is inside a transaction.
LockIsHeld ==
    /\ \A a \in Actors : lock = a <=> pc[a] = "write"
    /\ pc[Api] \in {"idle", "write"}

\* What a transaction has read of the timeline is still so.
ReadIsCurrent ==
    /\ \A a \in Actors : pc[a] = "write" => \A r \in rows : r.seq < seen[a].next
    /\ \A p \in Projectors : pc[p] = "write" => seen[p].copies = {r \in rows : Id(r) = Id(hand[p])}
    /\ pc[Api] = "write" => Approval = {} /\ plan # 0

TimelineHasTop == \E m \in {r.seq : r \in rows} \cup {0} : \A r \in rows : r.seq <= m

\* The projector with the session works on the head of the queue.
SessionHasHead ==
    IF session = Nobody THEN deliveries < MaxDeliveries
    ELSE /\ queue # <<>>
         /\ pc[session] # "idle"
         /\ pc[session] \in {"begin", "write"} => hand[session] = Head(queue)
         /\ pc[session] = "settle" => \E r \in rows : Id(r) = Id(Head(queue))

\* The started event of an attempt has left the queue.
StartedIsPast(attempt) ==
    \/ \E r \in rows : r.kind = "started" /\ r.attempt = attempt
    \/ \E e \in buried : e.kind = "started" /\ e.attempt = attempt

StartedIsQueued(attempt) ==
    \E i \in 1 .. Len(queue) : queue[i].kind = "started" /\ queue[i].attempt = attempt

StartedIsBefore(n, attempt) ==
    \E i \in 1 .. Len(queue) : i < n /\ queue[i].kind = "started" /\ queue[i].attempt = attempt

\* An attempt's other events come after its started event.
StartedComesFirst ==
    \A k \in 1 .. MaxAttempt :
       /\ <<"started", k>> \in sent => StartedIsPast(k) \/ StartedIsQueued(k)
       /\ \A n \in 1 .. Len(queue) :
             queue[n].kind # "started" /\ queue[n].attempt = k => StartedIsPast(k) \/ StartedIsBefore(n, k)
       /\ \A p \in Projectors :
             pc[p] \in {"begin", "write"} /\ hand[p].kind # "started" /\ hand[p].attempt = k => StartedIsPast(k)

\* The run shows the last attempt that has events, and ended by one of them.
RunFollowsRows ==
    /\ \A r \in rows : r.attempt <= run.attempt
    /\ run.attempt # 0 => \E r \in rows : r.attempt = run.attempt
    /\ plan # 0 => rows # {}
    /\ Terminal(run.status) => \E r \in rows : r.attempt = run.attempt /\ r.kind \in {"failed", "applied"}

Sound ==
    /\ LockIsHeld /\ ReadIsCurrent /\ TimelineHasTop
    /\ SessionHasHead /\ StartedComesFirst /\ RunFollowsRows
    /\ RunTellsItsHistory

IInv == TypeOK /\ Sound

-----------------------------------------------------------------------------
(* Operators. *)

LEMMA EventFields ==
    ASSUME NEW e \in Event
    PROVE  e.kind \in Kinds /\ e.attempt \in 1 .. MaxAttempt /\ e.at \in 1 .. MaxClock
BY DEF Event

LEMMA RowFields ==
    ASSUME NEW r \in Row
    PROVE  /\ r.kind \in Kinds \cup {"approved"} /\ r.attempt \in 1 .. MaxAttempt /\ r.at \in 1 .. MaxClock
           /\ r.seq \in Nat /\ r.seq > 0
BY DEF Row

LEMMA NoEventType == NoEvent \in Event
BY BoundsAssumption DEF NoEvent, Event, Kinds

LEMMA MaxIsTop ==
    ASSUME NEW S, NEW m \in S, \A y \in S : m >= y
    PROVE  Max(S) \in S /\ \A y \in S : Max(S) >= y
BY Zenon DEF Max

\* The number a transaction takes is above every number that it can see.
LEMMA NextNumber ==
    ASSUME rows \subseteq Row, TimelineHasTop
    PROVE  /\ 1 + Max({r.seq : r \in rows} \cup {0}) \in Nat \ {0}
           /\ \A row \in rows : row.seq < 1 + Max({r.seq : r \in rows} \cup {0})
<1> DEFINE S == {r.seq : r \in rows} \cup {0}
<1>1. S \subseteq Nat
  BY RowFields
<1>2. PICK m \in S : \A r \in rows : r.seq <= m
  BY DEF TimelineHasTop
<1>3. \A y \in S : m >= y
  BY <1>1, <1>2
<1>4. Max(S) \in S /\ \A y \in S : Max(S) >= y
  BY <1>2, <1>3, MaxIsTop
<1>5. Max(S) \in Nat
  BY <1>1, <1>4
<1>6. \A r \in rows : r.seq \in S
  OBVIOUS
<1> HIDE DEF S
<1>7. ASSUME NEW r \in rows PROVE r.seq < 1 + Max(S)
  <2>1. r.seq \in Nat /\ Max(S) >= r.seq
    BY <1>1, <1>4, <1>6
  <2> QED
    BY <1>5, <2>1
<1>8. 1 + Max(S) \in Nat \ {0}
  BY <1>5
<1> QED
  BY <1>7, <1>8 DEF S

\* The first event of a queue, and what is behind it.
LEMMA QueueFacts ==
    ASSUME NEW q \in Seq(Event), q # <<>>
    PROVE  /\ Len(q) \in Nat /\ Len(q) >= 1
           /\ Head(q) = q[1] /\ Head(q) \in Event
           /\ Tail(q) \in Seq(Event) /\ Len(Tail(q)) = Len(q) - 1
           /\ \A i \in 1 .. Len(Tail(q)) : Tail(q)[i] = q[i + 1]
OBVIOUS

-----------------------------------------------------------------------------
LEMMA InitIInv == Init => IInv
<1> SUFFICES ASSUME Init PROVE IInv
  OBVIOUS
<1> USE DEF Init
<1>1. /\ clock \in 1 .. MaxClock /\ sends \in 0 .. MaxSends /\ deliveries \in 0 .. MaxDeliveries
      /\ plan \in 0 .. MaxClock /\ faults \in 0 .. MaxFaults
  BY BoundsAssumption
<1>2. run \in [status : {"queued", "started", "planned", "completed", "failed"},
               attempt : 0 .. MaxAttempt, ended : 0 .. MaxClock]
  BY BoundsAssumption
<1>3. hand \in [Projectors -> Event]
  BY NoEventType
<1>4. seen \in [Actors -> [copies : SUBSET rows, next : Nat \ {0}]]
  BY DEF NothingSeen
<1>5. TypeOK
  BY <1>1, <1>2, <1>3, <1>4 DEF TypeOK
<1>6. LockIsHeld /\ ReadIsCurrent
  BY ActorsAssumption DEF LockIsHeld, ReadIsCurrent, Actors
<1>7. TimelineHasTop
  <2>1. 0 \in {r.seq : r \in rows} \cup {0} /\ \A r \in rows : r.seq <= 0
    OBVIOUS
  <2> QED
    BY <2>1 DEF TimelineHasTop
<1>8. SessionHasHead
  BY BoundsAssumption DEF SessionHasHead
<1>9. StartedComesFirst
  BY DEF StartedComesFirst, Actors
<1>10. RunFollowsRows /\ RunTellsItsHistory
  BY DEF RunFollowsRows, RunTellsItsHistory, Terminal
<1> QED
  BY <1>5, <1>6, <1>7, <1>8, <1>9, <1>10 DEF IInv, Sound

-----------------------------------------------------------------------------
(* Types. *)

LEMMA GiveBackTypes ==
    ASSUME TypeOK, queue # <<>>, GiveBack
    PROVE  /\ queue' \in Seq(Event) /\ buried' \subseteq Event
           /\ deliveries' \in 0 .. MaxDeliveries /\ session' = Nobody
<1>1. Head(queue) \in Event /\ Tail(queue) \in Seq(Event)
  BY QueueFacts DEF TypeOK
<1>2. CASE deliveries = MaxDeliveries
  <2>1. buried' = buried \cup {Head(queue)} /\ queue' = Tail(queue) /\ deliveries' = 0 /\ session' = Nobody
    BY <1>2 DEF GiveBack
  <2> QED
    BY <1>1, <2>1, BoundsAssumption DEF TypeOK
<1>3. CASE deliveries # MaxDeliveries
  BY <1>3 DEF GiveBack, TypeOK
<1> QED
  BY <1>2, <1>3

\* The event in hand becomes a row of the timeline.
LEMMA RowOfType ==
    ASSUME TypeOK, NEW p \in Projectors
    PROVE  /\ RowOf(p) \in Row
           /\ RowOf(p).kind = hand[p].kind /\ RowOf(p).attempt = hand[p].attempt
           /\ RowOf(p).at = hand[p].at /\ RowOf(p).seq = seen[p].next
           /\ RowOf(p).kind \in Kinds
<1>1. hand[p] \in Event /\ seen[p].next \in Nat \ {0}
  BY DEF TypeOK, Actors
<1> QED
  BY <1>1, EventFields DEF RowOf, Row

LEMMA UpdateTypes ==
    ASSUME TypeOK, NEW r \in Row, r.kind \in Kinds, UpdateOperation(r)
    PROVE  /\ run' \in [status : {"queued", "started", "planned", "completed", "failed"},
                        attempt : 0 .. MaxAttempt, ended : 0 .. MaxClock]
           /\ run'.attempt = r.attempt
           /\ run'.status = OperationStatus(r.kind)
           /\ run'.ended = IF Terminal(OperationStatus(r.kind)) THEN r.at
                           ELSE IF Reopens(r) THEN 0 ELSE run.ended
<1>1. OperationStatus(r.kind) \in {"started", "planned", "completed", "failed"}
  BY DEF OperationStatus, Kinds
<1>2. r.attempt \in 0 .. MaxAttempt /\ r.at \in 0 .. MaxClock /\ 0 \in 0 .. MaxClock
  BY RowFields, BoundsAssumption
<1>3. PICK ended : ended = IF Terminal(OperationStatus(r.kind)) THEN r.at ELSE IF Reopens(r) THEN 0 ELSE run.ended
  OBVIOUS
<1>4. ended \in 0 .. MaxClock
  BY <1>2, <1>3 DEF TypeOK
<1>5. run' = [status |-> OperationStatus(r.kind), attempt |-> r.attempt, ended |-> ended]
  BY <1>3 DEF UpdateOperation
<1> QED
  BY <1>1, <1>2, <1>3, <1>4, <1>5

LEMMA ApprovalType ==
    ASSUME TypeOK
    PROVE  /\ ApprovalRow \in Row
           /\ ApprovalRow.kind = "approved" /\ ApprovalRow.attempt = 1 /\ ApprovalRow.seq = seen[Api].next
<1>1. seen[Api].next \in Nat \ {0} /\ clock \in 1 .. MaxClock /\ 1 \in 1 .. MaxAttempt
  BY BoundsAssumption DEF TypeOK, Actors
<1> QED
  BY <1>1 DEF ApprovalRow, Row

\* What a step does to the timeline and to the run.
LEMMA TableStep ==
    ASSUME IInv, [Next]_vars
    PROVE  \/ UNCHANGED tableVars
           \/ \E p \in Projectors : Project(p) /\ seen[p].copies = {} /\ rows' = rows \cup {RowOf(p)}
           \/ AppendWrite /\ rows' = rows \cup {ApprovalRow} /\ UNCHANGED <<run, plan>>
<1>1. CASE \/ Tick \/ LapseSession \/ UNCHANGED vars \/ AppendBegin
           \/ \E e \in Event : Send(e)
           \/ \E a \in Actors : Crash(a)
  BY <1>1 DEF Tick, LapseSession, vars, AppendBegin, Send, Crash, tableVars
<1>2. ASSUME NEW p \in Projectors, Receive(p) \/ Begin(p) \/ Refuse(p) \/ Settle(p) PROVE UNCHANGED tableVars
  BY <1>2 DEF Receive, Begin, Refuse, Settle, tableVars
<1>3. ASSUME NEW p \in Projectors, Project(p)
      PROVE  UNCHANGED tableVars \/ (seen[p].copies = {} /\ rows' = rows \cup {RowOf(p)})
  BY <1>3 DEF Project
<1>4. CASE AppendWrite
  BY <1>4 DEF AppendWrite, tableVars
<1>5. CASE \E p \in Projectors : Work(p)
  BY <1>2, <1>3, <1>5 DEF Work
<1>6. CASE Request
  BY <1>1, <1>4, <1>6 DEF Request
<1> QED
  BY <1>1, <1>5, <1>6 DEF Next

LEMMA TableTypes ==
    ASSUME IInv, [Next]_vars
    PROVE  /\ rows' \subseteq Row /\ rows \subseteq rows'
           /\ run' \in [status : {"queued", "started", "planned", "completed", "failed"},
                        attempt : 0 .. MaxAttempt, ended : 0 .. MaxClock]
           /\ plan' \in 0 .. MaxClock
<1>0. TypeOK
  BY DEF IInv
<1>1. CASE UNCHANGED tableVars
  BY <1>0, <1>1 DEF tableVars, TypeOK
<1>2. ASSUME NEW p \in Projectors, Project(p), seen[p].copies = {}, rows' = rows \cup {RowOf(p)}
      PROVE  /\ rows' \subseteq Row /\ rows \subseteq rows'
             /\ run' \in [status : {"queued", "started", "planned", "completed", "failed"},
                          attempt : 0 .. MaxAttempt, ended : 0 .. MaxClock]
             /\ plan' \in 0 .. MaxClock
  <2>1. rows' \subseteq Row /\ rows \subseteq rows'
    BY <1>0, <1>2, RowOfType DEF TypeOK
  <2>2. plan' = hand[p].at \/ plan' = plan
    BY <1>2 DEF Project
  <2>3. plan' \in 0 .. MaxClock
    BY <1>0, <2>2, EventFields, BoundsAssumption DEF TypeOK
  <2>4. UNCHANGED run \/ UpdateOperation(RowOf(p))
    BY <1>2 DEF Project
  <2>5. run' \in [status : {"queued", "started", "planned", "completed", "failed"},
                  attempt : 0 .. MaxAttempt, ended : 0 .. MaxClock]
    BY <1>0, <2>4, RowOfType, UpdateTypes DEF TypeOK
  <2> QED
    BY <2>1, <2>3, <2>5
<1>3. CASE rows' = rows \cup {ApprovalRow} /\ UNCHANGED <<run, plan>>
  BY <1>0, <1>3, ApprovalType DEF TypeOK
<1> QED
  BY <1>1, <1>2, <1>3, TableStep

\* The queue changes when an event is sent, and when its head is settled or buried.
LEMMA QueueStep ==
    ASSUME IInv, [Next]_vars
    PROVE  \/ UNCHANGED <<queue, buried>>
           \/ \E e \in Event : Send(e)
           \/ /\ session # Nobody
              /\ queue' = Tail(queue) /\ deliveries' = 0 /\ session' = Nobody
              /\ \/ buried' = buried \cup {Head(queue)}
                 \/ UNCHANGED buried /\ pc[session] = "settle" /\ UNCHANGED rows
<1>0. session # Nobody => session \in Projectors
  BY DEF IInv, TypeOK
<1>1. CASE Tick \/ UNCHANGED vars \/ Request
  BY <1>1 DEF Tick, vars, Request, AppendBegin, AppendWrite, brokerVars
<1>2. ASSUME NEW p \in Projectors, Receive(p) \/ Begin(p) \/ Project(p) PROVE UNCHANGED <<queue, buried>>
  BY <1>2 DEF Receive, Begin, Project, brokerVars
<1>3. CASE GiveBack /\ session # Nobody
  BY <1>3 DEF GiveBack
<1>4. ASSUME NEW p \in Projectors, Refuse(p)
      PROVE  UNCHANGED <<queue, buried>> \/ (GiveBack /\ session # Nobody)
  BY <1>4, ActorsAssumption DEF Refuse
<1>5. ASSUME NEW p \in Projectors, Settle(p)
      PROVE  \/ UNCHANGED <<queue, buried>>
             \/ /\ session # Nobody
                /\ queue' = Tail(queue) /\ deliveries' = 0 /\ session' = Nobody
                /\ UNCHANGED buried /\ pc[session] = "settle" /\ UNCHANGED rows
  BY <1>5, ActorsAssumption DEF Settle, tableVars
<1>6. ASSUME NEW a \in Actors, Crash(a)
      PROVE  UNCHANGED <<queue, buried>> \/ (GiveBack /\ session # Nobody)
  BY <1>6, ActorsAssumption DEF Crash, Actors
<1>7. CASE LapseSession
  BY <1>3, <1>7 DEF LapseSession
<1>8. CASE \E p \in Projectors : Work(p)
  BY <1>2, <1>3, <1>4, <1>5, <1>8 DEF Work
<1>9. CASE \E a \in Actors : Crash(a)
  BY <1>3, <1>6, <1>9
<1> QED
  BY <1>1, <1>7, <1>8, <1>9 DEF Next

LEMMA BrokerTypes ==
    ASSUME IInv, [Next]_vars
    PROVE  /\ clock' \in 1 .. MaxClock
           /\ sent' \subseteq Kinds \X (1 .. MaxAttempt) /\ sends' \in 0 .. MaxSends
           /\ queue' \in Seq(Event)
           /\ deliveries' \in 0 .. MaxDeliveries
           /\ session' \in Projectors \cup {Nobody}
           /\ buried' \subseteq Event
           /\ faults' \in 0 .. MaxFaults
<1> DEFINE Good ==
           /\ clock' \in 1 .. MaxClock
           /\ sent' \subseteq Kinds \X (1 .. MaxAttempt) /\ sends' \in 0 .. MaxSends
           /\ queue' \in Seq(Event)
           /\ deliveries' \in 0 .. MaxDeliveries
           /\ session' \in Projectors \cup {Nobody}
           /\ buried' \subseteq Event
           /\ faults' \in 0 .. MaxFaults
<1>0. TypeOK /\ SessionHasHead
  BY DEF IInv, Sound
<1> USE BoundsAssumption DEF TypeOK
<1>1. CASE UNCHANGED <<clock, brokerVars, faults>>
  BY <1>0, <1>1 DEF brokerVars
<1>2. CASE Tick
  BY <1>0, <1>2 DEF Tick, brokerVars
<1>3. ASSUME NEW e \in Event, Send(e) PROVE Good
  <2>1. Id(e) \in Kinds \X (1 .. MaxAttempt)
    BY EventFields DEF Id
  <2>2. /\ sends' = sends + 1 /\ sends < MaxSends /\ sent' = sent \cup {Id(e)} /\ queue' = Append(queue, e)
        /\ UNCHANGED <<clock, deliveries, session, buried, faults>>
    BY <1>3 DEF Send
  <2>3. queue' \in Seq(Event)
    BY <1>0, <2>2
  <2>4. sent' \subseteq Kinds \X (1 .. MaxAttempt)
    BY <1>0, <2>1, <2>2
  <2>5. sends' \in 0 .. MaxSends
    BY <1>0, <2>2
  <2> QED
    BY <1>0, <2>2, <2>3, <2>4, <2>5
<1>4. ASSUME NEW p \in Projectors, Receive(p) PROVE Good
  <2>1. deliveries' = deliveries + 1 /\ deliveries < MaxDeliveries /\ session' = p
    BY <1>0, <1>4 DEF Receive, SessionHasHead
  <2>2. deliveries' \in 0 .. MaxDeliveries
    BY <1>0, <2>1
  <2> QED
    BY <1>0, <1>4, <2>1, <2>2 DEF Receive
<1>5. ASSUME GiveBack, session # Nobody, UNCHANGED <<clock, sent, sends>>, faults' \in 0 .. MaxFaults PROVE Good
  <2>1. queue # <<>>
    BY <1>0, <1>5 DEF SessionHasHead
  <2> QED
    BY <1>0, <1>5, <2>1, GiveBackTypes
<1>6. faults < MaxFaults /\ faults' = faults + 1 => faults' \in 0 .. MaxFaults
  BY <1>0
<1>7. ASSUME NEW p \in Projectors, Refuse(p) PROVE Good
  <2>1. CASE session = p
    <3>1. GiveBack /\ session # Nobody /\ UNCHANGED <<clock, sent, sends, faults>>
      BY <1>7, <2>1, ActorsAssumption DEF Refuse
    <3> QED
      BY <1>0, <1>5, <3>1
  <2>2. CASE session # p
    BY <1>0, <1>7, <2>2 DEF Refuse
  <2> QED
    BY <2>1, <2>2
<1>8. ASSUME NEW a \in Actors, Crash(a) PROVE Good
  <2>1. CASE session = a
    <3>1. GiveBack /\ session # Nobody /\ UNCHANGED <<clock, sent, sends>> /\ faults' \in 0 .. MaxFaults
      BY <1>6, <1>8, <2>1, ActorsAssumption DEF Crash, Actors
    <3> QED
      BY <1>5, <3>1
  <2>2. CASE session # a
    <3>1. UNCHANGED <<clock, sent, sends, queue, buried, deliveries, session>> /\ faults' \in 0 .. MaxFaults
      BY <1>6, <1>8, <2>2 DEF Crash
    <3> QED
      BY <1>0, <3>1
  <2> QED
    BY <2>1, <2>2
<1>9. CASE LapseSession
  <2>1. GiveBack /\ session # Nobody /\ UNCHANGED <<clock, sent, sends>> /\ faults' \in 0 .. MaxFaults
    BY <1>6, <1>9 DEF LapseSession
  <2> QED
    BY <1>5, <2>1
<1>10. ASSUME NEW p \in Projectors, Settle(p) PROVE Good
  <2>1. CASE session = p
    <3>1. queue # <<>>
      BY <1>0, <2>1, ActorsAssumption DEF SessionHasHead
    <3>2. Tail(queue) \in Seq(Event)
      BY <1>0, <3>1, QueueFacts
    <3>3. /\ queue' = Tail(queue) /\ deliveries' = 0 /\ session' = Nobody
          /\ UNCHANGED <<clock, sent, sends, buried, faults>>
      BY <1>10, <2>1 DEF Settle
    <3> QED
      BY <1>0, <3>2, <3>3
  <2>2. CASE session # p
    BY <1>0, <1>10, <2>2 DEF Settle
  <2> QED
    BY <2>1, <2>2
<1>11. ASSUME NEW p \in Projectors, Begin(p) \/ Project(p) PROVE UNCHANGED <<clock, brokerVars, faults>>
  BY <1>11 DEF Begin, Project
<1>12. CASE Request \/ UNCHANGED vars
  BY <1>12, <1>1 DEF Request, AppendBegin, AppendWrite, vars
<1>13. CASE \E p \in Projectors : Work(p)
  BY <1>1, <1>4, <1>7, <1>10, <1>11, <1>13 DEF Work
<1>14. CASE \E e \in Event : Send(e)
  BY <1>3, <1>14
<1>15. CASE \E a \in Actors : Crash(a)
  BY <1>8, <1>15
<1> QED
  BY <1>2, <1>9, <1>12, <1>13, <1>14, <1>15 DEF Next

LEMMA ActorTypes ==
    ASSUME IInv, [Next]_vars
    PROVE  /\ lock' \in Actors \cup {Nobody}
           /\ pc' \in [Actors -> {"idle", "begin", "write", "settle"}]
           /\ hand' \in [Projectors -> Event]
           /\ seen' \in [Actors -> [copies : SUBSET rows', next : Nat \ {0}]]
<1> DEFINE Good ==
           /\ lock' \in Actors \cup {Nobody}
           /\ pc' \in [Actors -> {"idle", "begin", "write", "settle"}]
           /\ hand' \in [Projectors -> Event]
           /\ seen' \in [Actors -> [copies : SUBSET rows', next : Nat \ {0}]]
<1>0. /\ TypeOK /\ rows \subseteq rows'
      /\ NoEvent \in Event /\ NothingSeen \in [copies : SUBSET rows', next : Nat \ {0}]
      /\ \A p \in Projectors : p \in Actors
      /\ Api \in Actors
  BY TableTypes, NoEventType DEF IInv, NothingSeen, Actors
<1>1. seen \in [Actors -> [copies : SUBSET rows', next : Nat \ {0}]]
  BY <1>0 DEF TypeOK
<1>2. CASE UNCHANGED actorVars
  BY <1>0, <1>1, <1>2 DEF actorVars, TypeOK
<1>3. ASSUME NEW p \in Projectors, Receive(p) PROVE Good
  <2>1. Head(queue) \in Event
    BY <1>0, <1>3, QueueFacts DEF Receive, TypeOK
  <2> QED
    BY <1>0, <1>1, <1>3, <2>1 DEF Receive, TypeOK
<1>4. ASSUME NEW a \in Actors, NEW id, ReadHistory(a, id), UNCHANGED rows
      PROVE  seen' \in [Actors -> [copies : SUBSET rows', next : Nat \ {0}]]
  <2>1. 1 + Max({r.seq : r \in rows} \cup {0}) \in Nat \ {0}
    BY <1>0, NextNumber DEF IInv, Sound, TypeOK
  <2>2. PICK read : read = [copies |-> {r \in rows : Id(r) = id}, next |-> 1 + Max({r.seq : r \in rows} \cup {0})]
    OBVIOUS
  <2>3. read \in [copies : SUBSET rows', next : Nat \ {0}]
    BY <1>4, <2>1, <2>2
  <2>4. seen' = [seen EXCEPT ![a] = read]
    BY <1>4, <2>2 DEF ReadHistory
  <2> QED
    BY <1>1, <2>3, <2>4
<1>5. ASSUME NEW p \in Projectors, Begin(p) PROVE Good
  <2>1. ReadHistory(p, Id(hand[p])) /\ UNCHANGED rows
    BY <1>5 DEF Begin, tableVars
  <2>2. seen' \in [Actors -> [copies : SUBSET rows', next : Nat \ {0}]]
    BY <1>0, <1>4, <2>1
  <2> QED
    BY <1>0, <1>5, <2>2 DEF Begin, LockRun, TypeOK
<1>6. CASE AppendBegin
  <2>1. ReadHistory(Api, <<"approved", 1>>) /\ UNCHANGED rows
    BY <1>6 DEF AppendBegin, tableVars
  <2>2. seen' \in [Actors -> [copies : SUBSET rows', next : Nat \ {0}]]
    BY <1>0, <1>4, <2>1
  <2> QED
    BY <1>0, <1>6, <2>2 DEF AppendBegin, LockRun, TypeOK
<1>7. ASSUME NEW p \in Projectors, Project(p) \/ Refuse(p) \/ Settle(p) PROVE Good
  <2>1. \/ seen' = [seen EXCEPT ![p] = NothingSeen]
        \/ UNCHANGED seen
    BY <1>7 DEF Project, Refuse, Settle
  <2>2. seen' \in [Actors -> [copies : SUBSET rows', next : Nat \ {0}]]
    BY <1>0, <1>1, <2>1
  <2>3. hand' = [hand EXCEPT ![p] = NoEvent] \/ UNCHANGED hand
    BY <1>7 DEF Project, Refuse, Settle
  <2>4. hand' \in [Projectors -> Event]
    BY <1>0, <2>3 DEF TypeOK
  <2>5. lock' \in {lock, Nobody} /\ \E phase \in {"idle", "settle"} : pc' = [pc EXCEPT ![p] = phase]
    BY <1>7 DEF Project, Refuse, Settle
  <2> QED
    BY <1>0, <2>2, <2>4, <2>5 DEF TypeOK
<1>8. CASE AppendWrite
  <2>1. seen' = [seen EXCEPT ![Api] = NothingSeen] /\ UNCHANGED hand
    BY <1>8 DEF AppendWrite
  <2>2. lock' \in {lock, Nobody} /\ pc' = [pc EXCEPT ![Api] = "idle"]
    BY <1>8 DEF AppendWrite
  <2> QED
    BY <1>0, <1>1, <2>1, <2>2 DEF TypeOK
<1>9. ASSUME NEW a \in Actors, Crash(a) PROVE Good
  <2>1. seen' = [seen EXCEPT ![a] = NothingSeen] /\ hand' = [p \in Projectors |-> IF p = a THEN NoEvent ELSE hand[p]]
    BY <1>9 DEF Crash
  <2>2. lock' \in {lock, Nobody} /\ pc' = [pc EXCEPT ![a] = "idle"]
    BY <1>9 DEF Crash
  <2>3. hand' \in [Projectors -> Event]
    BY <1>0, <2>1 DEF TypeOK
  <2> QED
    BY <1>0, <1>1, <2>1, <2>2, <2>3 DEF TypeOK
<1>10. CASE \/ Tick \/ LapseSession \/ UNCHANGED vars
            \/ \E e \in Event : Send(e)
  BY <1>10, <1>2 DEF Tick, LapseSession, vars, Send
<1>11. CASE \E p \in Projectors : Work(p)
  BY <1>3, <1>5, <1>7, <1>11 DEF Work
<1>12. CASE Request
  BY <1>6, <1>8, <1>12 DEF Request
<1>13. CASE \E a \in Actors : Crash(a)
  BY <1>9, <1>13
<1> QED
  BY <1>10, <1>11, <1>12, <1>13 DEF Next

LEMMA TypeStep == IInv /\ [Next]_vars => TypeOK'
BY BrokerTypes, TableTypes, ActorTypes DEF TypeOK

-----------------------------------------------------------------------------
(* Transactions. *)

LEMMA LockIsHeldStep ==
    ASSUME IInv, [Next]_vars
    PROVE  LockIsHeld'
<1>0. /\ pc \in [Actors -> {"idle", "begin", "write", "settle"}]
      /\ lock \in Actors \cup {Nobody}
      /\ LockIsHeld
      /\ \A p \in Projectors : p \in Actors /\ p # Api
      /\ Api \in Actors /\ Nobody \notin Actors
  BY ActorsAssumption DEF IInv, Sound, TypeOK, Actors
<1>1. CASE UNCHANGED <<lock, pc>>
  BY <1>0, <1>1 DEF LockIsHeld
<1>2. ASSUME NEW a \in Actors, LockRun(a), pc' = [pc EXCEPT ![a] = "write"] PROVE LockIsHeld'
  BY <1>0, <1>2 DEF LockIsHeld, LockRun
<1>3. ASSUME NEW p \in Projectors, pc[p] # "write", UNCHANGED lock,
             NEW phase \in {"idle", "begin", "settle"}, pc' = [pc EXCEPT ![p] = phase]
      PROVE  LockIsHeld'
  BY <1>0, <1>3 DEF LockIsHeld
<1>4. ASSUME NEW a \in Actors, lock' = IF lock = a THEN Nobody ELSE lock,
             NEW phase \in {"idle", "settle"}, a = Api => phase = "idle", pc' = [pc EXCEPT ![a] = phase]
      PROVE  LockIsHeld'
  BY <1>0, <1>4 DEF LockIsHeld
<1>5. ASSUME NEW p \in Projectors, Receive(p) \/ Settle(p) PROVE LockIsHeld'
  <2>1. pc[p] # "write" /\ UNCHANGED lock /\ \E phase \in {"idle", "begin", "settle"} : pc' = [pc EXCEPT ![p] = phase]
    BY <1>5 DEF Receive, Settle
  <2> QED
    BY <1>3, <2>1
<1>6. ASSUME NEW p \in Projectors, Project(p) \/ Refuse(p) PROVE LockIsHeld'
  <2>1. pc[p] = "write" /\ lock' = Nobody /\ \E phase \in {"idle", "settle"} : pc' = [pc EXCEPT ![p] = phase]
    BY <1>6 DEF Project, Refuse
  <2>2. lock = p
    BY <1>0, <2>1 DEF LockIsHeld
  <2> QED
    BY <1>0, <1>4, <2>1, <2>2
<1>7. ASSUME NEW p \in Projectors, Begin(p) PROVE LockIsHeld'
  BY <1>0, <1>2, <1>7 DEF Begin
<1>8. CASE AppendBegin
  BY <1>0, <1>2, <1>8 DEF AppendBegin
<1>9. CASE AppendWrite
  <2>1. lock' = (IF lock = Api THEN Nobody ELSE lock) /\ pc' = [pc EXCEPT ![Api] = "idle"]
    BY <1>9 DEF AppendWrite
  <2> QED
    BY <1>0, <1>4, <2>1
<1>10. ASSUME NEW a \in Actors, Crash(a) PROVE LockIsHeld'
  <2>1. lock' = (IF lock = a THEN Nobody ELSE lock) /\ pc' = [pc EXCEPT ![a] = "idle"]
    BY <1>10 DEF Crash
  <2> QED
    BY <1>0, <1>4, <2>1
<1>11. CASE Tick \/ LapseSession \/ UNCHANGED vars
  BY <1>1, <1>11 DEF Tick, LapseSession, vars, actorVars
<1>12. CASE \E e \in Event : Send(e)
  BY <1>1, <1>12 DEF Send, actorVars
<1>13. CASE \E p \in Projectors : Work(p)
  BY <1>5, <1>6, <1>7, <1>13 DEF Work
<1>14. CASE Request
  BY <1>8, <1>9, <1>14 DEF Request
<1>15. CASE \E a \in Actors : Crash(a)
  BY <1>10, <1>15
<1> QED
  BY <1>11, <1>12, <1>13, <1>14, <1>15 DEF Next

\* Whoever is inside a transaction after a step was there before it, or has just
\* begun it and read; nobody else has written meanwhile.
LEMMA TransactionStep ==
    ASSUME IInv, [Next]_vars, NEW a \in Actors, pc'[a] = "write"
    PROVE  /\ UNCHANGED tableVars
           /\ \/ /\ pc[a] = "write" /\ seen'[a] = seen[a]
                 /\ a \in Projectors => hand'[a] = hand[a]
              \/ a \in Projectors /\ Begin(a)
              \/ a = Api /\ AppendBegin
<1> DEFINE Good ==
           /\ UNCHANGED tableVars
           /\ \/ /\ pc[a] = "write" /\ seen'[a] = seen[a]
                 /\ a \in Projectors => hand'[a] = hand[a]
              \/ a \in Projectors /\ Begin(a)
              \/ a = Api /\ AppendBegin
<1>0. /\ pc \in [Actors -> {"idle", "begin", "write", "settle"}]
      /\ seen \in [Actors -> [copies : SUBSET rows, next : Nat \ {0}]]
      /\ hand \in [Projectors -> Event]
      /\ LockIsHeld
      /\ \A p \in Projectors : p \in Actors /\ p # Api
      /\ Api \in Actors
  BY ActorsAssumption DEF IInv, Sound, TypeOK, Actors
<1>1. \A b \in Actors : lock = b <=> pc[b] = "write"
  BY <1>0 DEF LockIsHeld
<1>2. CASE UNCHANGED <<tableVars, pc, hand, seen>>
  BY <1>2
<1>3. ASSUME NEW p \in Projectors, Receive(p) PROVE Good
  BY <1>0, <1>3 DEF Receive
<1>4. ASSUME NEW p \in Projectors, Begin(p) PROVE Good
  <2>1. CASE p = a
    BY <1>4, <2>1 DEF Begin
  <2>2. CASE p # a
    <3>1. lock = Nobody /\ pc' = [pc EXCEPT ![p] = "write"]
      BY <1>4 DEF Begin, LockRun
    <3> QED
      BY <1>0, <1>1, <2>2, <3>1, ActorsAssumption DEF Actors
  <2> QED
    BY <2>1, <2>2
<1>5. ASSUME NEW p \in Projectors, Project(p) PROVE FALSE
  BY <1>0, <1>1, <1>5 DEF Project
<1>6. ASSUME NEW p \in Projectors, Refuse(p) PROVE FALSE
  BY <1>0, <1>1, <1>6 DEF Refuse
<1>7. ASSUME NEW p \in Projectors, Settle(p) PROVE Good
  BY <1>0, <1>7 DEF Settle
<1>8. CASE AppendBegin
  <2>1. CASE a = Api
    BY <1>8, <2>1 DEF AppendBegin
  <2>2. CASE a # Api
    <3>1. lock = Nobody /\ pc' = [pc EXCEPT ![Api] = "write"]
      BY <1>8 DEF AppendBegin, LockRun
    <3> QED
      BY <1>0, <1>1, <2>2, <3>1, ActorsAssumption DEF Actors
  <2> QED
    BY <2>1, <2>2
<1>9. CASE AppendWrite
  BY <1>0, <1>1, <1>9 DEF AppendWrite
<1>10. ASSUME NEW b \in Actors, Crash(b) PROVE Good
  <2>1. pc' = [pc EXCEPT ![b] = "idle"] /\ seen' = [seen EXCEPT ![b] = NothingSeen] /\ UNCHANGED tableVars
        /\ hand' = [p \in Projectors |-> IF p = b THEN NoEvent ELSE hand[p]]
    BY <1>10 DEF Crash
  <2>2. a # b
    BY <1>0, <2>1
  <2> QED
    BY <1>0, <2>1, <2>2
<1>11. CASE Tick \/ LapseSession \/ UNCHANGED vars
  BY <1>2, <1>11 DEF Tick, LapseSession, vars, actorVars, tableVars
<1>12. CASE \E e \in Event : Send(e)
  BY <1>2, <1>12 DEF Send, actorVars
<1>13. CASE \E p \in Projectors : Work(p)
  BY <1>3, <1>4, <1>5, <1>6, <1>7, <1>13 DEF Work
<1>14. CASE Request
  BY <1>8, <1>9, <1>14 DEF Request
<1>15. CASE \E b \in Actors : Crash(b)
  BY <1>10, <1>15
<1> QED
  BY <1>11, <1>12, <1>13, <1>14, <1>15 DEF Next

LEMMA ReadIsCurrentStep ==
    ASSUME IInv, [Next]_vars
    PROVE  ReadIsCurrent'
<1>0. /\ rows \subseteq Row /\ ReadIsCurrent /\ TimelineHasTop
      /\ seen \in [Actors -> [copies : SUBSET rows, next : Nat \ {0}]]
      /\ \A p \in Projectors : p \in Actors /\ p # Api
      /\ Api \in Actors
  BY ActorsAssumption DEF IInv, Sound, TypeOK, Actors
<1>1. ASSUME NEW a \in Actors, NEW id, ReadHistory(a, id)
      PROVE  /\ seen'[a].copies = {r \in rows : Id(r) = id}
             /\ \A r \in rows : r.seq < seen'[a].next
  <2>1. seen'[a] = [copies |-> {r \in rows : Id(r) = id}, next |-> 1 + Max({r.seq : r \in rows} \cup {0})]
    BY <1>0, <1>1 DEF ReadHistory
  <2> QED
    BY <1>0, <2>1, NextNumber
<1>2. ASSUME NEW a \in Actors, pc'[a] = "write" PROVE \A r \in rows' : r.seq < seen'[a].next
  <2>1. UNCHANGED rows
    BY <1>2, TransactionStep DEF tableVars
  <2>2. CASE a \in Projectors /\ Begin(a)
    BY <1>1, <2>1, <2>2 DEF Begin
  <2>3. CASE a = Api /\ AppendBegin
    BY <1>1, <2>1, <2>3 DEF AppendBegin
  <2>4. CASE pc[a] = "write" /\ seen'[a] = seen[a]
    BY <1>0, <2>1, <2>4 DEF ReadIsCurrent
  <2> QED
    BY <1>2, <2>2, <2>3, <2>4, TransactionStep
<1>3. ASSUME NEW p \in Projectors, pc'[p] = "write"
      PROVE  seen'[p].copies = {r \in rows' : Id(r) = Id(hand'[p])}
  <2>1. UNCHANGED rows
    BY <1>0, <1>3, TransactionStep DEF tableVars
  <2>2. CASE Begin(p)
    <3>1. ReadHistory(p, Id(hand[p])) /\ UNCHANGED hand
      BY <2>2 DEF Begin
    <3> QED
      BY <1>0, <1>1, <2>1, <3>1
  <2>3. CASE pc[p] = "write" /\ seen'[p] = seen[p] /\ hand'[p] = hand[p]
    BY <1>0, <2>1, <2>3 DEF ReadIsCurrent
  <2> QED
    BY <1>0, <1>3, <2>2, <2>3, TransactionStep
<1>4. ASSUME pc'[Api] = "write" PROVE Approval' = {} /\ plan' # 0
  <2>1. UNCHANGED <<rows, plan>>
    BY <1>0, <1>4, TransactionStep DEF tableVars
  <2>2. Approval' = Approval
    BY <2>1 DEF Approval
  <2>3. CASE AppendBegin
    BY <2>1, <2>2, <2>3 DEF AppendBegin
  <2>4. CASE pc[Api] = "write"
    BY <1>0, <2>1, <2>2, <2>4 DEF ReadIsCurrent
  <2>5. Api \notin Projectors
    BY ActorsAssumption
  <2> QED
    BY <1>0, <1>4, <2>3, <2>4, <2>5, TransactionStep
<1> QED
  BY <1>2, <1>3, <1>4 DEF ReadIsCurrent

-----------------------------------------------------------------------------
(* The timeline and the run. *)

\* What a projected event is to the timeline, and when it updates the run.
LEMMA ProjectFacts ==
    ASSUME IInv, NEW p \in Projectors, Project(p), seen[p].copies = {}
    PROVE  /\ RowOf(p) \in Row /\ RowOf(p).kind \in Kinds
           /\ \A r \in rows : r.seq < RowOf(p).seq /\ Id(r) # Id(RowOf(p))
           /\ Id(RowOf(p)) = Id(hand[p])
           /\ rows' = rows \cup {RowOf(p)} /\ plan' \in {plan, hand[p].at}
           /\ RowOf(p).kind # "started" => StartedIsPast(RowOf(p).attempt)
           /\ \/ /\ UNCHANGED run
                 /\ \/ RowOf(p).attempt <= run.attempt
                    \/ Newer(RowOf(p))
              \/ /\ UpdateOperation(RowOf(p)) /\ ~Newer(RowOf(p))
                 /\ RowOf(p).attempt >= run.attempt
                 /\ RowOf(p).attempt = run.attempt => ~Terminal(run.status)
           /\ ~Newer(RowOf(p)) /\ ~StaleAttempt(RowOf(p)) /\ ~AttemptIsAlreadyTerminal(RowOf(p)) =>
                 UpdateOperation(RowOf(p))
           /\ StaleAttempt(RowOf(p)) \/ AttemptIsAlreadyTerminal(RowOf(p)) => UNCHANGED run
<1> DEFINE x == RowOf(p)
<1>0. /\ x \in Row /\ x.kind = hand[p].kind /\ x.attempt = hand[p].attempt
      /\ x.seq = seen[p].next /\ x.kind \in Kinds
  BY RowOfType DEF IInv
<1>1. pc[p] = "write" /\ p \in Actors /\ hand[p] \in Event
  BY DEF Project, Actors, IInv, TypeOK
<1>2. Id(x) = Id(hand[p])
  BY <1>0 DEF Id
<1>3. \A r \in rows : r.seq < x.seq /\ Id(r) # Id(x)
  BY <1>0, <1>1, <1>2 DEF IInv, Sound, ReadIsCurrent
<1>4. /\ rows' = rows \cup {x} /\ plan' \in {plan, hand[p].at}
      /\ IF StaleAttempt(hand[p]) \/ AttemptIsAlreadyTerminal(hand[p]) \/ Newer(x)
         THEN UNCHANGED run
         ELSE UpdateOperation(x)
  BY DEF Project
<1>5. /\ StaleAttempt(hand[p]) <=> StaleAttempt(x)
      /\ AttemptIsAlreadyTerminal(hand[p]) <=> AttemptIsAlreadyTerminal(x)
  BY <1>0 DEF StaleAttempt, AttemptIsAlreadyTerminal
<1>6. x.kind # "started" => StartedIsPast(x.attempt)
  BY <1>0, <1>1, RowFields DEF IInv, Sound, StartedComesFirst, StartedIsPast
<1>7. x.attempt \in Nat /\ run.attempt \in Nat
  BY <1>0, RowFields, BoundsAssumption DEF IInv, TypeOK
<1>8. /\ StaleAttempt(x) => x.attempt <= run.attempt
      /\ AttemptIsAlreadyTerminal(x) => x.attempt <= run.attempt
      /\ ~StaleAttempt(x) => x.attempt >= run.attempt
      /\ ~AttemptIsAlreadyTerminal(x) /\ x.attempt = run.attempt => ~Terminal(run.status)
  BY <1>7 DEF StaleAttempt, AttemptIsAlreadyTerminal
<1> HIDE DEF x
<1>9. CASE StaleAttempt(x) \/ AttemptIsAlreadyTerminal(x) \/ Newer(x)
  <2>1. UNCHANGED run
    BY <1>4, <1>5, <1>9
  <2>2. x.attempt <= run.attempt \/ Newer(x)
    BY <1>8, <1>9
  <2> QED
    BY <1>0, <1>2, <1>3, <1>4, <1>6, <1>9, <2>1, <2>2 DEF x
<1>10. CASE ~(StaleAttempt(x) \/ AttemptIsAlreadyTerminal(x) \/ Newer(x))
  <2>1. UpdateOperation(x)
    BY <1>4, <1>5, <1>10
  <2> QED
    BY <1>0, <1>2, <1>3, <1>4, <1>6, <1>8, <1>10, <2>1 DEF x
<1> QED
  BY <1>9, <1>10

\* An approval's event: its number is above every other, its attempt is not a new one.
LEMMA ApprovalFacts ==
    ASSUME IInv, AppendWrite
    PROVE  /\ ApprovalRow \in Row /\ ApprovalRow.kind = "approved" /\ ApprovalRow.attempt = 1
           /\ \A r \in rows : r.seq < ApprovalRow.seq
           /\ rows # {} /\ run.attempt >= 1
<1>1. pc[Api] = "write" /\ Api \in Actors
  BY DEF AppendWrite, Actors
<1>2. rows # {} /\ \A r \in rows : r.attempt <= run.attempt
  BY <1>1 DEF IInv, Sound, ReadIsCurrent, RunFollowsRows
<1>3. rows \subseteq Row /\ run.attempt \in Nat
  BY BoundsAssumption DEF IInv, TypeOK
<1>4. PICK r \in rows : r.attempt <= run.attempt
  BY <1>2
<1>5. r.attempt \in Nat /\ r.attempt >= 1
  BY <1>3, <1>4, RowFields, BoundsAssumption
<1>6. run.attempt >= 1
  BY <1>3, <1>4, <1>5
<1> QED
  BY <1>1, <1>2, <1>6, ApprovalType DEF IInv, Sound, ReadIsCurrent

LEMMA TimelineHasTopStep ==
    ASSUME IInv, [Next]_vars
    PROVE  TimelineHasTop'
<1>0. rows \subseteq Row /\ TimelineHasTop
  BY DEF IInv, Sound, TypeOK
<1>1. CASE UNCHANGED tableVars
  BY <1>0, <1>1 DEF tableVars, TimelineHasTop
<1>2. ASSUME NEW x \in Row, rows' = rows \cup {x}, \A r \in rows : r.seq < x.seq PROVE TimelineHasTop'
  <2>1. x.seq \in {r.seq : r \in rows'} \cup {0}
    BY <1>2
  <2>2. \A r \in rows' : r.seq <= x.seq
    BY <1>0, <1>2, RowFields
  <2> QED
    BY <2>1, <2>2 DEF TimelineHasTop
<1>3. ASSUME NEW p \in Projectors, Project(p), seen[p].copies = {} PROVE TimelineHasTop'
  BY <1>2, <1>3, ProjectFacts
<1>4. CASE AppendWrite /\ rows' = rows \cup {ApprovalRow}
  BY <1>2, <1>4, ApprovalFacts
<1> QED
  BY <1>1, <1>3, <1>4, TableStep

LEMMA RunFollowsRowsStep ==
    ASSUME IInv, [Next]_vars
    PROVE  RunFollowsRows'
<1>0. /\ RunFollowsRows /\ rows \subseteq Row /\ run.attempt \in Nat
      /\ \A r \in rows : r.attempt \in Nat
  BY RowFields, BoundsAssumption DEF IInv, Sound, TypeOK
<1>1. CASE UNCHANGED tableVars
  BY <1>0, <1>1 DEF tableVars, RunFollowsRows
<1>2. CASE AppendWrite /\ rows' = rows \cup {ApprovalRow} /\ UNCHANGED <<run, plan>>
  BY <1>0, <1>2, ApprovalFacts DEF RunFollowsRows
<1>3. ASSUME NEW p \in Projectors, Project(p), seen[p].copies = {} PROVE RunFollowsRows'
  <2> DEFINE x == RowOf(p)
  <2>1. /\ x \in Row /\ x.kind \in Kinds /\ rows' = rows \cup {x}
        /\ \/ UNCHANGED run /\ (x.attempt <= run.attempt \/ Newer(x))
           \/ UpdateOperation(x) /\ x.attempt >= run.attempt
    BY <1>3, ProjectFacts
  <2> HIDE DEF x
  <2>2. x.attempt \in Nat
    BY <2>1, RowFields
  <2>3. CASE UNCHANGED run /\ (x.attempt <= run.attempt \/ Newer(x))
    <3>1. x.attempt <= run.attempt
      BY <1>0, <2>2, <2>3 DEF Newer, RunFollowsRows
    <3> QED
      BY <1>0, <2>1, <2>3, <3>1 DEF RunFollowsRows
  <2>4. CASE UpdateOperation(x) /\ x.attempt >= run.attempt
    <3>1. run'.attempt = x.attempt /\ run'.status = OperationStatus(x.kind)
      BY <2>1, <2>4, UpdateTypes DEF IInv
    <3>2. \A r \in rows' : r.attempt <= run'.attempt
      BY <1>0, <2>1, <2>2, <2>4, <3>1 DEF RunFollowsRows
    <3>3. Terminal(run'.status) => x.kind \in {"failed", "applied"}
      BY <2>1, <3>1 DEF OperationStatus, Terminal, Kinds
    <3> QED
      BY <2>1, <3>1, <3>2, <3>3 DEF RunFollowsRows
  <2> QED
    BY <2>1, <2>3, <2>4
<1> QED
  BY <1>1, <1>2, <1>3, TableStep

LEMMA RunTellsItsHistoryStep ==
    ASSUME IInv, [Next]_vars
    PROVE  RunTellsItsHistory'
<1>0. /\ RunTellsItsHistory /\ RunFollowsRows /\ rows \subseteq Row
      /\ run.attempt \in 0 .. MaxAttempt /\ run.ended \in 0 .. MaxClock
      /\ \A r \in rows : r.attempt \in Nat /\ r.attempt > 0 /\ r.at \in Nat /\ r.at > 0 /\ r.seq \in Nat
  BY RowFields DEF IInv, Sound, TypeOK
<1>1. buried \subseteq buried'
  <2>1. CASE \E e \in Event : Send(e)
    BY <2>1 DEF Send
  <2> QED
    BY <2>1, QueueStep
<1>2. CASE UNCHANGED tableVars
  BY <1>0, <1>1, <1>2 DEF tableVars, RunTellsItsHistory
<1>3. CASE AppendWrite /\ rows' = rows \cup {ApprovalRow} /\ UNCHANGED <<run, plan>>
  <2>1. ApprovalRow.kind = "approved" /\ ApprovalRow \in rows'
    BY <1>3, ApprovalFacts
  <2>2. ASSUME NEW r \in rows', r.kind = "applied",
               \A s \in rows' \ {r} : /\ s.attempt <= r.attempt
                                      /\ s.attempt = r.attempt /\ s.seq < r.seq => s.at <= r.at /\ s.kind # "failed"
        PROVE  run'.status = "completed" /\ run'.ended = r.at
    <3>1. r \in rows
      BY <1>3, <2>1, <2>2
    <3>2. \A s \in rows \ {r} : s \in rows' \ {r}
      BY <1>3
    <3> QED
      BY <1>0, <1>3, <2>2, <3>1, <3>2 DEF RunTellsItsHistory
  <2> QED
    BY <1>0, <1>1, <1>3, <2>2 DEF RunTellsItsHistory
<1>4. ASSUME NEW p \in Projectors, Project(p), seen[p].copies = {} PROVE RunTellsItsHistory'
  <2> DEFINE x == RowOf(p)
  <2>1. /\ x \in Row /\ x.kind \in Kinds /\ rows' = rows \cup {x}
        /\ \A r \in rows : r.seq < x.seq /\ Id(r) # Id(x)
        /\ x.kind # "started" => StartedIsPast(x.attempt)
        /\ ~Newer(x) /\ ~StaleAttempt(x) /\ ~AttemptIsAlreadyTerminal(x) => UpdateOperation(x)
        /\ StaleAttempt(x) \/ AttemptIsAlreadyTerminal(x) => UNCHANGED run
        /\ \/ UNCHANGED run
           \/ /\ UpdateOperation(x) /\ x.attempt >= run.attempt
              /\ x.attempt = run.attempt => ~Terminal(run.status)
    BY <1>4, ProjectFacts
  <2> HIDE DEF x
  <2>2. x.attempt \in Nat /\ x.attempt > 0 /\ x.at \in Nat /\ x.at > 0 /\ x.seq \in Nat /\ run.attempt \in Nat
    BY <1>0, <2>1, RowFields
  <2>3. UpdateOperation(x) =>
           /\ run'.attempt = x.attempt /\ run'.status = OperationStatus(x.kind)
           /\ run'.ended = IF Terminal(OperationStatus(x.kind)) THEN x.at ELSE IF Reopens(x) THEN 0 ELSE run.ended
    BY <2>1, UpdateTypes DEF IInv
  <2>4. Terminal(run'.status) => run'.ended # 0
    <3>1. CASE UNCHANGED run
      BY <1>0, <3>1 DEF RunTellsItsHistory
    <3>2. CASE UpdateOperation(x)
      BY <2>2, <2>3, <3>2
    <3> QED
      BY <2>1, <3>1, <3>2
  <2>5. ASSUME run'.ended # 0, ~Terminal(run'.status)
        PROVE  \E e \in buried' : e.kind = "started" /\ e.attempt = run'.attempt
    <3>1. CASE UNCHANGED run
      BY <1>0, <1>1, <2>5, <3>1 DEF RunTellsItsHistory
    <3>2. CASE /\ UpdateOperation(x) /\ x.attempt >= run.attempt
               /\ x.attempt = run.attempt => ~Terminal(run.status)
      <4>1. run'.attempt = x.attempt /\ ~Terminal(OperationStatus(x.kind))
        BY <2>3, <2>5, <3>2
      <4>2. ~Reopens(x) /\ run.ended # 0
        BY <2>3, <2>5, <3>2, <4>1
      <4>3. CASE x.attempt = run.attempt
        BY <1>0, <1>1, <3>2, <4>1, <4>2, <4>3 DEF RunTellsItsHistory
      <4>4. CASE x.attempt > run.attempt
        <5>1. x.kind # "started"
          BY <4>2, <4>4 DEF Reopens
        <5>2. \A r \in rows : r.attempt # x.attempt
          BY <1>0, <2>2, <4>4 DEF RunFollowsRows
        <5> QED
          BY <1>1, <2>1, <4>1, <5>1, <5>2 DEF StartedIsPast
      <4> QED
        BY <2>2, <3>2, <4>3, <4>4
    <3> QED
      BY <2>1, <3>1, <3>2
  <2>6. ASSUME NEW r \in rows', r.kind = "applied",
               \A s \in rows' \ {r} : /\ s.attempt <= r.attempt
                                      /\ s.attempt = r.attempt /\ s.seq < r.seq => s.at <= r.at /\ s.kind # "failed"
        PROVE  run'.status = "completed" /\ run'.ended = r.at
    <3>0. x \notin rows
      BY <2>1
    <3>1. CASE r \in rows
      <4>1. /\ \A s \in rows \ {r} : s \in rows' \ {r}
            /\ x \in rows' \ {r}
        BY <2>1, <3>0, <3>1
      <4>2. run.status = "completed" /\ run.ended = r.at
        BY <1>0, <2>6, <3>1, <4>1 DEF RunTellsItsHistory
      <4>3. x.attempt <= r.attempt /\ r.attempt <= run.attempt
        BY <1>0, <2>6, <3>1, <4>1 DEF RunFollowsRows
      <4>4. x.attempt <= run.attempt
        BY <1>0, <2>2, <3>1, <4>3
      <4>5. StaleAttempt(x) \/ AttemptIsAlreadyTerminal(x)
        BY <2>2, <4>2, <4>4 DEF StaleAttempt, AttemptIsAlreadyTerminal, Terminal
      <4> QED
        BY <2>1, <4>2, <4>5
    <3>2. CASE r = x
      <4>1. \A s \in rows : /\ s.attempt <= x.attempt
                            /\ s.attempt = x.attempt => s.at <= x.at /\ s.kind # "failed"
        BY <2>1, <2>6, <3>0, <3>2
      <4>2. ~StaleAttempt(x)
        BY <1>0, <2>2, <4>1 DEF StaleAttempt, RunFollowsRows
      <4>3. ~AttemptIsAlreadyTerminal(x)
        <5> SUFFICES ASSUME AttemptIsAlreadyTerminal(x) PROVE FALSE
          OBVIOUS
        <5>1. x.attempt = run.attempt /\ Terminal(run.status)
          BY DEF AttemptIsAlreadyTerminal
        <5>2. PICK s \in rows : s.attempt = run.attempt /\ s.kind \in {"failed", "applied"}
          BY <1>0, <5>1 DEF RunFollowsRows
        <5>3. s.kind = "applied" /\ s.attempt = x.attempt
          BY <4>1, <5>1, <5>2
        <5>4. Id(s) = Id(x)
          BY <2>6, <3>2, <5>3 DEF Id
        <5> QED
          BY <2>1, <5>4
      <4>4. ~Newer(x)
        BY <1>0, <2>1, <2>2, <4>1 DEF Newer
      <4>5. UpdateOperation(x) /\ x.kind = "applied"
        BY <2>1, <2>6, <3>2, <4>2, <4>3, <4>4
      <4>6. OperationStatus(x.kind) = "completed"
        BY <4>5 DEF OperationStatus
      <4>7. Terminal(OperationStatus(x.kind))
        BY <4>6 DEF Terminal
      <4> QED
        BY <2>3, <3>2, <4>5, <4>6, <4>7
    <3> QED
      BY <2>1, <3>1, <3>2
  <2> QED
    BY <2>4, <2>5, <2>6 DEF RunTellsItsHistory
<1> QED
  BY <1>2, <1>3, <1>4, TableStep

-----------------------------------------------------------------------------
(* The queue. *)

LEMMA StartedStaysPast ==
    ASSUME IInv, [Next]_vars
    PROVE  /\ buried \subseteq buried' /\ rows \subseteq rows'
           /\ \A k \in 1 .. MaxAttempt : StartedIsPast(k) => StartedIsPast(k)'
<1>1. buried \subseteq buried'
  <2>1. CASE \E e \in Event : Send(e)
    BY <2>1 DEF Send
  <2> QED
    BY <2>1, QueueStep
<1>2. rows \subseteq rows'
  BY TableTypes
<1> QED
  BY <1>1, <1>2 DEF StartedIsPast

\* The head leaves the queue settled or buried: if it is a started event, that is past.
LEMMA HeadIsPast ==
    ASSUME IInv, session # Nobody,
           \/ buried' = buried \cup {Head(queue)}
           \/ UNCHANGED buried /\ pc[session] = "settle" /\ UNCHANGED rows,
           NEW k, queue[1].kind = "started", queue[1].attempt = k
    PROVE  StartedIsPast(k)'
<1>0. queue \in Seq(Event) /\ queue # <<>> /\ SessionHasHead
  BY DEF IInv, Sound, TypeOK, SessionHasHead
<1>1. Head(queue) = queue[1]
  BY <1>0, QueueFacts
<1>2. CASE buried' = buried \cup {Head(queue)}
  BY <1>1, <1>2 DEF StartedIsPast
<1>3. CASE pc[session] = "settle" /\ UNCHANGED rows
  <2>1. PICK r \in rows : Id(r) = Id(Head(queue))
    BY <1>0, <1>3 DEF SessionHasHead
  <2> QED
    BY <1>1, <1>3, <2>1 DEF StartedIsPast, Id
<1> QED
  BY <1>2, <1>3

\* What a projector has in hand, it received from the head of the queue.
LEMMA HandStep ==
    ASSUME IInv, [Next]_vars, NEW p \in Projectors, pc'[p] \in {"begin", "write"}
    PROVE  \/ pc[p] \in {"begin", "write"} /\ hand'[p] = hand[p]
           \/ Receive(p)
<1> DEFINE Good == (pc[p] \in {"begin", "write"} /\ hand'[p] = hand[p]) \/ Receive(p)
<1>0. /\ pc \in [Actors -> {"idle", "begin", "write", "settle"}] /\ hand \in [Projectors -> Event]
      /\ \A q \in Projectors : q \in Actors /\ q # Api
      /\ Api \in Actors
  BY ActorsAssumption DEF IInv, TypeOK, Actors
<1>1. CASE UNCHANGED <<pc, hand>>
  BY <1>1
<1>2. ASSUME NEW q \in Projectors, Receive(q) PROVE Good
  <2>1. CASE q = p
    BY <1>2, <2>1
  <2>2. CASE q # p
    <3>1. pc' = [pc EXCEPT ![q] = "begin"] /\ hand' = [hand EXCEPT ![q] = Head(queue)]
      BY <1>2 DEF Receive
    <3> QED
      BY <1>0, <2>2, <3>1
  <2> QED
    BY <2>1, <2>2
<1>3. ASSUME NEW q \in Projectors, Begin(q) PROVE Good
  <2>1. pc[q] = "begin" /\ pc' = [pc EXCEPT ![q] = "write"] /\ UNCHANGED hand
    BY <1>3 DEF Begin
  <2> QED
    BY <1>0, <2>1
<1>4. ASSUME NEW q \in Projectors, Project(q) \/ Refuse(q) \/ Settle(q) PROVE Good
  <2>1. /\ \E phase \in {"idle", "settle"} : pc' = [pc EXCEPT ![q] = phase]
        /\ hand' = [hand EXCEPT ![q] = NoEvent] \/ UNCHANGED hand
    BY <1>4 DEF Project, Refuse, Settle
  <2> QED
    BY <1>0, <2>1
<1>5. CASE AppendBegin \/ AppendWrite
  <2>1. UNCHANGED hand /\ \E phase \in {"idle", "write"} : pc' = [pc EXCEPT ![Api] = phase]
    BY <1>5 DEF AppendBegin, AppendWrite
  <2> QED
    BY <1>0, <2>1
<1>6. ASSUME NEW a \in Actors, Crash(a) PROVE Good
  <2>1. pc' = [pc EXCEPT ![a] = "idle"] /\ hand' = [q \in Projectors |-> IF q = a THEN NoEvent ELSE hand[q]]
    BY <1>6 DEF Crash
  <2> QED
    BY <1>0, <2>1
<1>7. CASE Tick \/ LapseSession \/ UNCHANGED vars
  BY <1>1, <1>7 DEF Tick, LapseSession, vars, actorVars
<1>8. CASE \E e \in Event : Send(e)
  BY <1>1, <1>8 DEF Send, actorVars
<1>9. CASE \E q \in Projectors : Work(q)
  BY <1>2, <1>3, <1>4, <1>9 DEF Work
<1>10. CASE Request
  BY <1>5, <1>10 DEF Request
<1>11. CASE \E a \in Actors : Crash(a)
  BY <1>6, <1>11
<1> QED
  BY <1>7, <1>8, <1>9, <1>10, <1>11 DEF Next

LEMMA StartedComesFirstStep ==
    ASSUME IInv, [Next]_vars
    PROVE  StartedComesFirst'
<1> SUFFICES ASSUME NEW k \in 1 .. MaxAttempt
             PROVE  /\ <<"started", k>> \in sent' => StartedIsPast(k)' \/ StartedIsQueued(k)'
                    /\ \A n \in 1 .. Len(queue') :
                          queue'[n].kind # "started" /\ queue'[n].attempt = k => StartedIsPast(k)' \/ StartedIsBefore(n, k)'
                    /\ \A p \in Projectors :
                          pc'[p] \in {"begin", "write"} /\ hand'[p].kind # "started" /\ hand'[p].attempt = k
                          => StartedIsPast(k)'
  BY DEF StartedComesFirst
<1> DEFINE InOrder ==
    /\ <<"started", k>> \in sent => StartedIsPast(k) \/ StartedIsQueued(k)
    /\ \A n \in 1 .. Len(queue) :
          queue[n].kind # "started" /\ queue[n].attempt = k => StartedIsPast(k) \/ StartedIsBefore(n, k)
<1>0. /\ InOrder /\ queue \in Seq(Event) /\ Len(queue) \in Nat
      /\ session # Nobody => queue # <<>>
  BY DEF IInv, Sound, TypeOK, StartedComesFirst, SessionHasHead
<1>1. StartedIsPast(k) => StartedIsPast(k)'
  BY StartedStaysPast
<1>2. ASSUME UNCHANGED <<queue, sent>> PROVE InOrder'
  BY <1>0, <1>1, <1>2 DEF StartedIsBefore, StartedIsQueued
<1>3. ASSUME NEW e \in Event, Send(e) PROVE InOrder'
  <2>1. queue' = Append(queue, e) /\ sent' = sent \cup {Id(e)} /\ (e.kind # "started" => <<"started", e.attempt>> \in sent)
    BY <1>3 DEF Send, Caused
  <2>2. /\ Len(queue') = Len(queue) + 1 /\ queue'[Len(queue) + 1] = e
        /\ \A i \in 1 .. Len(queue) : queue'[i] = queue[i] /\ i \in 1 .. Len(queue') /\ i < Len(queue) + 1
        /\ Len(queue) + 1 \in 1 .. Len(queue')
    BY <1>0, <2>1
  <2>3. <<"started", k>> \in sent' => StartedIsPast(k)' \/ StartedIsQueued(k)'
    <3>1. CASE <<"started", k>> \in sent
      BY <1>0, <1>1, <2>2, <3>1 DEF StartedIsQueued
    <3>2. CASE <<"started", k>> = Id(e)
      <4>1. e.kind = "started" /\ e.attempt = k
        BY <3>2 DEF Id
      <4> QED
        BY <2>2, <4>1 DEF StartedIsQueued
    <3> QED
      BY <2>1, <3>1, <3>2
  <2>4. ASSUME NEW n \in 1 .. Len(queue'), queue'[n].kind # "started", queue'[n].attempt = k
        PROVE  StartedIsPast(k)' \/ StartedIsBefore(n, k)'
    <3>1. CASE n \in 1 .. Len(queue)
      <4>1. StartedIsPast(k) \/ StartedIsBefore(n, k)
        BY <1>0, <2>2, <2>4, <3>1
      <4> QED
        BY <1>1, <2>2, <4>1 DEF StartedIsBefore
    <3>2. CASE n = Len(queue) + 1
      <4>1. <<"started", k>> \in sent
        BY <2>1, <2>2, <2>4, <3>2
      <4>2. StartedIsPast(k) \/ StartedIsQueued(k)
        BY <1>0, <4>1
      <4> QED
        BY <1>1, <2>2, <3>2, <4>2 DEF StartedIsBefore, StartedIsQueued
    <3> QED
      BY <1>0, <2>2, <3>1, <3>2
  <2> QED
    BY <2>3, <2>4
<1>4. ASSUME session # Nobody, queue' = Tail(queue), UNCHANGED sent,
             \/ buried' = buried \cup {Head(queue)}
             \/ UNCHANGED buried /\ pc[session] = "settle" /\ UNCHANGED rows
      PROVE  InOrder'
  <2>1. /\ Len(queue) >= 1 /\ Len(queue') = Len(queue) - 1
        /\ \A i \in 1 .. Len(queue') : queue'[i] = queue[i + 1]
    BY <1>0, <1>4, QueueFacts
  <2>2. queue[1].kind = "started" /\ queue[1].attempt = k => StartedIsPast(k)'
    BY <1>4, HeadIsPast
  <2>3. ASSUME NEW i \in 1 .. Len(queue), i # 1
        PROVE  i - 1 \in 1 .. Len(queue') /\ queue'[i - 1] = queue[i]
    <3>1. i - 1 \in 1 .. Len(queue') /\ (i - 1) + 1 = i
      BY <1>0, <2>1, <2>3
    <3> QED
      BY <2>1, <3>1
  <2>4. <<"started", k>> \in sent' => StartedIsPast(k)' \/ StartedIsQueued(k)'
    <3>1. CASE StartedIsQueued(k)
      <4>1. PICK i \in 1 .. Len(queue) : queue[i].kind = "started" /\ queue[i].attempt = k
        BY <3>1 DEF StartedIsQueued
      <4>2. CASE i = 1
        BY <2>2, <4>1, <4>2
      <4>3. CASE i # 1
        BY <2>3, <4>1, <4>3 DEF StartedIsQueued
      <4> QED
        BY <4>2, <4>3
    <3> QED
      BY <1>0, <1>1, <1>4, <3>1
  <2>5. ASSUME NEW n \in 1 .. Len(queue'), queue'[n].kind # "started", queue'[n].attempt = k
        PROVE  StartedIsPast(k)' \/ StartedIsBefore(n, k)'
    <3>1. n + 1 \in 1 .. Len(queue) /\ queue'[n] = queue[n + 1]
      BY <1>0, <2>1
    <3>2. StartedIsPast(k) \/ StartedIsBefore(n + 1, k)
      BY <1>0, <2>5, <3>1
    <3>3. CASE StartedIsBefore(n + 1, k)
      <4>1. PICK i \in 1 .. Len(queue) : i < n + 1 /\ queue[i].kind = "started" /\ queue[i].attempt = k
        BY <3>3 DEF StartedIsBefore
      <4>2. CASE i = 1
        BY <2>2, <4>1, <4>2
      <4>3. CASE i # 1
        <5>1. i - 1 \in 1 .. Len(queue') /\ queue'[i - 1] = queue[i] /\ i - 1 < n
          BY <2>3, <4>1, <4>3
        <5> QED
          BY <4>1, <5>1 DEF StartedIsBefore
      <4> QED
        BY <4>2, <4>3
    <3> QED
      BY <1>1, <3>2, <3>3
  <2> QED
    BY <2>4, <2>5
<1>5. UNCHANGED sent \/ \E e \in Event : Send(e)
  <2>1. CASE \E p \in Projectors : Work(p)
    BY <2>1 DEF Work, Receive, Begin, Project, Refuse, Settle, brokerVars
  <2>2. CASE Request \/ Tick \/ LapseSession \/ UNCHANGED vars
    BY <2>2 DEF Request, AppendBegin, AppendWrite, Tick, LapseSession, vars, brokerVars
  <2>3. CASE \E a \in Actors : Crash(a)
    BY <2>3 DEF Crash
  <2> QED
    BY <2>1, <2>2, <2>3 DEF Next
<1>6. InOrder'
  <2>1. CASE \E e \in Event : Send(e)
    BY <1>3, <2>1
  <2>2. CASE UNCHANGED sent /\ UNCHANGED <<queue, buried>>
    BY <1>2, <2>2
  <2>3. CASE UNCHANGED sent /\ ~UNCHANGED <<queue, buried>> /\ ~\E e \in Event : Send(e)
    <3>1. /\ session # Nobody /\ queue' = Tail(queue)
          /\ \/ buried' = buried \cup {Head(queue)}
             \/ UNCHANGED buried /\ pc[session] = "settle" /\ UNCHANGED rows
      BY <2>3, QueueStep
    <3> QED
      BY <1>4, <2>3, <3>1
  <2> QED
    BY <1>5, <2>1, <2>2, <2>3
<1>7. ASSUME NEW p \in Projectors, pc'[p] \in {"begin", "write"}, hand'[p].kind # "started", hand'[p].attempt = k
      PROVE  StartedIsPast(k)'
  <2>1. CASE pc[p] \in {"begin", "write"} /\ hand'[p] = hand[p]
    BY <1>1, <1>7, <2>1 DEF IInv, Sound, StartedComesFirst
  <2>2. CASE Receive(p)
    <3>1. hand' = [hand EXCEPT ![p] = Head(queue)] /\ queue # <<>> /\ hand \in [Projectors -> Event]
      BY <2>2 DEF Receive, IInv, TypeOK
    <3>2. hand'[p] = queue[1] /\ 1 \in 1 .. Len(queue)
      BY <1>0, <3>1, QueueFacts
    <3>3. ~StartedIsBefore(1, k)
      BY <1>0 DEF StartedIsBefore
    <3> QED
      BY <1>0, <1>1, <1>7, <3>2, <3>3
  <2> QED
    BY <1>7, <2>1, <2>2, HandStep
<1> QED
  BY <1>6, <1>7

LEMMA SessionHasHeadStep ==
    ASSUME IInv, [Next]_vars
    PROVE  SessionHasHead'
<1>0. /\ SessionHasHead /\ queue \in Seq(Event) /\ deliveries \in 0 .. MaxDeliveries
      /\ session \in Projectors \cup {Nobody}
      /\ pc \in [Actors -> {"idle", "begin", "write", "settle"}] /\ hand \in [Projectors -> Event]
      /\ \A p \in Projectors : p \in Actors /\ p # Api /\ p # Nobody
      /\ Api \in Actors
  BY ActorsAssumption DEF IInv, Sound, TypeOK, Actors
<1>1. rows \subseteq rows'
  BY TableTypes
<1>2. ASSUME UNCHANGED <<queue, deliveries, session>>,
             session # Nobody => pc'[session] = pc[session] /\ hand'[session] = hand[session]
      PROVE  SessionHasHead'
  BY <1>0, <1>1, <1>2 DEF SessionHasHead
<1>3. ASSUME NEW e \in Event, Send(e) PROVE SessionHasHead'
  <2>1. queue' = Append(queue, e) /\ UNCHANGED <<deliveries, session, pc, hand>>
    BY <1>3 DEF Send, actorVars
  <2>2. queue # <<>> => queue' # <<>> /\ Head(queue') = Head(queue)
    BY <1>0, <2>1
  <2> QED
    BY <1>0, <1>1, <2>1, <2>2 DEF SessionHasHead
<1>4. ASSUME NEW p \in Projectors, Receive(p) PROVE SessionHasHead'
  BY <1>0, <1>4 DEF Receive, SessionHasHead
<1>5. ASSUME GiveBack PROVE SessionHasHead'
  <2>1. session' = Nobody /\ (deliveries' = 0 \/ (deliveries' = deliveries /\ deliveries # MaxDeliveries))
    BY <1>5 DEF GiveBack
  <2>2. deliveries' < MaxDeliveries
    BY <1>0, <2>1, BoundsAssumption
  <2> QED
    BY <2>1, <2>2 DEF SessionHasHead
<1>6. ASSUME NEW p \in Projectors, Begin(p) PROVE SessionHasHead'
  <2>1. pc[p] = "begin" /\ pc' = [pc EXCEPT ![p] = "write"] /\ UNCHANGED <<queue, deliveries, session, hand>>
    BY <1>6 DEF Begin, brokerVars
  <2> QED
    BY <1>0, <1>1, <2>1 DEF SessionHasHead
<1>7. ASSUME NEW p \in Projectors, Project(p) PROVE SessionHasHead'
  <2>1. pc[p] = "write" /\ pc' = [pc EXCEPT ![p] = "settle"] /\ UNCHANGED <<queue, deliveries, session>>
        /\ hand' = [hand EXCEPT ![p] = NoEvent]
    BY <1>7 DEF Project, brokerVars
  <2>2. \E r \in rows' : Id(r) = Id(hand[p])
    <3>1. CASE seen[p].copies = {}
      BY <1>7, <3>1, ProjectFacts
    <3>2. CASE seen[p].copies # {}
      BY <1>1, <2>1, <3>2 DEF IInv, Sound, ReadIsCurrent
    <3> QED
      BY <3>1, <3>2
  <2>3. CASE session = p
    <3>1. /\ queue' # <<>> /\ pc'[p] = "settle" /\ session' = p /\ session' # Nobody
          /\ hand[p] = Head(queue')
      BY <1>0, <2>1, <2>3 DEF SessionHasHead
    <3> QED
      BY <2>2, <3>1 DEF SessionHasHead
  <2>4. CASE session # p
    BY <1>0, <1>2, <2>1, <2>4
  <2> QED
    BY <2>3, <2>4
<1>8. ASSUME NEW p \in Projectors, Refuse(p) PROVE SessionHasHead'
  <2>1. CASE session = p
    BY <1>5, <1>8, <2>1 DEF Refuse
  <2>2. CASE session # p
    <3>1. pc' = [pc EXCEPT ![p] = "idle"] /\ hand' = [hand EXCEPT ![p] = NoEvent] /\ UNCHANGED <<queue, deliveries, session>>
      BY <1>8, <2>2 DEF Refuse
    <3> QED
      BY <1>0, <1>2, <2>2, <3>1
  <2> QED
    BY <2>1, <2>2
<1>9. ASSUME NEW p \in Projectors, Settle(p) PROVE SessionHasHead'
  <2>1. CASE session = p
    <3>1. session' = Nobody /\ deliveries' = 0
      BY <1>9, <2>1 DEF Settle
    <3> QED
      BY <3>1, BoundsAssumption DEF SessionHasHead
  <2>2. CASE session # p
    <3>1. pc' = [pc EXCEPT ![p] = "idle"] /\ UNCHANGED <<queue, deliveries, session, hand>>
      BY <1>9, <2>2 DEF Settle
    <3> QED
      BY <1>0, <1>2, <2>2, <3>1
  <2> QED
    BY <2>1, <2>2
<1>10. CASE AppendBegin \/ AppendWrite
  <2>1. UNCHANGED <<queue, deliveries, session, hand>> /\ \E phase \in {"idle", "write"} : pc' = [pc EXCEPT ![Api] = phase]
    BY <1>10 DEF AppendBegin, AppendWrite, brokerVars
  <2> QED
    BY <1>0, <1>2, <2>1
<1>11. ASSUME NEW a \in Actors, Crash(a) PROVE SessionHasHead'
  <2>1. CASE session = a
    BY <1>5, <1>11, <2>1 DEF Crash
  <2>2. CASE session # a
    <3>1. pc' = [pc EXCEPT ![a] = "idle"] /\ hand' = [p \in Projectors |-> IF p = a THEN NoEvent ELSE hand[p]]
          /\ UNCHANGED <<queue, deliveries, session>>
      BY <1>11, <2>2 DEF Crash
    <3> QED
      BY <1>0, <1>2, <2>2, <3>1
  <2> QED
    BY <2>1, <2>2
<1>12. CASE LapseSession
  BY <1>5, <1>12 DEF LapseSession
<1>13. CASE Tick \/ UNCHANGED vars
  BY <1>2, <1>13 DEF Tick, vars, brokerVars, actorVars
<1>14. CASE \E e \in Event : Send(e)
  BY <1>3, <1>14
<1>15. CASE \E p \in Projectors : Work(p)
  BY <1>4, <1>6, <1>7, <1>8, <1>9, <1>15 DEF Work
<1>16. CASE Request
  BY <1>10, <1>16 DEF Request
<1>17. CASE \E a \in Actors : Crash(a)
  BY <1>11, <1>17
<1> QED
  BY <1>12, <1>13, <1>14, <1>15, <1>16, <1>17 DEF Next

-----------------------------------------------------------------------------
(* Results. *)

\* In every state of every behaviour: the lock is held by whoever is inside a
\* transaction, what a transaction has read is still so, the projector with the
\* session works on the queue's head, an attempt's started event comes before its
\* others, and the run shows the last attempt that has events.
THEOREM HistoryInvariance == Spec => []IInv
<1>1. IInv /\ [Next]_vars => IInv'
  BY TypeStep, LockIsHeldStep, ReadIsCurrentStep, TimelineHasTopStep, SessionHasHeadStep, StartedComesFirstStep,
     RunFollowsRowsStep, RunTellsItsHistoryStep DEF IInv, Sound
<1> QED
  BY InitIInv, <1>1, PTL DEF Spec

\* Neither a projector nor an approving request loses a race for a sequence number
\* or an event id, and the run's status and completed_at follow from its events
\* (history_store.py, project; services/history.py, append_activity_event).
THEOREM HistorySound == Spec => []HistoryIsSound
<1>1. IInv => NoLostRace
  <2> SUFFICES ASSUME IInv PROVE NoLostRace
    OBVIOUS
  <2>1. ASSUME NEW p \in Projectors, pc[p] = "write", Conflicts(p) PROVE FALSE
    <3>1. PICK r \in rows : r.seq = RowOf(p).seq \/ Id(r) = Id(RowOf(p))
      BY <2>1 DEF Conflicts, Violates
    <3>2. r.seq < seen[p].next /\ r.seq \in Nat /\ p \in Actors
      BY <2>1, RowFields DEF IInv, Sound, ReadIsCurrent, TypeOK, Actors
    <3>3. RowOf(p).seq = seen[p].next /\ Id(RowOf(p)) = Id(hand[p])
      BY RowOfType DEF IInv, Id
    <3>4. r \notin seen[p].copies
      BY <2>1 DEF Conflicts
    <3>5. Id(r) # Id(hand[p])
      BY <2>1, <3>4 DEF IInv, Sound, ReadIsCurrent
    <3>6. seen[p].next \in Nat
      BY <3>2 DEF IInv, TypeOK
    <3> QED
      BY <3>1, <3>2, <3>3, <3>5, <3>6
  <2>2. ASSUME pc[Api] = "write", Violates(ApprovalRow) PROVE FALSE
    <3>1. PICK r \in rows : r.seq = ApprovalRow.seq \/ Id(r) = Id(ApprovalRow)
      BY <2>2 DEF Violates
    <3>2. Api \in Actors /\ seen[Api].next \in Nat /\ r.seq \in Nat /\ r.seq < seen[Api].next
      BY <2>2, RowFields DEF IInv, Sound, ReadIsCurrent, TypeOK, Actors
    <3>3. ApprovalRow.seq = seen[Api].next /\ ApprovalRow.kind = "approved"
      BY ApprovalType DEF IInv
    <3>4. r.kind = "approved"
      BY <3>1, <3>2, <3>3 DEF Id
    <3> QED
      BY <2>2, <3>4 DEF IInv, Sound, ReadIsCurrent, Approval
  <2> QED
    BY <2>1, <2>2 DEF NoLostRace
<1>2. IInv => HistoryIsSound
  BY <1>1 DEF IInv, Sound, HistoryIsSound
<1> QED
  BY HistoryInvariance, <1>2, PTL

\* Only an event of a later attempt takes the run out of completed or failed, in
\* whatever order events arrive and however often they are delivered
\* (history_store.py, _update_operation).
THEOREM TerminalStays == Spec => TerminalIsFinal
<1>1. ASSUME IInv, [Next]_vars
      PROVE  [Terminal(run.status) /\ run'.status # run.status => run'.attempt > run.attempt]_vars
  <2>1. ASSUME NEW p \in Projectors, Project(p), seen[p].copies = {}, Terminal(run.status), run'.status # run.status
        PROVE  run'.attempt > run.attempt
    <3>1. /\ UpdateOperation(RowOf(p)) /\ RowOf(p).attempt >= run.attempt /\ RowOf(p).attempt # run.attempt
          /\ RowOf(p) \in Row /\ RowOf(p).kind \in Kinds
      BY <1>1, <2>1, ProjectFacts
    <3>2. run'.attempt = RowOf(p).attempt
      BY <1>1, <3>1, UpdateTypes DEF IInv
    <3>3. RowOf(p).attempt \in Nat /\ run.attempt \in Nat
      BY <1>1, <3>1, RowFields, BoundsAssumption DEF IInv, TypeOK
    <3> QED
      BY <3>1, <3>2, <3>3
  <2> QED
    BY <1>1, <2>1, TableStep DEF tableVars
<1> QED
  BY HistoryInvariance, <1>1, PTL DEF Spec, TerminalIsFinal
=============================================================================
