-------------------------- MODULE ApiProcessProofs --------------------------
(***************************************************************************)
(* Proofs about what a process of the API does beside its requests: the    *)
(* dispatcher of the workflow outbox and the analyses it feeds             *)
(* (WorkflowCommands), the daemons of resources and incidents              *)
(* (Maintenance), and the start of the process itself (ApiStartUp).  They  *)
(* hold for any number of processes, commands, callers, tasks and          *)
(* versions: the broker is given a command again only because a batch was  *)
(* cut off before its commit; what the history shows of an analysis is     *)
(* what is stored; what is shown as destroyed is gone; a diagnosis that is *)
(* shown satisfied its contract; a request is served from a whole schema;  *)
(* and no start-up loses a stored secret.                                  *)
(***************************************************************************)
EXTENDS WorkflowCommands, Maintenance, ApiStartUp, TLAPS

-----------------------------------------------------------------------------
(* The outbox.  A row is in one batch at a time, so there is one acceptance  *)
(* at most that is neither recorded nor lost with its batch.                 *)

Batches ==
    /\ dispatcher \in [Apis -> [phase : {"awake", "asleep"}, todo : SUBSET Commands, sent : SUBSET Commands,
                                refused : SUBSET Commands]]
    /\ accepted \in [Commands -> Nat]
    /\ crashes \in Nat
    /\ DOMAIN outbox = Commands
    /\ \A c \in Commands :
          outbox[c] = [status |-> outbox[c].status, attempts |-> outbox[c].attempts, wait |-> outbox[c].wait]

RowsAreApart ==
    /\ \A a, b \in Apis : \A c \in Locked(a) \cap Locked(b) : a = b
    /\ \A a \in Apis : dispatcher[a].todo \cap dispatcher[a].sent = {}

LockedIsPending == \A a \in Apis : \A c \in Locked(a) : outbox[c].status = "pending"

\* An acceptance on record, or in the batch that will record it.
Counted(c) == outbox[c].status = "sent" \/ \E a \in Apis : c \in dispatcher[a].sent

EveryRepeatHasACrash == \A c \in Commands : accepted[c] <= IF Counted(c) THEN crashes + 1 ELSE crashes

CountedIsAccepted == \A c \in Commands : Counted(c) => accepted[c] > 0

IInv ==
    /\ Batches /\ RowsAreApart /\ LockedIsPending
    /\ EveryRepeatHasACrash /\ CountedIsAccepted

-----------------------------------------------------------------------------
LEMMA AwakeIs == Awake = [phase |-> "awake", todo |-> {}, sent |-> {}, refused |-> {}]
BY DEF Awake, Asleep

LEMMA InitIInv == Init => IInv
<1> SUFFICES ASSUME Init PROVE IInv
  OBVIOUS
<1>1. dispatcher = [a \in Apis |-> [phase |-> "awake", todo |-> {}, sent |-> {}, refused |-> {}]]
  BY AwakeIs DEF Init
<1>2. accepted = [c \in Commands |-> 0] /\ crashes = 0
      /\ outbox = [c \in Commands |-> [status |-> "none", attempts |-> 0, wait |-> 0]]
  BY DEF Init
<1>3. Batches
  BY <1>1, <1>2 DEF Batches
<1>4. RowsAreApart /\ LockedIsPending
  BY <1>1 DEF RowsAreApart, LockedIsPending, Locked
<1>5. EveryRepeatHasACrash /\ CountedIsAccepted
  BY <1>1, <1>2 DEF EveryRepeatHasACrash, CountedIsAccepted, Counted
<1> QED
  BY <1>3, <1>4, <1>5 DEF IInv

\* A step that leaves the batches and the count of acceptances alone, and takes no
\* row that is locked or sent to another status.
LEMMA RowsStep ==
    ASSUME IInv, UNCHANGED <<dispatcher, accepted, crashes>>, DOMAIN outbox' = Commands,
           \A c \in Commands :
               outbox'[c] = [status |-> outbox'[c].status, attempts |-> outbox'[c].attempts, wait |-> outbox'[c].wait],
           \A c \in Commands : outbox[c].status \in {"pending", "sent"} => outbox'[c].status = outbox[c].status,
           \A c \in Commands : outbox'[c].status = "sent" => outbox[c].status = "sent"
    PROVE  IInv'
<1>1. Batches' /\ RowsAreApart'
  BY DEF IInv, Batches, RowsAreApart, Locked
<1>2. LockedIsPending'
  BY DEF IInv, Batches, LockedIsPending, Locked
<1>3. \A c \in Commands : Counted(c)' <=> Counted(c)
  BY DEF Counted
<1>4. EveryRepeatHasACrash' /\ CountedIsAccepted'
  BY <1>3 DEF IInv, EveryRepeatHasACrash, CountedIsAccepted
<1> QED
  BY <1>1, <1>2, <1>4 DEF IInv

LEMMA EnqueueStep == IInv /\ (\E c \in Commands : Enqueue(c)) => IInv'
<1> SUFFICES ASSUME IInv, NEW c \in Commands, Enqueue(c) PROVE IInv'
  OBVIOUS
<1>1. /\ outbox[c].status = "none"
      /\ outbox' = [outbox EXCEPT ![c].status = "pending"]
      /\ UNCHANGED <<dispatcher, accepted, crashes>>
  BY DEF Enqueue
<1>2. /\ DOMAIN outbox' = Commands
      /\ outbox'[c] = [status |-> "pending", attempts |-> outbox[c].attempts, wait |-> outbox[c].wait]
      /\ \A d \in Commands \ {c} : outbox'[d] = outbox[d]
  BY <1>1 DEF IInv, Batches
<1>3. \A d \in Commands :
         outbox'[d] = [status |-> outbox'[d].status, attempts |-> outbox'[d].attempts, wait |-> outbox'[d].wait]
  BY <1>2 DEF IInv, Batches
<1>4. /\ \A d \in Commands : outbox[d].status \in {"pending", "sent"} => outbox'[d].status = outbox[d].status
      /\ \A d \in Commands : outbox'[d].status = "sent" => outbox[d].status = "sent"
  BY <1>1, <1>2
<1> QED
  BY <1>1, <1>2, <1>3, <1>4, RowsStep

LEMMA SelectStep == IInv /\ (\E a \in Apis : Select(a)) => IInv'
<1> SUFFICES ASSUME IInv, NEW a \in Apis, Select(a) PROVE IInv'
  OBVIOUS
<1> USE DEF IInv
<1>1. PICK new : new = IF Batch = {} THEN Asleep ELSE [Awake EXCEPT !.todo = Batch]
  OBVIOUS
<1>2. new = [phase |-> new.phase, todo |-> Batch, sent |-> {}, refused |-> {}] /\ new.phase \in {"awake", "asleep"}
  <2>1. [Awake EXCEPT !.todo = Batch] = [phase |-> "awake", todo |-> Batch, sent |-> {}, refused |-> {}]
    BY AwakeIs
  <2>2. Batch = {} => new = [phase |-> "asleep", todo |-> Batch, sent |-> {}, refused |-> {}]
    BY <1>1 DEF Asleep
  <2> QED
    BY <1>1, <2>1, <2>2
<1>3. \A c \in Batch : c \in Commands /\ outbox[c].status = "pending" /\ \A b \in Apis : c \notin Locked(b)
  BY DEF Batch, Claimable, Due
<1>4. /\ dispatcher' = [dispatcher EXCEPT ![a] = new]
      /\ dispatcher[a] = [phase |-> "awake", todo |-> {}, sent |-> {}, refused |-> {}]
      /\ UNCHANGED <<outbox, accepted, crashes>>
  BY <1>1, AwakeIs DEF Select
<1>5. Batches'
  BY <1>2, <1>3, <1>4 DEF Batches
<1>0. dispatcher'[a] = new /\ \A b \in Apis : b # a => dispatcher'[b] = dispatcher[b]
  BY <1>4 DEF Batches
<1>6. \A b \in Apis : /\ b # a => dispatcher'[b] = dispatcher[b] /\ Locked(b)' = Locked(b)
                      /\ dispatcher'[b].sent = dispatcher[b].sent
  BY <1>0, <1>2, <1>4 DEF Locked
<1>7. Locked(a)' = Batch /\ dispatcher'[a].sent = {}
  BY <1>0, <1>2 DEF Locked
<1>8. RowsAreApart' /\ LockedIsPending'
  BY <1>3, <1>4, <1>6, <1>7 DEF RowsAreApart, LockedIsPending
<1>9. \A c \in Commands : Counted(c)' <=> Counted(c)
  BY <1>4, <1>6 DEF Counted
<1> QED
  BY <1>4, <1>5, <1>8, <1>9 DEF EveryRepeatHasACrash, CountedIsAccepted

\* Accepting a row counts it for the first time since its batch was selected.
LEMMA AcceptStep == IInv /\ (\E a \in Apis, c \in Commands : Accept(a, c)) => IInv'
<1> SUFFICES ASSUME IInv, NEW a \in Apis, NEW c \in Commands, Accept(a, c) PROVE IInv'
  OBVIOUS
<1> USE DEF IInv
<1>1. /\ c \in dispatcher[a].todo
      /\ dispatcher' = [dispatcher EXCEPT ![a].todo = @ \ {c}, ![a].sent = @ \cup {c}]
      /\ accepted' = [accepted EXCEPT ![c] = @ + 1]
      /\ UNCHANGED <<outbox, crashes>>
  BY DEF Accept, Turns
<1>2. Batches'
  <2>1. dispatcher' \in [Apis -> [phase : {"awake", "asleep"}, todo : SUBSET Commands, sent : SUBSET Commands,
                                  refused : SUBSET Commands]]
    <3>1. PICK new : new = [dispatcher[a] EXCEPT !.todo = @ \ {c}, !.sent = @ \cup {c}]
      OBVIOUS
    <3>2. new \in [phase : {"awake", "asleep"}, todo : SUBSET Commands, sent : SUBSET Commands,
                   refused : SUBSET Commands]
      BY ZenonT(30), <3>1 DEF Batches
    <3>3. dispatcher' = [dispatcher EXCEPT ![a] = new]
      BY <1>1, <3>1 DEF Batches
    <3> QED
      BY <3>2, <3>3 DEF Batches
  <2>2. accepted' \in [Commands -> Nat]
    BY <1>1 DEF Batches
  <2> QED
    BY <1>1, <2>1, <2>2 DEF Batches
<1>3. /\ \A b \in Apis : Locked(b)' = Locked(b)
      /\ \A b \in Apis : b # a => dispatcher'[b] = dispatcher[b]
      /\ dispatcher'[a].todo = dispatcher[a].todo \ {c}
      /\ dispatcher'[a].sent = dispatcher[a].sent \cup {c}
  BY <1>1 DEF Batches, Locked
<1>4. RowsAreApart' /\ LockedIsPending'
  BY ZenonT(30), <1>1, <1>3 DEF RowsAreApart, LockedIsPending
<1>5. ~Counted(c)
  <2>1. \A b \in Apis : c \in dispatcher[b].sent => b = a
    BY <1>1 DEF RowsAreApart, Locked
  <2> QED
    BY <1>1, <2>1 DEF RowsAreApart, LockedIsPending, Locked, Counted
<1>6. Counted(c)'
  BY <1>3 DEF Counted
<1>7. \A d \in Commands \ {c} : (Counted(d)' <=> Counted(d)) /\ accepted'[d] = accepted[d]
  BY <1>1, <1>3 DEF Counted, Batches
<1>8. accepted[c] \in Nat /\ accepted[c] <= crashes /\ crashes \in Nat /\ accepted'[c] = accepted[c] + 1
  BY <1>1, <1>5 DEF Batches, EveryRepeatHasACrash
<1>9. EveryRepeatHasACrash'
  BY <1>1, <1>6, <1>7, <1>8 DEF EveryRepeatHasACrash
<1>10. CountedIsAccepted'
  BY <1>6, <1>7, <1>8 DEF CountedIsAccepted
<1> QED
  BY <1>2, <1>4, <1>9, <1>10

LEMMA RefuseStep == IInv /\ (\E a \in Apis, c \in Commands : Refuse(a, c)) => IInv'
<1> SUFFICES ASSUME IInv, NEW a \in Apis, NEW c \in Commands, Refuse(a, c) PROVE IInv'
  OBVIOUS
<1> USE DEF IInv
<1>1. /\ c \in dispatcher[a].todo
      /\ dispatcher' = [dispatcher EXCEPT ![a].todo = @ \ {c}, ![a].refused = @ \cup {c}]
      /\ UNCHANGED <<outbox, accepted, crashes>>
  BY DEF Refuse, Turns
<1>2. Batches'
  <2>1. PICK new : new = [dispatcher[a] EXCEPT !.todo = @ \ {c}, !.refused = @ \cup {c}]
    OBVIOUS
  <2>2. new \in [phase : {"awake", "asleep"}, todo : SUBSET Commands, sent : SUBSET Commands,
                 refused : SUBSET Commands]
    BY ZenonT(30), <2>1 DEF Batches
  <2>3. dispatcher' = [dispatcher EXCEPT ![a] = new]
    BY <1>1, <2>1 DEF Batches
  <2>4. dispatcher' \in [Apis -> [phase : {"awake", "asleep"}, todo : SUBSET Commands, sent : SUBSET Commands,
                                  refused : SUBSET Commands]]
    BY <2>2, <2>3 DEF Batches
  <2> QED
    BY <1>1, <2>4 DEF Batches
<1>3. /\ \A b \in Apis : Locked(b)' = Locked(b) /\ dispatcher'[b].sent = dispatcher[b].sent
      /\ \A b \in Apis : b # a => dispatcher'[b] = dispatcher[b]
      /\ dispatcher'[a].todo = dispatcher[a].todo \ {c}
  BY <1>1 DEF Batches, Locked
<1>4. \A b \in Apis : dispatcher'[b].todo \subseteq dispatcher[b].todo
  BY <1>3
<1>5. RowsAreApart'
  <2>1. \A b, d \in Apis : \A e \in Locked(b)' \cap Locked(d)' : b = d
    BY <1>3 DEF RowsAreApart
  <2>2. \A b \in Apis : dispatcher'[b].todo \cap dispatcher'[b].sent = {}
    BY <1>3, <1>4 DEF RowsAreApart
  <2> QED
    BY <2>1, <2>2 DEF RowsAreApart
<1>6. LockedIsPending'
  BY <1>1, <1>3 DEF LockedIsPending
<1>7. \A d \in Commands : Counted(d)' <=> Counted(d)
  BY <1>1, <1>3 DEF Counted
<1> QED
  BY <1>1, <1>2, <1>5, <1>6, <1>7 DEF EveryRepeatHasACrash, CountedIsAccepted

\* What becomes of the rows of a batch that ends.
LEMMA ReleaseFacts ==
    ASSUME IInv, NEW a \in Apis, dispatcher' = [dispatcher EXCEPT ![a] = Asleep]
    PROVE  /\ dispatcher' \in [Apis -> [phase : {"awake", "asleep"}, todo : SUBSET Commands, sent : SUBSET Commands,
                                        refused : SUBSET Commands]]
           /\ Locked(a)' = {} /\ dispatcher'[a].sent = {}
           /\ \A b \in Apis : b # a => dispatcher'[b] = dispatcher[b] /\ Locked(b)' = Locked(b)
           /\ RowsAreApart'
<1>1. Asleep = [phase |-> "asleep", todo |-> {}, sent |-> {}, refused |-> {}]
  BY DEF Asleep
<1>2. dispatcher' \in [Apis -> [phase : {"awake", "asleep"}, todo : SUBSET Commands, sent : SUBSET Commands,
                                refused : SUBSET Commands]]
  BY <1>1 DEF IInv, Batches
<1>3. /\ dispatcher'[a] = Asleep
      /\ \A b \in Apis : b # a => dispatcher'[b] = dispatcher[b] /\ Locked(b)' = Locked(b)
  BY DEF IInv, Batches, Locked
<1>4. Locked(a)' = {} /\ dispatcher'[a].sent = {}
  BY <1>1, <1>3 DEF Locked
<1>5. RowsAreApart'
  BY <1>3, <1>4 DEF IInv, RowsAreApart
<1> QED
  BY <1>2, <1>3, <1>4, <1>5

LEMMA CommitStep == IInv /\ (\E a \in Apis : Commit(a)) => IInv'
<1> SUFFICES ASSUME IInv, NEW a \in Apis, Commit(a) PROVE IInv'
  OBVIOUS
<1> USE DEF IInv
<1>1. dispatcher' = [dispatcher EXCEPT ![a] = Asleep] /\ UNCHANGED <<accepted, crashes>>
  BY DEF Commit
<1>0. /\ DOMAIN outbox' = Commands
      /\ \A c \in Commands :
            \/ outbox'[c] = outbox[c]
            \/ \E s, n, x : outbox'[c] = [status |-> s, attempts |-> n, wait |-> x]
  BY DEF Commit
<1>9. \A c \in Commands :
         outbox'[c] = [status |-> outbox'[c].status, attempts |-> outbox'[c].attempts, wait |-> outbox'[c].wait]
  BY <1>0 DEF Batches
<1>2. /\ DOMAIN outbox' = Commands
      /\ \A c \in Commands : outbox'[c].status = IF c \in dispatcher[a].sent THEN "sent"
                                                ELSE IF c \in dispatcher[a].refused THEN "pending"
                                                ELSE outbox[c].status
  BY DEF Commit
<1>3. Batches' /\ RowsAreApart'
  BY <1>1, <1>2, <1>9, ReleaseFacts DEF Batches
<1>4. LockedIsPending'
  <2> SUFFICES ASSUME NEW b \in Apis, NEW c \in Locked(b)' PROVE outbox'[c].status = "pending"
    BY DEF LockedIsPending
  <2>1. b # a /\ c \in Locked(b)
    BY <1>1, ReleaseFacts
  <2>2. c \in Commands /\ c \notin Locked(a) /\ outbox[c].status = "pending"
    BY <2>1 DEF RowsAreApart, LockedIsPending, Locked, Batches
  <2> QED
    BY <1>2, <2>2 DEF Locked
<1>5. \A c \in Commands : Counted(c)' <=> Counted(c)
  <2> SUFFICES ASSUME NEW c \in Commands PROVE Counted(c)' <=> Counted(c)
    OBVIOUS
  <2>1. \A b \in Apis : c \in dispatcher'[b].sent <=> b # a /\ c \in dispatcher[b].sent
    BY <1>1, ReleaseFacts
  <2>2. c \in dispatcher[a].refused => outbox[c].status = "pending"
    BY DEF LockedIsPending, Locked
  <2> QED
    BY <1>2, <2>1, <2>2 DEF Counted
<1> QED
  BY <1>1, <1>3, <1>4, <1>5 DEF EveryRepeatHasACrash, CountedIsAccepted

\* What was accepted and not recorded is lost, at the price of one crash.
LEMMA CutOffStep == IInv /\ (\E a \in Apis : CutOff(a)) => IInv'
<1> SUFFICES ASSUME IInv, NEW a \in Apis, CutOff(a) PROVE IInv'
  OBVIOUS
<1> USE DEF IInv
<1>1. /\ dispatcher' = [dispatcher EXCEPT ![a] = Asleep] /\ crashes' = crashes + 1
      /\ UNCHANGED <<outbox, accepted>>
  BY DEF CutOff
<1>2. Batches' /\ RowsAreApart'
  <2>1. RowsAreApart'
    BY <1>1, ReleaseFacts
  <2>2. crashes' \in Nat
    BY <1>1 DEF Batches
  <2> QED
    BY <1>1, <2>1, <2>2, ReleaseFacts DEF Batches
<1>3. LockedIsPending'
  BY ZenonT(30), <1>1, ReleaseFacts DEF LockedIsPending
<1>4. \A c \in Commands : Counted(c)' => Counted(c)
  BY <1>1, ReleaseFacts DEF Counted
<1>5. EveryRepeatHasACrash'
  <2> SUFFICES ASSUME NEW c \in Commands PROVE accepted'[c] <= crashes'
    BY <1>1 DEF EveryRepeatHasACrash, Batches
  <2>1. accepted[c] <= crashes + 1 /\ crashes \in Nat /\ accepted[c] \in Nat
    BY DEF EveryRepeatHasACrash, Batches
  <2> QED
    BY <1>1, <2>1
<1> QED
  BY <1>1, <1>2, <1>3, <1>4, <1>5 DEF CountedIsAccepted

LEMMA SleepStep == IInv /\ Sleep => IInv'
<1> SUFFICES ASSUME IInv, Sleep PROVE IInv'
  OBVIOUS
<1> USE DEF IInv
<1>1. /\ dispatcher' = [a \in Apis |-> Awake]
      /\ \A a \in Apis : dispatcher[a] = Asleep
      /\ UNCHANGED <<accepted, crashes>>
  BY DEF Sleep
<1>2. /\ DOMAIN outbox' = Commands
      /\ \A c \in Commands : /\ outbox'[c].status = outbox[c].status
                              /\ outbox'[c] = [status |-> outbox'[c].status, attempts |-> outbox'[c].attempts,
                                               wait |-> outbox'[c].wait]
  <2>1. /\ DOMAIN outbox' = Commands
        /\ \A c \in Commands : outbox'[c] = [outbox[c] EXCEPT !.wait = IF @ <= Interval THEN 0 ELSE @ - Interval]
    BY DEF Sleep
  <2> QED
    BY <2>1 DEF Batches
<1>3. \A a \in Apis : Locked(a)' = {} /\ dispatcher'[a].sent = {} /\ dispatcher[a].sent = {} /\ dispatcher'[a].todo = {}
  BY <1>1, AwakeIs DEF Locked, Asleep
<1>4. Batches'
  BY <1>1, <1>2, AwakeIs DEF Batches
<1>5. RowsAreApart' /\ LockedIsPending'
  BY <1>3 DEF RowsAreApart, LockedIsPending
<1>6. \A c \in Commands : Counted(c)' <=> Counted(c)
  BY <1>2, <1>3 DEF Counted
<1> QED
  BY <1>1, <1>4, <1>5, <1>6 DEF EveryRepeatHasACrash, CountedIsAccepted

-----------------------------------------------------------------------------
(* Theorems. *)

LEMMA OutboxStep == IInv /\ [Next]_vars => IInv'
<1>1. IInv /\ UNCHANGED vars => IInv'
  BY DEF vars, IInv, Batches, RowsAreApart, LockedIsPending, EveryRepeatHasACrash, CountedIsAccepted, Counted, Locked
<1> QED
  BY <1>1, EnqueueStep, SelectStep, AcceptStep, RefuseStep, CommitStep, CutOffStep, SleepStep DEF Next

\* In every reachable state of the dispatchers a row is in one batch at most, and
\* every acceptance of a command is on record, in a batch that will record it, or
\* paid for by a batch that was cut off.
THEOREM OutboxInvariance == Spec => []IInv
BY InitIInv, OutboxStep, PTL DEF Spec

LEMMA RepeatsFollow == IInv => RepeatsAreCutOffs
<1> SUFFICES ASSUME IInv, NEW c \in Commands
             PROVE  accepted[c] <= crashes + 1 /\ (outbox[c].status = "sent" => accepted[c] > 0)
  BY DEF RepeatsAreCutOffs
<1>1. accepted[c] \in Nat /\ crashes \in Nat
  BY DEF IInv, Batches
<1> QED
  BY <1>1 DEF IInv, EveryRepeatHasACrash, CountedIsAccepted, Counted

\* Several dispatchers send a command once between them; each cut-off batch repeats
\* it at most once, and a row is marked sent only after the broker accepted it
\* (dispatch_pending).
THEOREM RepeatsNeedCutOffs == Spec => []RepeatsAreCutOffs
BY RepeatsFollow, OutboxInvariance, PTL

-----------------------------------------------------------------------------
(* The analysis: the run is bound to its facts before anything is done for it, *)
(* and a result is stored before anybody is told of it.                      *)

Outcomes == [facts : Scans, answer : Answers \cup {NoAnswer}]
Notices  == [id : {"started", "completed", "failed"}, result : Outcomes \cup {NoAnswer}]

Requesting == {"source", "facts", "commit"}
Answering  == {"upload", "report", "settle"}

AnalysisTypes ==
    /\ caller \in [Callers -> [at : {"new", "queued", "refused"} \cup Requesting, scan : Scans]]
    /\ record \in [by : Callers \cup {NoOne},
                   status : {"none", "queued", "repository_analysis_started"} \cup Terminal]
    /\ job.lock \in Workers \cup {NoOne}
    /\ worker \in [Workers -> [at : {"rest", "begin", "work", "ask", "repair", "raised"} \cup Answering,
                               result : Outcomes \cup {NoAnswer}]]
    /\ events \in Seq(Notices)
    /\ shown \in Seq(Notices)

\* A transaction under way holds the lock, and no run was recorded before it.
OneBinding == \A c \in Callers : caller[c].at \in Requesting => advisory = c /\ record.by = NoOne

NothingBeforeTheRun ==
    record.by = NoOne =>
        /\ record.status = "none"
        /\ job.at = "none" /\ job.lock = NoOne
        /\ \A w \in Workers : worker[w] = Resting
        /\ events = <<>> /\ shown = <<>>

\* Made of the facts of the run, and of an answer that refers to nothing else.
Genuine(result) ==
    /\ result \in Outcomes
    /\ result.facts = caller[record.by].scan
    /\ result.answer # NoAnswer => result.answer \subseteq result.facts

WorkIsGenuine ==
    \A w \in Workers :
        /\ worker[w].at \in Answering => Genuine(worker[w].result)
        /\ worker[w].at = "report" => worker[w].result \in results

\* An event that reports a completion names a result that is stored.
Told(event) == event.id = "completed" => event.result \in results /\ Genuine(event.result)

EventsAreGenuine ==
    /\ \A i \in DOMAIN events : Told(events[i])
    /\ \A i \in DOMAIN shown : Told(shown[i])

StatusIsShown ==
    record.status \in {"completed", "degraded"} =>
        \E i \in DOMAIN shown : shown[i].id = "completed" /\ StatusOf(shown[i]) = record.status

AnalysisInv ==
    /\ AnalysisTypes /\ OneBinding /\ NothingBeforeTheRun
    /\ WorkIsGenuine /\ EventsAreGenuine /\ StatusIsShown

-----------------------------------------------------------------------------
LEMMA AnalysisStarts == AnalysisInit => AnalysisInv
<1> SUFFICES ASSUME AnalysisInit PROVE AnalysisInv
  OBVIOUS
<1>1. /\ record = [by |-> NoOne, status |-> "none"] /\ job = [at |-> "none", lock |-> NoOne, tries |-> 0]
      /\ events = <<>> /\ shown = <<>> /\ worker = [w \in Workers |-> Resting]
      /\ Resting = [at |-> "rest", result |-> NoAnswer]
      /\ \A c \in Callers : caller[c].at = "new"
  BY DEF AnalysisInit, NoRecord, Resting
<1>2. caller \in [Callers -> [at : {"new", "queued", "refused"} \cup Requesting, scan : Scans]]
  BY DEF AnalysisInit, Requesting
<1>3. AnalysisTypes
  BY <1>1, <1>2 DEF AnalysisTypes
<1>4. OneBinding /\ NothingBeforeTheRun /\ StatusIsShown
  BY <1>1 DEF OneBinding, Requesting, NothingBeforeTheRun, StatusIsShown
<1>5. WorkIsGenuine /\ EventsAreGenuine
  BY <1>1 DEF WorkIsGenuine, Answering, EventsAreGenuine
<1> QED
  BY <1>3, <1>4, <1>5 DEF AnalysisInv

\* What the analysis is bound to stays: the recorded caller's scan.
LEMMA FactsStay ==
    ASSUME AnalysisInv, record.by # NoOne, record'.by = record.by,
           \A c \in Callers : caller'[c].scan = caller[c].scan
    PROVE  \A r : Genuine(r)' <=> Genuine(r)
<1>1. record.by \in Callers
  BY DEF AnalysisInv, AnalysisTypes
<1> QED
  BY <1>1 DEF Genuine, Outcomes

\* A request that only moves on, before or after the run is recorded.
LEMMA RequestStep ==
    ASSUME AnalysisInv, NEW c \in Callers, NEW at \in {"new", "queued", "refused"} \cup Requesting, Goes(c, at),
           advisory' = advisory \/ \A d \in Callers \ {c} : caller[d].at \notin Requesting,
           at \in Requesting => advisory' = c /\ record.by = NoOne,
           UNCHANGED <<results, record, shown, job, worker, events>>
    PROVE  AnalysisInv'
<1> USE DEF AnalysisInv
<1>1. /\ caller' \in [Callers -> [at : {"new", "queued", "refused"} \cup Requesting, scan : Scans]]
      /\ \A d \in Callers : caller'[d].scan = caller[d].scan
      /\ caller'[c].at = at /\ \A d \in Callers : d # c => caller'[d].at = caller[d].at
  <2>1. caller' = [caller EXCEPT ![c].at = at]
    BY DEF Goes
  <2> QED
    BY <2>1 DEF AnalysisTypes
<1>2. AnalysisTypes' /\ NothingBeforeTheRun' /\ StatusIsShown'
  BY <1>1 DEF AnalysisTypes, NothingBeforeTheRun, StatusIsShown
<1>3. OneBinding'
  BY <1>1 DEF OneBinding
<1>4. WorkIsGenuine' /\ EventsAreGenuine'
  <2>1. CASE record.by = NoOne
    BY <2>1 DEF NothingBeforeTheRun, WorkIsGenuine, Answering, Resting, EventsAreGenuine
  <2>2. CASE record.by # NoOne
    BY <1>1, <2>2, FactsStay DEF WorkIsGenuine, EventsAreGenuine, Told
  <2> QED
    BY <2>1, <2>2
<1> QED
  BY <1>2, <1>3, <1>4

LEMMA EventsGrow ==
    ASSUME events \in Seq(Notices), NEW e \in Notices, events' = Append(events, e)
    PROVE  /\ events' \in Seq(Notices) /\ DOMAIN events = 1 .. Len(events) /\ DOMAIN events' = 1 .. Len(events) + 1
           /\ Len(events) \in Nat /\ events'[Len(events) + 1] = e
           /\ \A i \in 1 .. Len(events) : events'[i] = events[i]
OBVIOUS

\* An instance of the function moves on, and may tell what it has stored.
LEMMA InstanceStep ==
    ASSUME AnalysisInv, record.by # NoOne, NEW w \in Workers,
           NEW new \in [at : {"rest", "begin", "work", "ask", "repair", "raised"} \cup Answering,
                        result : Outcomes \cup {NoAnswer}],
           worker' = [worker EXCEPT ![w] = new],
           new.at \in Answering => Genuine(new.result),
           new.at = "report" => new.result \in results',
           results \subseteq results',
           job'.lock \in Workers \cup {NoOne},
           events' = events \/ \E e \in Notices : Told(e) /\ events' = Append(events, e),
           UNCHANGED <<caller, advisory, record, shown>>
    PROVE  AnalysisInv'
<1> USE DEF AnalysisInv
<1> DEFINE StillTold(e) == e.id = "completed" => e.result \in results' /\ Genuine(e.result)
<1>1. \A r : Genuine(r)' <=> Genuine(r)
  BY DEF Genuine
<1>2. \A e : Told(e) => StillTold(e)
  BY DEF Told
<1>3. events' \in Seq(Notices) /\ \A i \in DOMAIN events' : StillTold(events'[i])
  <2>1. CASE events' = events
    BY <1>2, <2>1 DEF AnalysisTypes, EventsAreGenuine
  <2>2. ASSUME NEW e \in Notices, Told(e), events' = Append(events, e)
        PROVE  events' \in Seq(Notices) /\ \A i \in DOMAIN events' : StillTold(events'[i])
    <3>1. /\ events' \in Seq(Notices) /\ DOMAIN events = 1 .. Len(events) /\ DOMAIN events' = 1 .. Len(events) + 1
          /\ Len(events) \in Nat /\ events'[Len(events) + 1] = e
          /\ \A i \in 1 .. Len(events) : events'[i] = events[i]
      BY <2>2, EventsGrow DEF AnalysisTypes
    <3>3. \A i \in 1 .. Len(events) : StillTold(events[i])
      BY <1>2, <3>1 DEF EventsAreGenuine
    <3>4. StillTold(e)
      BY <1>2, <2>2
    <3> HIDE DEF StillTold
    <3> QED
      BY <3>1, <3>3, <3>4
  <2> QED
    BY <2>1, <2>2
<1>4. AnalysisTypes'
  BY <1>3 DEF AnalysisTypes
<1>5. OneBinding' /\ NothingBeforeTheRun' /\ StatusIsShown'
  BY DEF OneBinding, NothingBeforeTheRun, StatusIsShown
<1>6. WorkIsGenuine'
  <2>1. worker'[w] = new /\ \A v \in Workers : v # w => worker'[v] = worker[v]
    BY DEF AnalysisTypes
  <2> QED
    BY <1>1, <2>1 DEF WorkIsGenuine
<1>7. EventsAreGenuine'
  <2>1. \A i \in DOMAIN shown : StillTold(shown[i])
    BY <1>2 DEF EventsAreGenuine
  <2> QED
    BY <1>1, <1>3, <2>1 DEF EventsAreGenuine, Told
<1> QED
  BY <1>4, <1>5, <1>6, <1>7

\* A broker that leaves a job to somebody else keeps its record well formed.
LEMMA ReturnedLock ==
    ASSUME AnalysisInv, NEW w \in Workers, job' = Returned(w)
    PROVE  job'.lock \in Workers \cup {NoOne}
<1>1. [job EXCEPT !.lock = NoOne, !.at = IF job.tries = MaxTries THEN "dead" ELSE "ready"].lock \in {NoOne, job.lock}
  OBVIOUS
<1> QED
  BY <1>1 DEF AnalysisInv, AnalysisTypes, Returned

LEMMA EventsShrink ==
    ASSUME events \in Seq(Notices), events # <<>>
    PROVE  /\ Head(events) \in Notices /\ Head(events) = events[1] /\ 1 \in DOMAIN events
           /\ Tail(events) \in Seq(Notices)
           /\ \A i \in DOMAIN Tail(events) : i + 1 \in DOMAIN events /\ Tail(events)[i] = events[i + 1]
OBVIOUS

LEMMA ShownGrows ==
    ASSUME shown \in Seq(Notices), NEW e \in Notices, shown' = Append(shown, e)
    PROVE  /\ shown' \in Seq(Notices) /\ DOMAIN shown = 1 .. Len(shown) /\ DOMAIN shown' = 1 .. Len(shown) + 1
           /\ Len(shown) \in Nat /\ shown'[Len(shown) + 1] = e
           /\ \A i \in 1 .. Len(shown) : shown'[i] = shown[i]
OBVIOUS

\* The status follows from an event that is shown with it.
LEMMA ProjectStep == AnalysisInv /\ Project => AnalysisInv'
<1> SUFFICES ASSUME AnalysisInv, Project PROVE AnalysisInv'
  OBVIOUS
<1> USE DEF AnalysisInv
<1> DEFINE event == Head(events)
<1>1. /\ events # <<>> /\ events' = Tail(events)
      /\ UNCHANGED <<caller, advisory, results, job, worker>>
      /\ \/ UNCHANGED <<record, shown>>
         \/ /\ shown' = Append(shown, event)
            /\ record' = IF record.status \in Terminal THEN record ELSE [record EXCEPT !.status = StatusOf(event)]
  BY DEF Project, tableVars, blobVars
<1>2. record.by # NoOne
  BY <1>1 DEF NothingBeforeTheRun
<1>3. /\ event \in Notices /\ Told(event)
      /\ events' \in Seq(Notices) /\ \A i \in DOMAIN events' : \E j \in DOMAIN events : events'[i] = events[j]
  <2>1. events \in Seq(Notices) /\ events # <<>>
    BY <1>1 DEF AnalysisTypes
  <2> QED
    BY <1>1, <2>1, EventsShrink DEF EventsAreGenuine
<1>4. record'.by = record.by /\ record' \in [by : Callers \cup {NoOne},
                                             status : {"none", "queued", "repository_analysis_started"} \cup Terminal]
  BY <1>1 DEF AnalysisTypes, StatusOf, Terminal
<1>5. \A r : Genuine(r)' <=> Genuine(r)
  BY <1>1, <1>2, <1>4, FactsStay
<1>6. /\ shown' \in Seq(Notices)
      /\ \A i \in DOMAIN shown : i \in DOMAIN shown' /\ shown'[i] = shown[i]
      /\ \A i \in DOMAIN shown' : shown'[i] = event \/ \E j \in DOMAIN shown : shown'[i] = shown[j]
  <2>1. CASE UNCHANGED <<record, shown>>
    BY <2>1 DEF AnalysisTypes
  <2>2. CASE shown' = Append(shown, event)
    <3>1. shown \in Seq(Notices)
      BY DEF AnalysisTypes
    <3> HIDE DEF event
    <3> QED
      BY <1>3, <2>2, <3>1, ShownGrows
  <2> QED
    BY <1>1, <2>1, <2>2
<1>7. AnalysisTypes'
  BY <1>1, <1>3, <1>4, <1>6 DEF AnalysisTypes
<1>8. OneBinding' /\ NothingBeforeTheRun' /\ WorkIsGenuine'
  BY <1>1, <1>2, <1>4, <1>5 DEF OneBinding, NothingBeforeTheRun, WorkIsGenuine
<1>9. EventsAreGenuine'
  <2>1. \A e : Told(e)' <=> Told(e)
    BY <1>1, <1>5 DEF Told
  <2>2. \A i \in DOMAIN events' : Told(events'[i])
    BY <1>3 DEF EventsAreGenuine
  <2>3. \A i \in DOMAIN shown' : Told(shown'[i])
    BY <1>3, <1>6 DEF EventsAreGenuine
  <2> QED
    BY <1>1, <1>5, <2>2, <2>3 DEF EventsAreGenuine, Told
<1>10. StatusIsShown'
  <2>1. CASE record' = record
    BY <1>6, <2>1 DEF StatusIsShown
  <2>2. CASE record' = [record EXCEPT !.status = StatusOf(event)] /\ shown' = Append(shown, event)
    <3>1. shown \in Seq(Notices)
      BY DEF AnalysisTypes
    <3>2. Len(shown) + 1 \in DOMAIN shown' /\ shown'[Len(shown) + 1] = event
      <4> HIDE DEF event
      <4> QED
        BY <1>3, <2>2, <3>1, ShownGrows
    <3>3. record'.status = StatusOf(event)
      BY <2>2 DEF AnalysisTypes
    <3>4. record'.status \in {"completed", "degraded"} => event.id = "completed"
      BY <3>3 DEF StatusOf
    <3> HIDE DEF event
    <3> QED
      BY <3>2, <3>3, <3>4 DEF StatusIsShown, StatusOf
  <2> QED
    BY <1>1, <2>1, <2>2
<1> QED
  BY <1>7, <1>8, <1>9, <1>10

LEMMA RequestSteps ==
    AnalysisInv /\ (\E c \in Callers : Open(c) \/ Store(c) \/ CommitRequest(c) \/ RollBack(c)) => AnalysisInv'
<1> SUFFICES ASSUME AnalysisInv, NEW c \in Callers, Open(c) \/ Store(c) \/ CommitRequest(c) \/ RollBack(c)
             PROVE  AnalysisInv'
  OBVIOUS
<1> USE DEF AnalysisInv, tableVars, busVars, blobVars
<1>1. CASE Open(c)
  <2>1. \A d \in Callers : caller[d].at \notin Requesting
    BY <1>1, ActorsAssumption DEF Open, OneBinding
  <2>2. PICK at \in {"source", "refused", "queued"} :
           Goes(c, at) /\ (at = "source" => advisory' = c /\ record.by = NoOne)
    BY <1>1 DEF Open
  <2> QED
    BY <1>1, <2>1, <2>2, RequestStep DEF Open, Requesting
<1>2. CASE Store(c)
  <2>1. caller[c].at \in Requesting /\ advisory' = advisory
    BY <1>2 DEF Store, Requesting
  <2>2. PICK at \in {"facts", "commit"} : Goes(c, at)
    BY <1>2 DEF Store
  <2> QED
    BY <1>2, <2>1, <2>2, RequestStep DEF Store, OneBinding, Requesting
<1>3. CASE RollBack(c)
  <2>1. \A d \in Callers \ {c} : caller[d].at \notin Requesting
    BY <1>3 DEF RollBack, OneBinding
  <2> QED
    BY <1>3, <2>1, RequestStep DEF RollBack, Requesting
<1>4. CASE CommitRequest(c)
  <2>1. /\ caller' = [caller EXCEPT ![c].at = "queued"] /\ record' = [by |-> c, status |-> "queued"]
        /\ UNCHANGED <<results, shown, job, events, worker>>
    BY <1>4 DEF CommitRequest, Goes
  <2>2. record.by = NoOne /\ \A d \in Callers \ {c} : caller[d].at \notin Requesting
    BY <1>4 DEF CommitRequest, OneBinding, Requesting
  <2>3. /\ job.lock = NoOne /\ events = <<>> /\ shown = <<>> /\ \A w \in Workers : worker[w] = Resting
    BY <2>2 DEF NothingBeforeTheRun
  <2>4. AnalysisTypes' /\ NothingBeforeTheRun' /\ StatusIsShown'
    BY <2>1, ActorsAssumption DEF AnalysisTypes, NothingBeforeTheRun, StatusIsShown
  <2>5. OneBinding'
    BY <2>1, <2>2 DEF OneBinding, AnalysisTypes, Requesting
  <2>6. WorkIsGenuine' /\ EventsAreGenuine'
    BY <2>1, <2>3 DEF WorkIsGenuine, Answering, Resting, EventsAreGenuine
  <2> QED
    BY <2>4, <2>5, <2>6
<1> QED
  BY <1>1, <1>2, <1>3, <1>4

\* Sending appends the event or leaves the queue alone.
LEMMA SendAppends ==
    ASSUME NEW e \in Notices, Told(e), Send(e)
    PROVE  events' = events \/ \E f \in Notices : Told(f) /\ events' = Append(events, f)
BY DEF Send

LEMMA InstanceSteps ==
    AnalysisInv /\ (\E w \in Workers :
        \/ Receive(w) \/ Begin(w) \/ ReadFacts(w) \/ Ask(w) \/ Upload(w) \/ Report(w) \/ Settle(w) \/ Fail(w)
        \/ Raise(w) \/ Stop(w) \/ LoseLock(w)) => AnalysisInv'
<1> SUFFICES ASSUME AnalysisInv, NEW w \in Workers,
                    \/ Receive(w) \/ Begin(w) \/ ReadFacts(w) \/ Ask(w) \/ Upload(w) \/ Report(w) \/ Settle(w)
                    \/ Fail(w) \/ Raise(w) \/ Stop(w) \/ LoseLock(w)
             PROVE  AnalysisInv'
  OBVIOUS
<1> USE DEF AnalysisInv, tableVars, busVars, blobVars
<1> DEFINE Places == {"rest", "begin", "work", "ask", "repair", "raised"} \cup Answering
           Hands  == [at : Places, result : Outcomes \cup {NoAnswer}]
           held   == worker[w].result
<1>1. /\ worker \in [Workers -> Hands] /\ held \in Outcomes \cup {NoAnswer}
      /\ worker[w] = [at |-> worker[w].at, result |-> held] /\ job.lock \in Workers \cup {NoOne}
  BY DEF AnalysisTypes
<1>2. record.by # NoOne
  <2>1. CASE record.by = NoOne
    <3>1. job.at = "none" /\ job.lock = NoOne /\ worker[w] = Resting
      BY <2>1 DEF NothingBeforeTheRun
    <3>2. worker[w].at = "rest"
      BY <3>1 DEF Resting
    <3>3. NoOne # w
      BY ActorsAssumption
    <3> QED
      BY <3>1, <3>2, <3>3 DEF Receive, Begin, ReadFacts, Ask, Asking, Upload, Report, Settle, Fail, Raise, Stop,
                              LoseLock, Holds
  <2> QED
    BY <2>1
<1>3. ASSUME NEW at, Goto(w, at) PROVE worker' = [worker EXCEPT ![w] = [at |-> at, result |-> held]]
  <2>1. worker' = [worker EXCEPT ![w].at = at]
    BY <1>3 DEF Goto
  <2>2. PICK new : new = [worker[w] EXCEPT !.at = at]
    OBVIOUS
  <2>3. worker' = [worker EXCEPT ![w] = new]
    BY <1>1, <2>1, <2>2
  <2>4. new = [at |-> at, result |-> held]
    BY <1>1, <2>2
  <2> QED
    BY <2>3, <2>4
<1>4. Resting \in Hands /\ Resting.at \notin Answering
  BY DEF Resting, Answering
<1>5. ASSUME NEW at \in Places \ Answering, Goto(w, at), job'.lock \in Workers \cup {NoOne},
             events' = events \/ \E e \in Notices : Told(e) /\ events' = Append(events, e),
             UNCHANGED <<caller, advisory, results, record, shown>>
      PROVE  AnalysisInv'
  BY <1>1, <1>2, <1>3, <1>5, InstanceStep DEF Answering
<1>6. ASSUME worker' = [worker EXCEPT ![w] = Resting], job'.lock \in Workers \cup {NoOne},
             events' = events \/ \E e \in Notices : Told(e) /\ events' = Append(events, e),
             UNCHANGED <<caller, advisory, results, record, shown>>
      PROVE  AnalysisInv'
  BY <1>2, <1>4, <1>6, InstanceStep DEF Answering
<1>7. CASE Receive(w)
  <2>1. job'.lock \in Workers \cup {NoOne}
    BY <1>7 DEF Receive
  <2> QED
    BY <1>1, <1>5, <1>7, <2>1 DEF Receive, Answering
<1>8. CASE Begin(w)
  <2>1. [id |-> "started", result |-> NoAnswer] \in Notices /\ Told([id |-> "started", result |-> NoAnswer])
    BY DEF Notices, Told
  <2> QED
    BY <1>1, <1>5, <1>8, <2>1, SendAppends DEF Begin, Answering
<1>9. CASE ReadFacts(w)
  BY <1>1, <1>5, <1>9 DEF ReadFacts, Answering
<1>10. CASE Ask(w)
  <2>1. ASSUME NEW answer \in Answers \cup {NoAnswer}, Answered(w, answer),
               answer # NoAnswer => Supported(answer, caller[record.by].scan)
        PROVE  AnalysisInv'
    <3> DEFINE result == [facts |-> caller[record.by].scan, answer |-> answer]
               new    == [at |-> "upload", result |-> result]
    <3>1. record.by \in Callers /\ caller[record.by].scan \in Scans
      BY <1>2 DEF AnalysisTypes
    <3>2. result \in Outcomes /\ Genuine(result)
      BY <2>1, <3>1 DEF Outcomes, Genuine, Supported
    <3>3. new \in Hands /\ worker' = [worker EXCEPT ![w] = new]
      BY <2>1, <3>2 DEF Answered, Answering
    <3>4. new.at = "upload" /\ new.result = result
      OBVIOUS
    <3> HIDE DEF new, result
    <3> QED
      BY <1>1, <1>2, <1>10, <3>2, <3>3, <3>4, InstanceStep DEF Ask
  <2>2. ASSUME Goto(w, "repair") PROVE AnalysisInv'
    BY <1>1, <1>5, <1>10, <2>2 DEF Ask, Answering
  <2> QED
    BY <1>10, <2>1, <2>2 DEF Ask, Unassisted
<1>11. CASE Upload(w)
  <2>1. Genuine(held) /\ results' = results \cup {held}
    BY <1>11 DEF Upload, Stored, WorkIsGenuine, Answering, held
  <2>2. worker' = [worker EXCEPT ![w] = [at |-> "report", result |-> held]]
    BY <1>3, <1>11 DEF Upload
  <2> DEFINE new == [at |-> "report", result |-> held]
  <2>3. new \in Hands /\ new.at = "report" /\ new.result = held
    BY <1>1 DEF Answering
  <2> HIDE DEF new
  <2> QED
    BY <1>1, <1>2, <1>11, <2>1, <2>2, <2>3, InstanceStep DEF Upload, new
<1>12. ASSUME worker[w].at = "report" PROVE Completed(w) \in Notices /\ Told(Completed(w))
  <2>1. Genuine(held) /\ held \in results
    BY <1>12 DEF WorkIsGenuine, Answering, held
  <2> QED
    BY <2>1 DEF Completed, Notices, Told, Genuine, held
<1>13. CASE Report(w)
  <2>1. events' = events \/ \E e \in Notices : Told(e) /\ events' = Append(events, e)
    BY <1>12, <1>13, SendAppends DEF Report
  <2>2. Genuine(held)
    BY <1>13 DEF Report, WorkIsGenuine, Answering, held
  <2> DEFINE new == [at |-> "settle", result |-> held]
  <2>3. new \in Hands /\ new.at = "settle" /\ new.result = held
    BY <1>1 DEF Answering
  <2>4. worker' = [worker EXCEPT ![w] = new]
    BY <1>3, <1>13 DEF Report
  <2> HIDE DEF new
  <2> QED
    BY <1>1, <1>2, <1>13, <2>1, <2>2, <2>3, <2>4, InstanceStep DEF Report
<1>14. CASE Settle(w)
  <2>1. job'.lock \in Workers \cup {NoOne}
    BY <1>1, <1>14 DEF Settle
  <2> QED
    BY <1>6, <1>14, <2>1 DEF Settle
<1>15. CASE Fail(w)
  <2>1. [id |-> "failed", result |-> NoAnswer] \in Notices /\ Told([id |-> "failed", result |-> NoAnswer])
    BY DEF Notices, Told
  <2> QED
    BY <1>6, <1>15, <2>1, SendAppends, ReturnedLock DEF Fail
<1>16. CASE Raise(w)
  <2>1. events' = events \/ \E e \in Notices : Told(e) /\ events' = Append(events, e)
    BY <1>12, <1>16, SendAppends DEF Raise
  <2> QED
    BY <1>1, <1>5, <1>16, <2>1 DEF Raise, Answering
<1>17. CASE Stop(w)
  BY <1>6, <1>17, ReturnedLock DEF Stop
<1>18. CASE LoseLock(w)
  <2>1. worker' = [worker EXCEPT ![w] = worker[w]]
    BY <1>1, <1>18 DEF LoseLock
  <2> QED
    BY <1>1, <1>2, <1>18, <2>1, ReturnedLock, InstanceStep DEF LoseLock, WorkIsGenuine
<1> QED
  BY <1>7, <1>8, <1>9, <1>10, <1>11, <1>13, <1>14, <1>15, <1>16, <1>17, <1>18

-----------------------------------------------------------------------------
LEMMA AnalysisStep == AnalysisInv /\ [AnalysisNext]_analysisVars => AnalysisInv'
<1>1. AnalysisInv /\ UNCHANGED analysisVars => AnalysisInv'
  BY DEF analysisVars, tableVars, busVars, blobVars, AnalysisInv, AnalysisTypes, OneBinding, NothingBeforeTheRun,
         WorkIsGenuine, Genuine, EventsAreGenuine, Told, StatusIsShown, StatusOf
<1>2. AnalysisInv /\ Dispatch => AnalysisInv'
  <2> SUFFICES ASSUME AnalysisInv, Dispatch PROVE AnalysisInv'
    OBVIOUS
  <2>1. /\ record.by # NoOne /\ job'.lock = job.lock
        /\ UNCHANGED <<caller, advisory, results, record, shown, events, worker>>
    BY DEF Dispatch, tableVars, blobVars
  <2> QED
    BY <2>1 DEF AnalysisInv, AnalysisTypes, OneBinding, NothingBeforeTheRun,
                WorkIsGenuine, Genuine, EventsAreGenuine, Told, StatusIsShown, StatusOf
<1> QED
  BY <1>1, <1>2, RequestSteps, InstanceSteps, ProjectStep DEF AnalysisNext, Progress

\* In every reachable state of an analysis, the run was recorded before anything
\* was done for it, results are stored before they are told, and the status is that
\* of an event that is shown.
THEOREM AnalysisInvariance == AnalysisSpec => []AnalysisInv
BY AnalysisStarts, AnalysisStep, PTL DEF AnalysisSpec

LEMMA ShownFollows == AnalysisInv => ShownIsStored
<1> SUFFICES ASSUME AnalysisInv, record.status \in {"completed", "degraded"} PROVE ShownIsStored
  BY DEF ShownIsStored
<1>1. PICK i \in DOMAIN shown : shown[i].id = "completed" /\ StatusOf(shown[i]) = record.status
  BY DEF AnalysisInv, StatusIsShown
<1>2. shown[i].result \in results /\ Genuine(shown[i].result)
  BY <1>1 DEF AnalysisInv, EventsAreGenuine, Told
<1> QED
  BY <1>1, <1>2 DEF ShownIsStored, Genuine

\* What the history shows of an analysis is in the storage, made of the facts that
\* the run is bound to, for any number of callers, instances, answers and failures.
THEOREM ShownHolds == AnalysisSpec => []ShownIsStored
BY ShownFollows, AnalysisInvariance, PTL

-----------------------------------------------------------------------------
(* Both together. *)

\* Neither half disturbs the other: what is proved of each holds of the composition
\* that carries a command from the API to the history.
THEOREM CommandsAreSound == CommandsSpec => [](RepeatsAreCutOffs /\ ShownIsStored)
<1>1. CommandsInit => IInv /\ AnalysisInv
  BY InitIInv, AnalysisStarts DEF CommandsInit
<1>2. [CommandsNext]_commandVars => [Next]_vars /\ [AnalysisNext]_analysisVars
  BY DEF CommandsNext, commandVars
<1> QED
  BY <1>1, <1>2, OutboxStep, AnalysisStep, RepeatsFollow, ShownFollows, PTL DEF CommandsSpec

-----------------------------------------------------------------------------
(* Ephemeral resources.  Nothing is asked of Azure, nor undone, for a row    *)
(* that does not exist; and a deletion that has begun is not followed by a   *)
(* deployment, except where it began too early; and of what a deletion has    *)
(* passed only what it missed exists.                                        *)

Deploying == \E t \in ResourceTasks : task[t].at = "deploy"

NothingBefore ==
    resource.status = "none" =>
        azure = "none" /\ present = {} /\ \A t \in ResourceTasks : task[t] = Idle

AwaitedOfTheDeployment == awaited # {} => azure = "running"

PassedIsGone ==
    \A t \in ResourceTasks : task[t].at = "delete" => present \subseteq task[t].left \cup task[t].missed

DeletionsAreLast ==
    ~early /\ (\E t \in ResourceTasks : task[t].at \in Deleting) => ~Deploying

DeletedStaysGone ==
    ~early /\ (\E t \in ResourceTasks : task[t].at = "deleted") => azure = "none" /\ present = {}

DestroyedStaysGone ==
    ~early /\ resource.status = "destroyed" => azure = "none" /\ present = {} /\ ~Deploying

ResourceInv ==
    /\ ResourceTypes
    /\ NothingBefore
    /\ AwaitedOfTheDeployment /\ PassedIsGone
    /\ DeletionsAreLast /\ DeletedStaysGone /\ DestroyedStaysGone

-----------------------------------------------------------------------------
(* Investigations.  What a call of the gateway returns as a model's answer   *)
(* has satisfied its contract; and an investigation that is given up was old *)
(* before.                                                                   *)

Calls == [at : {"none", "route", "initial", "repair"} \cup CallOutcomes, workload : Workloads \cup {"none"},
          requests : Nat, contract : BOOLEAN, reason : Reasons \cup {"none"}]

CallTypes == call \in [Askers -> Calls]

ModelAnswersSatisfyTheContract == \A c \in Askers : call[c].at = "model" => call[c].contract

GivenUpWhenOld ==
    /\ daemon # {} => old
    /\ investigator = "asking" => investigation.error = "none" \/ old

InvestigationInv ==
    /\ CallTypes /\ ModelAnswersSatisfyTheContract
    /\ GivenUpWhenOld
    /\ DiagnosisIsGenuine

-----------------------------------------------------------------------------
LEMMA ResourceInitInv == ResourcesInit => ResourceInv
<1> SUFFICES ASSUME ResourcesInit PROVE ResourceInv
  OBVIOUS
<1>1. /\ resource.status # "destroyed"
      /\ resource \in [status : Statuses, left : 0 .. MaxAge, age : 0 .. MaxAge, tracked : BOOLEAN]
      /\ resource.left <= MaxAge - resource.age
  <2>1. CASE resource = NoRow
    BY <2>1, LimitsAssumption DEF NoRow, Statuses
  <2>2. CASE resource = Legacy
    BY <2>2, LimitsAssumption DEF Legacy, Statuses
  <2> QED
    BY <2>1, <2>2 DEF ResourcesInit
<1>2. \A t \in ResourceTasks : task[t] = Idle
  BY DEF ResourcesInit
<1>3. task \in [ResourceTasks -> TaskRecords(Steps)]
  <2>1. Idle \in TaskRecords(Steps)
    BY DEF Idle, At, TaskRecords, Steps
  <2> QED
    BY <2>1 DEF ResourcesInit
<1>4. ResourceTypes
  <2>1. /\ early \in BOOLEAN /\ cutOff \in BOOLEAN /\ azure \in Deployments
        /\ awaited \subseteq Managed /\ present \subseteq Managed
    BY DEF ResourcesInit, Deployments
  <2>2. stops \in 0 .. MaxStops
    BY LimitsAssumption DEF ResourcesInit
  <2> QED
    BY <1>1, <1>3, <2>1, <2>2 DEF ResourceTypes, inAzure
<1>5. \A t \in ResourceTasks : task[t].at = "idle"
  BY <1>2 DEF Idle, At
<1> QED
  BY <1>1, <1>2, <1>4, <1>5
     DEF ResourcesInit, ResourceInv, NothingBefore, AwaitedOfTheDeployment, PassedIsGone, DeletionsAreLast, DeletedStaysGone, DestroyedStaysGone, Deleting

\* What the three kinds of step do to the tasks.
LEMMA TaskStarts ==
    ASSUME NEW t \in ResourceTasks, NEW kind, NEW at \in Steps, NEW marked \in BOOLEAN,
           task \in [ResourceTasks -> TaskRecords(Steps)], Starts(t, kind, at, marked)
    PROVE  /\ task' \in [ResourceTasks -> TaskRecords(Steps)]
           /\ task'[t].at = at
           /\ \A s \in ResourceTasks : s # t => task'[s] = task[s]
<1>1. At(at, marked) \in TaskRecords(Steps) /\ At(at, marked).at = at
  BY DEF At, TaskRecords
<1> QED
  BY <1>1 DEF Starts

LEMMA TaskMoves ==
    ASSUME NEW t \in ResourceTasks, NEW from, NEW to \in Steps,
           task \in [ResourceTasks -> TaskRecords(Steps)], Moves(t, from, to)
    PROVE  /\ task' \in [ResourceTasks -> TaskRecords(Steps)]
           /\ task[t].at = from /\ task'[t].at = to
           /\ \A s \in ResourceTasks : s # t => task'[s] = task[s]
<1>1. At(to, FALSE) \in TaskRecords(Steps) /\ At(to, FALSE).at = to
  BY DEF At, TaskRecords
<1> QED
  BY <1>1 DEF Moves

LEMMA TaskEnds ==
    ASSUME NEW t \in ResourceTasks, NEW from,
           task \in [ResourceTasks -> TaskRecords(Steps)], Ends(t, from)
    PROVE  /\ task' \in [ResourceTasks -> TaskRecords(Steps)]
           /\ task[t].at = from /\ task'[t] = Idle /\ task'[t].at = "idle"
           /\ \A s \in ResourceTasks : s # t => task'[s] = task[s]
<1>1. Idle \in TaskRecords(Steps) /\ Idle.at = "idle"
  BY DEF Idle, At, TaskRecords, Steps
<1> QED
  BY <1>1 DEF Ends

\* A task that is at work has a row.
LEMMA WorkHasARow ==
    ASSUME ResourceInv, NEW t \in ResourceTasks, task[t].at # "idle"
    PROVE  resource.status # "none"
BY DEF ResourceInv, NothingBefore, Idle, At

\* Writing a status keeps the type of the row.
LEMMA StatusWritten ==
    ASSUME ResourceInv, NEW status \in Statuses, Writes(status)
    PROVE  /\ resource' \in [status : Statuses, left : 0 .. MaxAge, age : 0 .. MaxAge, tracked : BOOLEAN]
           /\ resource'.status = status
           /\ resource'.tracked => resource'.left <= MaxAge - resource'.age
<1>1. resource \in [status : Statuses, left : 0 .. MaxAge, age : 0 .. MaxAge, tracked : BOOLEAN]
  BY DEF ResourceInv, ResourceTypes
<1>2. /\ resource' = [resource EXCEPT !.status = status]
      /\ resource.tracked => resource.left <= MaxAge - resource.age
  BY DEF ResourceInv, ResourceTypes, Writes
<1> QED
  BY <1>1, <1>2

\* Steps that neither ask Azure for anything nor come closer to it.
LEMMA QuietStep ==
    ASSUME ResourceInv, ResourceTypes',
           (resource.status # "destroyed" \/ early) => resource'.status # "destroyed" \/ early',
           resource'.status = "none" => resource.status = "none",
           inAzure' = inAzure, early' = early,
           \A t \in ResourceTasks : task'[t] = task[t] \/ (resource.status # "none" /\ task'[t].at \notin Deleting \cup {"deploy"})
    PROVE  ResourceInv'
<1>0. azure' = azure /\ awaited' = awaited /\ present' = present
  BY DEF inAzure
<1>1. Deploying' => Deploying
  BY DEF Deploying
<1>2. NothingBefore' /\ AwaitedOfTheDeployment'
  BY <1>0 DEF ResourceInv, NothingBefore, AwaitedOfTheDeployment
<1>6. PassedIsGone'
  BY <1>0 DEF ResourceInv, PassedIsGone, Deleting
<1>3. DeletionsAreLast'
  BY <1>1 DEF ResourceInv, DeletionsAreLast
<1>4. DeletedStaysGone'
  BY <1>0 DEF ResourceInv, DeletedStaysGone, Deleting
<1>5. DestroyedStaysGone'
  BY <1>0, <1>1 DEF ResourceInv, DestroyedStaysGone
<1> QED
  BY <1>2, <1>3, <1>4, <1>5, <1>6 DEF ResourceInv


-----------------------------------------------------------------------------
LEMMA ResourceActions ==
    ASSUME ResourceInv, NEW t \in ResourceTasks, Provision(t) \/ RequestDeletion(t) \/ Step(t)
    PROVE  ResourceInv'
<1>0. /\ task \in [ResourceTasks -> TaskRecords(Steps)]
      /\ resource \in [status : Statuses, left : 0 .. MaxAge, age : 0 .. MaxAge, tracked : BOOLEAN]
      /\ azure \in Deployments /\ awaited \subseteq Managed /\ present \subseteq Managed
      /\ early \in BOOLEAN /\ cutOff \in BOOLEAN /\ stops \in 0 .. MaxStops
      /\ resource.tracked => resource.left <= MaxAge - resource.age
  BY DEF ResourceInv, ResourceTypes
<1>1. CASE Provision(t)
  <2>1. resource.status = "none"
    BY <1>1 DEF Provision, NoRow
  <2>2. /\ azure = "none" /\ present = {} /\ \A s \in ResourceTasks : task[s] = Idle
    BY <2>1 DEF ResourceInv, NothingBefore
  <2>3. \A s \in ResourceTasks : task[s].at = "idle"
    BY <2>2 DEF Idle, At
  <2>4. /\ task' \in [ResourceTasks -> TaskRecords(Steps)]
        /\ task'[t].at = "deploy"
        /\ \A s \in ResourceTasks : s # t => task'[s] = task[s]
    BY <1>0, <1>1, TaskStarts DEF Provision, Steps
  <2>5. PICK ttl \in 1 .. MaxAge : resource' = [NoRow EXCEPT !.status = "provisioning", !.left = ttl]
    BY <1>1 DEF Provision
  <2>6. resource' = [status |-> "provisioning", left |-> ttl, age |-> 0, tracked |-> TRUE]
    BY <2>5 DEF NoRow
  <2>7. /\ resource' \in [status : Statuses, left : 0 .. MaxAge, age : 0 .. MaxAge, tracked : BOOLEAN]
        /\ resource'.left <= MaxAge - resource'.age /\ resource'.status = "provisioning"
    BY <2>6, LimitsAssumption DEF Statuses
  <2>8. UNCHANGED <<inAzure, early, cutOff, stops>>
    BY <1>1 DEF Provision
  <2>9. ResourceTypes'
    BY <1>0, <2>4, <2>7, <2>8 DEF ResourceTypes, inAzure
  <2>10. \A s \in ResourceTasks : task'[s].at \notin Deleting
    BY <2>3, <2>4 DEF Deleting
  <2>11. /\ NothingBefore' /\ PassedIsGone' /\ DeletionsAreLast' /\ DeletedStaysGone' /\ DestroyedStaysGone'
    BY <2>7, <2>10 DEF NothingBefore, PassedIsGone, DeletionsAreLast, DeletedStaysGone, DestroyedStaysGone, Deleting
  <2>12. AwaitedOfTheDeployment'
    BY <2>8 DEF ResourceInv, AwaitedOfTheDeployment, inAzure
  <2> QED
    BY <2>9, <2>11, <2>12 DEF ResourceInv
<1>2. CASE RequestDeletion(t)
  <2>1. resource.status # "none" /\ UNCHANGED <<resource, inAzure, early, cutOff, stops>>
    BY <1>2 DEF RequestDeletion
  <2>2. (resource.status = "destroying") \in BOOLEAN
    OBVIOUS
  <2>3. /\ task' \in [ResourceTasks -> TaskRecords(Steps)]
        /\ task'[t].at = "begin"
        /\ \A s \in ResourceTasks : s # t => task'[s] = task[s]
    <3>1. Starts(t, "request", "begin", resource.status = "destroying")
      BY <1>2 DEF RequestDeletion
    <3> QED
      BY <1>0, <2>2, <3>1, TaskStarts DEF Steps
  <2>4. ResourceTypes'
    BY <1>0, <2>1, <2>3 DEF ResourceTypes, inAzure
  <2> QED
    BY <2>1, <2>3, <2>4, QuietStep DEF Deleting
<1>3. CASE Deploy(t)
  <2>1. UNCHANGED <<resource, present, early, cutOff, stops>>
    BY <1>3 DEF Deploy
  <2>2. task[t].at = "deploy" /\ Deploying /\ resource.status # "none"
    <3>1. task[t].at = "deploy"
      BY <1>3 DEF Deploy, Moves
    <3> QED
      BY <3>1, WorkHasARow DEF Deploying
  <2>3. CASE (Moves(t, "deploy", "wait") \/ Moves(t, "deploy", "failed")) /\ azure' = "running" /\ awaited' = Managed
    <3>1. /\ task' \in [ResourceTasks -> TaskRecords(Steps)]
          /\ task'[t].at \in {"wait", "failed"}
          /\ \A s \in ResourceTasks : s # t => task'[s] = task[s]
      BY <1>0, <2>3, TaskMoves DEF Steps
    <3>2. ResourceTypes'
      BY <1>0, <2>1, <2>3, <3>1 DEF ResourceTypes, Deployments
    <3>3. early \/ (resource.status # "destroyed" /\ \A s \in ResourceTasks : task[s].at \notin Deleting)
      BY <2>2 DEF ResourceInv, DestroyedStaysGone, DeletionsAreLast
    <3>4. early' \/ (resource'.status # "destroyed" /\ \A s \in ResourceTasks : task'[s].at \notin Deleting)
      BY <2>1, <3>1, <3>3 DEF Deleting
    <3>5. resource'.status # "none"
      BY <2>1, <2>2
    <3>6. AwaitedOfTheDeployment'
      BY <2>3 DEF AwaitedOfTheDeployment
    <3>7. PassedIsGone'
      BY <2>1, <3>1 DEF ResourceInv, PassedIsGone
    <3> QED
      BY <3>2, <3>4, <3>5, <3>6, <3>7
         DEF ResourceInv, NothingBefore, DeletionsAreLast, DeletedStaysGone, DestroyedStaysGone, Deleting
  <2>4. CASE Moves(t, "deploy", "failed") /\ UNCHANGED <<azure, awaited>>
    <3>1. /\ task' \in [ResourceTasks -> TaskRecords(Steps)]
          /\ task'[t].at = "failed"
          /\ \A s \in ResourceTasks : s # t => task'[s] = task[s]
      BY <1>0, <2>4, TaskMoves DEF Steps
    <3>2. ResourceTypes'
      BY <1>0, <2>1, <2>4, <3>1 DEF ResourceTypes, inAzure
    <3>3. inAzure' = inAzure
      BY <2>1, <2>4 DEF inAzure
    <3> QED
      BY <2>1, <2>2, <3>1, <3>2, <3>3, QuietStep DEF Deleting
  <2> QED
    BY <1>3, <2>3, <2>4 DEF Deploy
<1>4. CASE AwaitDeployment(t)
  <2>1. UNCHANGED <<resource, inAzure, early, cutOff, stops>>
    BY <1>4 DEF AwaitDeployment
  <2>2. task[t].at = "wait"
    BY <1>4 DEF AwaitDeployment, Moves
  <2>3. /\ task' \in [ResourceTasks -> TaskRecords(Steps)]
        /\ task'[t].at \in {"confirmed", "failed"}
        /\ \A s \in ResourceTasks : s # t => task'[s] = task[s]
    BY <1>0, <1>4, TaskMoves DEF Steps, AwaitDeployment
  <2>4. ResourceTypes'
    BY <1>0, <2>1, <2>3 DEF ResourceTypes, inAzure
  <2>5. resource.status # "none"
    BY <2>2, WorkHasARow
  <2> QED
    BY <2>1, <2>3, <2>4, <2>5, QuietStep DEF Deleting
<1>5. CASE Activate(t)
  <2>1. UNCHANGED <<inAzure, early, cutOff, stops>> /\ Writes("active") /\ Ends(t, "confirmed")
    BY <1>5 DEF Activate
  <2>2. /\ task' \in [ResourceTasks -> TaskRecords(Steps)]
        /\ task[t].at = "confirmed" /\ task'[t].at = "idle"
        /\ \A s \in ResourceTasks : s # t => task'[s] = task[s]
    BY <1>0, <2>1, TaskEnds
  <2>3. /\ resource' \in [status : Statuses, left : 0 .. MaxAge, age : 0 .. MaxAge, tracked : BOOLEAN]
        /\ resource'.status = "active"
        /\ resource'.tracked => resource'.left <= MaxAge - resource'.age
    BY <2>1, StatusWritten DEF Statuses
  <2>4. ResourceTypes'
    BY <1>0, <2>1, <2>2, <2>3 DEF ResourceTypes, inAzure
  <2>5. resource.status # "none"
    BY <2>2, WorkHasARow
  <2> QED
    BY <2>1, <2>2, <2>3, <2>4, <2>5, QuietStep DEF Deleting
<1>6. CASE FailProvision(t)
  <2>1. /\ UNCHANGED <<inAzure, early, cutOff, stops>> /\ Moves(t, "failed", "begin")
        /\ resource' = [resource EXCEPT !.status = "failed", !.left = 0]
    BY <1>6 DEF FailProvision
  <2>2. /\ task' \in [ResourceTasks -> TaskRecords(Steps)]
        /\ task[t].at = "failed" /\ task'[t].at = "begin"
        /\ \A s \in ResourceTasks : s # t => task'[s] = task[s]
    BY <1>0, <2>1, TaskMoves DEF Steps
  <2>3. /\ resource' \in [status : Statuses, left : 0 .. MaxAge, age : 0 .. MaxAge, tracked : BOOLEAN]
        /\ resource'.status = "failed"
        /\ resource'.tracked => resource'.left <= MaxAge - resource'.age
    <3>1. resource'.status = "failed" /\ resource'.left = 0 /\ resource'.age = resource.age
      BY <1>0, <2>1
    <3>2. 0 \in 0 .. MaxAge /\ "failed" \in Statuses
      BY LimitsAssumption DEF Statuses
    <3>3. resource' \in [status : Statuses, left : 0 .. MaxAge, age : 0 .. MaxAge, tracked : BOOLEAN]
      BY <1>0, <2>1, <3>2
    <3>4. 0 <= MaxAge - resource.age
      BY <1>0, LimitsAssumption
    <3> QED
      BY <3>1, <3>3, <3>4
  <2>4. ResourceTypes'
    BY <1>0, <2>1, <2>2, <2>3 DEF ResourceTypes, inAzure
  <2>5. resource.status # "none"
    BY <2>2, WorkHasARow
  <2> QED
    BY <2>1, <2>2, <2>3, <2>4, <2>5, QuietStep DEF Deleting
<1>7. CASE Reap(t)
  <2>1. UNCHANGED <<resource, inAzure, early, cutOff, stops>> /\ resource.status # "none"
    BY <1>7 DEF Reap
  <2>2. Starts(t, "reaper", "begin", FALSE)
    BY <1>7 DEF Reap
  <2>3. /\ task' \in [ResourceTasks -> TaskRecords(Steps)]
        /\ task'[t].at = "begin"
        /\ \A s \in ResourceTasks : s # t => task'[s] = task[s]
    BY <1>0, <2>2, TaskStarts DEF Steps
  <2>4. ResourceTypes'
    BY <1>0, <2>1, <2>3 DEF ResourceTypes, inAzure
  <2> QED
    BY <2>1, <2>3, <2>4, QuietStep DEF Deleting
<1>8. CASE BeginDeletion(t)
  <2>1. /\ UNCHANGED <<inAzure, cutOff, stops>> /\ task[t].at = "begin"
        /\ task' = [task EXCEPT ![t] = [At("delete", FALSE) EXCEPT !.left = Managed]]
        /\ early' = (early \/ Deploying)
    BY <1>8 DEF BeginDeletion, Deploying
  <2>2. /\ task' \in [ResourceTasks -> TaskRecords(Steps)]
        /\ task[t].at = "begin" /\ task'[t].at = "delete" /\ task'[t].left = Managed
        /\ \A s \in ResourceTasks : s # t => task'[s] = task[s]
    <3> DEFINE begun == [At("delete", FALSE) EXCEPT !.left = Managed]
    <3>1. begun \in TaskRecords(Steps) /\ begun.at = "delete" /\ begun.left = Managed
      BY DEF At, TaskRecords, Steps
    <3>2. task' = [task EXCEPT ![t] = begun]
      BY <2>1
    <3> HIDE DEF begun
    <3>3. task'[t] = begun /\ \A s \in ResourceTasks : s # t => task'[s] = task[s]
      BY <1>0, <3>2
    <3> QED
      BY <1>0, <2>1, <3>1, <3>2, <3>3
  <2>3. resource.status # "none"
    BY <2>2, WorkHasARow
  <2>4. /\ resource' \in [status : Statuses, left : 0 .. MaxAge, age : 0 .. MaxAge, tracked : BOOLEAN]
        /\ resource'.status \in {"destroying", resource.status}
        /\ resource'.tracked => resource'.left <= MaxAge - resource'.age
    <3>1. resource' = resource \/ Writes("destroying")
      BY <1>8 DEF BeginDeletion
    <3> QED
      BY <1>0, <3>1, StatusWritten DEF Statuses
  <2>5. early' \in BOOLEAN
    BY <1>0, <2>1 DEF Deploying
  <2>6. ResourceTypes'
    BY <1>0, <2>1, <2>2, <2>4, <2>5 DEF ResourceTypes, inAzure
  <2>7. Deploying' => Deploying
    BY <2>2 DEF Deploying
  <2>8. ~early' => ~early /\ ~Deploying'
    BY <2>1, <2>7
  <2>9. (\E s \in ResourceTasks : task'[s].at = "deleted") => \E s \in ResourceTasks : task[s].at = "deleted"
    BY <2>2
  <2>10. NothingBefore' /\ DeletionsAreLast'
    BY <2>3, <2>4, <2>8 DEF NothingBefore, DeletionsAreLast
  <2>11. DeletedStaysGone'
    BY <2>1, <2>8, <2>9 DEF ResourceInv, DeletedStaysGone, inAzure
  <2>12. DestroyedStaysGone'
    BY <2>1, <2>4, <2>8 DEF ResourceInv, DestroyedStaysGone, inAzure
  <2>13. AwaitedOfTheDeployment'
    BY <2>1 DEF ResourceInv, AwaitedOfTheDeployment, inAzure
  <2>14. PassedIsGone'
    BY <1>0, <2>1, <2>2 DEF ResourceInv, PassedIsGone, inAzure
  <2> QED
    BY <2>6, <2>10, <2>11, <2>12, <2>13, <2>14 DEF ResourceInv
<1>9. CASE LeaveUnverified(t)
  <2>1. UNCHANGED <<inAzure, early, cutOff, stops>> /\ Writes("unverified") /\ Ends(t, "delete")
    BY <1>9 DEF LeaveUnverified
  <2>2. /\ task' \in [ResourceTasks -> TaskRecords(Steps)]
        /\ task[t].at = "delete" /\ task'[t].at = "idle"
        /\ \A s \in ResourceTasks : s # t => task'[s] = task[s]
    BY <1>0, <2>1, TaskEnds
  <2>3. /\ resource' \in [status : Statuses, left : 0 .. MaxAge, age : 0 .. MaxAge, tracked : BOOLEAN]
        /\ resource'.status = "unverified"
        /\ resource'.tracked => resource'.left <= MaxAge - resource'.age
    BY <2>1, StatusWritten DEF Statuses
  <2>4. ResourceTypes'
    BY <1>0, <2>1, <2>2, <2>3 DEF ResourceTypes, inAzure
  <2>5. resource.status # "none"
    BY <2>2, WorkHasARow
  <2> QED
    BY <2>1, <2>2, <2>3, <2>4, <2>5, QuietStep DEF Deleting
<1>10. CASE DeleteDeployment(t)
  <2>1. /\ UNCHANGED <<resource, awaited, present, cutOff, stops>> /\ Moves(t, "delete", "deleted")
        /\ azure # "running" /\ azure' = "none"
        /\ task[t].left = {}
        /\ early' = (early \/ task[t].missed \cap present # {})
    BY <1>10 DEF DeleteDeployment, Deletable
  <2>2. /\ task' \in [ResourceTasks -> TaskRecords(Steps)]
        /\ task[t].at = "delete" /\ task'[t].at = "deleted"
        /\ \A s \in ResourceTasks : s # t => task'[s] = task[s]
    BY <1>0, <2>1, TaskMoves DEF Steps
  <2>3. early' \in BOOLEAN
    BY <1>0, <2>1
  <2>4. ResourceTypes'
    BY <1>0, <2>1, <2>2, <2>3 DEF ResourceTypes, Deployments
  <2>5. resource'.status # "none"
    BY <2>1, <2>2, WorkHasARow
  <2>6. Deploying' => Deploying
    BY <2>2 DEF Deploying
  <2>7. present \subseteq task[t].missed
    BY <2>1, <2>2 DEF ResourceInv, PassedIsGone
  <2>8. ~early' => ~early /\ azure' = "none" /\ present' = {}
    BY <2>1, <2>7
  <2>9. NothingBefore' /\ DeletedStaysGone'
    BY <2>5, <2>8 DEF NothingBefore, DeletedStaysGone
  <2>10. DeletionsAreLast' /\ DestroyedStaysGone'
    BY <2>1, <2>2, <2>6, <2>8 DEF ResourceInv, DeletionsAreLast, DestroyedStaysGone, Deleting
  <2>11. AwaitedOfTheDeployment'
    BY <2>1 DEF ResourceInv, AwaitedOfTheDeployment
  <2>12. PassedIsGone'
    BY <2>1, <2>2 DEF ResourceInv, PassedIsGone
  <2> QED
    BY <2>4, <2>9, <2>10, <2>11, <2>12 DEF ResourceInv
<1>11. CASE DeletionFails(t)
  <2>1. /\ UNCHANGED <<resource, inAzure, early, cutOff, stops>> /\ Moves(t, "delete", "refused")
    BY <1>11 DEF DeletionFails
  <2>2. /\ task' \in [ResourceTasks -> TaskRecords(Steps)]
        /\ task[t].at = "delete" /\ task'[t].at = "refused"
        /\ \A s \in ResourceTasks : s # t => task'[s] = task[s]
    BY <1>0, <2>1, TaskMoves DEF Steps
  <2>3. ResourceTypes'
    BY <1>0, <2>1, <2>2 DEF ResourceTypes, inAzure
  <2>4. resource'.status # "none"
    BY <2>1, <2>2, WorkHasARow
  <2>5. Deploying' => Deploying
    BY <2>2 DEF Deploying
  <2>6. (\E s \in ResourceTasks : task'[s].at = "deleted") => \E s \in ResourceTasks : task[s].at = "deleted"
    BY <2>2
  <2>7. NothingBefore' /\ DeletedStaysGone'
    BY <2>1, <2>4, <2>6 DEF ResourceInv, NothingBefore, DeletedStaysGone, inAzure
  <2>8. DeletionsAreLast' /\ DestroyedStaysGone'
    BY <2>1, <2>2, <2>5 DEF ResourceInv, DeletionsAreLast, DestroyedStaysGone, Deleting, inAzure
  <2>9. AwaitedOfTheDeployment' /\ PassedIsGone'
    BY <2>1, <2>2 DEF ResourceInv, AwaitedOfTheDeployment, PassedIsGone, inAzure
  <2> QED
    BY <2>3, <2>7, <2>8, <2>9 DEF ResourceInv
<1>12. CASE ConcludeDeletion(t)
  <2>1. UNCHANGED <<inAzure, early, cutOff, stops>>
    BY <1>12 DEF ConcludeDeletion
  <2>2. CASE Ends(t, "deleted") /\ Writes("destroyed")
    <3>1. /\ task' \in [ResourceTasks -> TaskRecords(Steps)]
          /\ task[t].at = "deleted" /\ task'[t].at = "idle"
          /\ \A s \in ResourceTasks : s # t => task'[s] = task[s]
      BY <1>0, <2>2, TaskEnds
    <3>2. /\ resource' \in [status : Statuses, left : 0 .. MaxAge, age : 0 .. MaxAge, tracked : BOOLEAN]
          /\ resource'.status = "destroyed"
          /\ resource'.tracked => resource'.left <= MaxAge - resource'.age
      BY <2>2, StatusWritten DEF Statuses
    <3>3. ResourceTypes'
      BY <1>0, <2>1, <3>1, <3>2 DEF ResourceTypes, inAzure
    <3>4. ~early => azure = "none" /\ present = {} /\ ~Deploying
      BY <3>1 DEF ResourceInv, DeletionsAreLast, DeletedStaysGone, Deleting
    <3>5. Deploying' => Deploying
      BY <3>1 DEF Deploying
    <3>6. ~early' => azure' = "none" /\ present' = {} /\ ~Deploying'
      BY <2>1, <3>4, <3>5 DEF inAzure
    <3>7. AwaitedOfTheDeployment' /\ PassedIsGone'
      BY <2>1, <3>1 DEF ResourceInv, AwaitedOfTheDeployment, PassedIsGone, inAzure
    <3> QED
      BY <3>2, <3>3, <3>6, <3>7
         DEF ResourceInv, NothingBefore, DeletionsAreLast, DeletedStaysGone, DestroyedStaysGone
  <2>3. CASE ScheduleRetry(t)
    <3>1. Ends(t, "refused") /\ Writes("active")
      BY <2>3 DEF ScheduleRetry
    <3>2. /\ task' \in [ResourceTasks -> TaskRecords(Steps)]
          /\ task[t].at = "refused" /\ task'[t].at = "idle"
          /\ \A s \in ResourceTasks : s # t => task'[s] = task[s]
      BY <1>0, <3>1, TaskEnds
    <3>3. /\ resource' \in [status : Statuses, left : 0 .. MaxAge, age : 0 .. MaxAge, tracked : BOOLEAN]
          /\ resource'.status = "active"
          /\ resource'.tracked => resource'.left <= MaxAge - resource'.age
      BY <3>1, StatusWritten DEF Statuses
    <3>4. ResourceTypes'
      BY <1>0, <2>1, <3>2, <3>3 DEF ResourceTypes, inAzure
    <3>5. resource.status # "none"
      BY <3>2, WorkHasARow
    <3> QED
      BY <2>1, <3>2, <3>3, <3>4, <3>5, QuietStep DEF Deleting
  <2> QED
    BY <1>12, <2>2, <2>3 DEF ConcludeDeletion
<1>13. CASE DeleteManaged(t)
  <2>1. PICK r \in task[t].left :
            task' = [task EXCEPT ![t].left = @ \ {r}] /\ present' = present \ {r}
    BY <1>13 DEF DeleteManaged
  <2>2. task[t].at = "delete" /\ UNCHANGED <<resource, azure, awaited, early, cutOff, stops>>
    BY <1>13 DEF DeleteManaged
  <2>3. /\ task' \in [ResourceTasks -> TaskRecords(Steps)]
        /\ task'[t].at = "delete" /\ task'[t].left = task[t].left \ {r} /\ task'[t].missed = task[t].missed
        /\ \A s \in ResourceTasks : s # t => task'[s] = task[s]
    <3> DEFINE passed == [task[t] EXCEPT !.left = @ \ {r}]
    <3>1. /\ passed \in TaskRecords(Steps)
          /\ passed.at = "delete" /\ passed.left = task[t].left \ {r} /\ passed.missed = task[t].missed
      BY <1>0, <2>2 DEF TaskRecords
    <3>2. task' = [task EXCEPT ![t] = passed]
      BY <2>1
    <3> HIDE DEF passed
    <3> QED
      BY <1>0, <3>1, <3>2
  <2>4. ResourceTypes'
    BY <1>0, <2>1, <2>2, <2>3 DEF ResourceTypes
  <2>5. resource'.status # "none"
    BY <2>2, WorkHasARow
  <2>6. \A s \in ResourceTasks : task'[s].at = task[s].at
    BY <2>2, <2>3
  <2>7. Deploying' => Deploying
    BY <2>6 DEF Deploying
  <2>8. NothingBefore' /\ AwaitedOfTheDeployment'
    BY <2>2, <2>5 DEF ResourceInv, NothingBefore, AwaitedOfTheDeployment
  <2>9. PassedIsGone'
    <3>1. \A s \in ResourceTasks : task[s].at = "delete" => present \subseteq task[s].left \cup task[s].missed
      BY DEF ResourceInv, PassedIsGone
    <3>2. ASSUME NEW s \in ResourceTasks, task'[s].at = "delete"
          PROVE  present' \subseteq task'[s].left \cup task'[s].missed
      BY <2>1, <2>2, <2>3, <3>1, <3>2
    <3> QED
      BY <3>2 DEF PassedIsGone
  <2>10. DeletionsAreLast' /\ DeletedStaysGone' /\ DestroyedStaysGone'
    BY <2>1, <2>2, <2>6, <2>7 DEF ResourceInv, DeletionsAreLast, DeletedStaysGone, DestroyedStaysGone
  <2> QED
    BY <2>4, <2>8, <2>9, <2>10 DEF ResourceInv
<1>14. CASE DeletedUnheard(t)
  <2>1. task[t].at = "delete" /\ UNCHANGED <<resource, awaited, early, cutOff, stops>>
    BY <1>14 DEF DeletedUnheard
  <2>2. resource'.status # "none"
    BY <2>1, WorkHasARow
  <2>3. CASE (\E r \in task[t].left : present' = present \ {r}) /\ UNCHANGED <<task, azure>>
    <3>1. present' \subseteq present
      BY <2>3
    <3>2. ResourceTypes'
      BY <1>0, <2>1, <2>3, <3>1 DEF ResourceTypes
    <3>3. Deploying' <=> Deploying
      BY <2>3 DEF Deploying
    <3>4. PassedIsGone'
      BY <2>3, <3>1 DEF ResourceInv, PassedIsGone
    <3> QED
      BY <2>1, <2>2, <2>3, <3>1, <3>2, <3>3, <3>4
         DEF ResourceInv, NothingBefore, AwaitedOfTheDeployment, DeletionsAreLast, DeletedStaysGone, DestroyedStaysGone
  <2>4. CASE azure # "running" /\ azure' = "none" /\ Moves(t, "delete", "refused") /\ UNCHANGED present
    <3>1. /\ task' \in [ResourceTasks -> TaskRecords(Steps)]
          /\ task'[t].at = "refused"
          /\ \A s \in ResourceTasks : s # t => task'[s] = task[s]
      BY <1>0, <2>4, TaskMoves DEF Steps
    <3>2. ResourceTypes'
      BY <1>0, <2>1, <2>4, <3>1 DEF ResourceTypes, Deployments
    <3>3. Deploying' => Deploying
      BY <3>1 DEF Deploying
    <3>4. NothingBefore' /\ AwaitedOfTheDeployment' /\ PassedIsGone'
      BY <2>1, <2>2, <2>4, <3>1 DEF ResourceInv, NothingBefore, AwaitedOfTheDeployment, PassedIsGone
    <3>5. DeletionsAreLast' /\ DeletedStaysGone' /\ DestroyedStaysGone'
      BY <2>1, <2>4, <3>1, <3>3 DEF ResourceInv, DeletionsAreLast, DeletedStaysGone, DestroyedStaysGone, Deleting
    <3> QED
      BY <3>2, <3>4, <3>5 DEF ResourceInv
  <2> QED
    BY <1>14, <2>3, <2>4 DEF DeletedUnheard
<1> QED
  BY <1>1, <1>2, <1>3, <1>4, <1>5, <1>6, <1>7, <1>8, <1>9, <1>10, <1>11, <1>12, <1>13, <1>14 DEF Step


LEMMA ResourceStep == ResourceInv /\ ResourcesNext => ResourceInv'
<1> SUFFICES ASSUME ResourceInv, ResourcesNext PROVE ResourceInv'
  OBVIOUS
<1>0. /\ task \in [ResourceTasks -> TaskRecords(Steps)]
      /\ resource \in [status : Statuses, left : 0 .. MaxAge, age : 0 .. MaxAge, tracked : BOOLEAN]
      /\ azure \in Deployments /\ awaited \subseteq Managed /\ present \subseteq Managed
      /\ early \in BOOLEAN /\ cutOff \in BOOLEAN /\ stops \in 0 .. MaxStops
      /\ resource.tracked => resource.left <= MaxAge - resource.age
  BY DEF ResourceInv, ResourceTypes
<1>1. ASSUME NEW t \in ResourceTasks, Provision(t) \/ RequestDeletion(t) \/ Step(t)
      PROVE  ResourceInv'
  BY <1>1, ResourceActions
<1>2. CASE DeploymentEnds
  <2>1. /\ azure = "running" /\ azure' \in {"succeeded", "failed"} /\ awaited' = {}
        /\ UNCHANGED <<resource, present, task, early, cutOff, stops>>
    BY <1>2 DEF DeploymentEnds
  <2>2. ResourceTypes'
    BY <1>0, <2>1 DEF ResourceTypes, Deployments
  <2>3. Deploying' <=> Deploying
    BY <2>1 DEF Deploying
  <2> QED
    BY <2>1, <2>2, <2>3
       DEF ResourceInv, NothingBefore, AwaitedOfTheDeployment, PassedIsGone, DeletionsAreLast, DeletedStaysGone, DestroyedStaysGone
<1>3. CASE Extend
  <2>1. /\ resource.status = "active" /\ resource.tracked
        /\ UNCHANGED <<inAzure, task, early, cutOff, stops>>
    BY <1>3 DEF Extend
  <2>2. PICK more \in 1 .. MaxAge : resource' = [resource EXCEPT !.left = Extended(more)]
    BY <1>3 DEF Extend
  <2>3. Extended(more) \in 0 .. MaxAge /\ Extended(more) <= MaxAge - resource.age
    BY <1>0, LimitsAssumption DEF Extended
  <2>4. /\ resource' \in [status : Statuses, left : 0 .. MaxAge, age : 0 .. MaxAge, tracked : BOOLEAN]
        /\ resource'.status = "active"
        /\ resource'.tracked => resource'.left <= MaxAge - resource'.age
    BY <1>0, <2>1, <2>2, <2>3
  <2>5. ResourceTypes'
    BY <1>0, <2>1, <2>4 DEF ResourceTypes, inAzure
  <2> QED
    BY <2>1, <2>4, <2>5, QuietStep
<1>4. CASE Tick
  <2>1. /\ resource.status # "none"
        /\ UNCHANGED <<inAzure, task, early, cutOff, stops>>
    BY <1>4 DEF Tick
  <2> DEFINE left == IF resource.left = 0 THEN 0 ELSE resource.left - 1
             age  == IF resource.age = MaxAge THEN resource.age ELSE resource.age + 1
  <2>2. resource' = [resource EXCEPT !.left = left, !.age = age]
    BY <1>4 DEF Tick
  <2>3. /\ left \in 0 .. MaxAge /\ age \in 0 .. MaxAge
        /\ resource.tracked => left <= MaxAge - age
    <3>1. /\ resource.left \in 0 .. MaxAge /\ resource.age \in 0 .. MaxAge /\ MaxAge \in Nat
          /\ resource.tracked => resource.left <= MaxAge - resource.age
      BY <1>0, LimitsAssumption
    <3> QED
      BY <3>1
  <2> HIDE DEF left, age
  <2>4. /\ resource' \in [status : Statuses, left : 0 .. MaxAge, age : 0 .. MaxAge, tracked : BOOLEAN]
        /\ resource'.status = resource.status
        /\ resource'.tracked => resource'.left <= MaxAge - resource'.age
    BY <1>0, <2>2, <2>3
  <2>5. ResourceTypes'
    BY <1>0, <2>1, <2>4 DEF ResourceTypes, inAzure
  <2> QED
    BY <2>1, <2>4, <2>5, QuietStep
<1>5. ASSUME NEW a \in Servers, StopServer(a)
      PROVE  ResourceInv'
  <2>1. /\ UNCHANGED <<resource, inAzure, early>> /\ stops < MaxStops /\ stops' = stops + 1
        /\ task' = [t \in ResourceTasks |-> IF t[1] = a THEN Idle ELSE task[t]]
        /\ cutOff' = (cutOff \/ \E t \in ResourceTasks : t[1] = a /\ task[t].at \in Deleting)
    BY <1>5 DEF StopServer
  <2>2. stops' \in 0 .. MaxStops
    BY <1>0, <2>1, LimitsAssumption
  <2>3. cutOff' \in BOOLEAN
    BY <2>1
  <2>4. Idle \in TaskRecords(Steps) /\ Idle.at = "idle"
    BY DEF Idle, At, TaskRecords, Steps
  <2>5. /\ task' \in [ResourceTasks -> TaskRecords(Steps)]
        /\ \A t \in ResourceTasks : task'[t] = task[t] \/ task'[t] = Idle
    BY <1>0, <2>1, <2>4
  <2>6. ResourceTypes'
    BY <1>0, <2>1, <2>2, <2>3, <2>5 DEF ResourceTypes, inAzure
  <2>7. CASE resource.status = "none"
    <3>1. \A t \in ResourceTasks : task[t] = Idle
      BY <2>7 DEF ResourceInv, NothingBefore
    <3>2. \A t \in ResourceTasks : task'[t] = task[t]
      BY <2>5, <3>1
    <3> QED
      BY <2>1, <2>6, <3>2, QuietStep
  <2>8. CASE resource.status # "none"
    <3>1. \A t \in ResourceTasks : task'[t] = task[t] \/ task'[t].at \notin Deleting \cup {"deploy"}
      BY <2>4, <2>5 DEF Deleting
    <3> QED
      BY <2>1, <2>6, <2>8, <3>1, QuietStep
  <2> QED
    BY <2>7, <2>8
<1>6. ASSUME NEW r \in Managed, Create(r)
      PROVE  ResourceInv'
  <2>1. /\ r \in awaited /\ awaited' = awaited \ {r} /\ present' = present \cup {r}
        /\ UNCHANGED <<resource, azure, early, cutOff, stops>>
    BY <1>6 DEF Create
  <2> DEFINE behind == [t \in ResourceTasks |-> [task[t] EXCEPT !.missed = @ \cup {r}]]
  <2>2. task' = [t \in ResourceTasks |-> IF task[t].at = "delete" /\ r \notin task[t].left THEN behind[t] ELSE task[t]]
    BY <1>6 DEF Create
  <2>3. \A t \in ResourceTasks :
            /\ behind[t] \in TaskRecords(Steps)
            /\ behind[t].at = task[t].at /\ behind[t].left = task[t].left
            /\ behind[t].missed = task[t].missed \cup {r}
    BY <1>0 DEF TaskRecords
  <2> HIDE DEF behind
  <2>4. task' \in [ResourceTasks -> TaskRecords(Steps)]
    BY <1>0, <2>2, <2>3
  <2>5. \A t \in ResourceTasks :
            /\ task'[t].at = task[t].at /\ task'[t].left = task[t].left
            /\ task[t].missed \subseteq task'[t].missed
            /\ task[t].at = "delete" /\ r \notin task[t].left => r \in task'[t].missed
    BY <2>2, <2>3
  <2>6. ResourceTypes'
    BY <1>0, <2>1, <2>4 DEF ResourceTypes
  <2>7. azure = "running"
    BY <2>1 DEF ResourceInv, AwaitedOfTheDeployment
  <2>8. Deploying' <=> Deploying
    BY <2>5 DEF Deploying
  <2>9. NothingBefore' /\ AwaitedOfTheDeployment'
    BY <2>1, <2>7 DEF ResourceInv, NothingBefore, AwaitedOfTheDeployment
  <2>10. PassedIsGone'
    <3>1. \A t \in ResourceTasks : task[t].at = "delete" => present \subseteq task[t].left \cup task[t].missed
      BY DEF ResourceInv, PassedIsGone
    <3>2. ASSUME NEW t \in ResourceTasks, task'[t].at = "delete"
          PROVE  present' \subseteq task'[t].left \cup task'[t].missed
      BY <2>1, <2>5, <3>1, <3>2
    <3> QED
      BY <3>2 DEF PassedIsGone
  <2>11. DeletionsAreLast' /\ DeletedStaysGone' /\ DestroyedStaysGone'
    BY <2>1, <2>5, <2>7, <2>8 DEF ResourceInv, DeletionsAreLast, DeletedStaysGone, DestroyedStaysGone
  <2> QED
    BY <2>6, <2>9, <2>10, <2>11 DEF ResourceInv
<1> QED
  BY <1>1, <1>2, <1>3, <1>4, <1>5, <1>6 DEF ResourcesNext

\* A step of somebody else changes nothing of a resource.
LEMMA ResourceStutter == ResourceInv /\ UNCHANGED resourceVars => ResourceInv'
BY DEF ResourceInv, ResourceTypes, NothingBefore, AwaitedOfTheDeployment, PassedIsGone, DeletionsAreLast, DeletedStaysGone, DestroyedStaysGone, Deploying, resourceVars

\* Every variable has values of its kind; a resource expires within 48 hours of
\* its creation however often it is extended; and one that is shown as destroyed
\* does not exist, nor anything of it, unless a deletion was over before Azure had
\* all of it: for any number of processes, requests, crashes and resources of the
\* template, which are deleted one by one while the deployment goes on.
THEOREM ResourceSafety == MaintenanceSpec => []ResourcesAreSound
<1>1. MaintenanceInit => ResourceInv
  BY ResourceInitInv DEF MaintenanceInit
<1>2. ResourceInv /\ [MaintenanceNext]_maintenanceVars => ResourceInv'
  <2> SUFFICES ASSUME ResourceInv, [MaintenanceNext]_maintenanceVars PROVE ResourceInv'
    OBVIOUS
  <2>1. ResourcesNext \/ UNCHANGED resourceVars
    BY DEF MaintenanceNext, maintenanceVars
  <2> QED
    BY <2>1, ResourceStep, ResourceStutter
<1>3. ResourceInv => ResourcesAreSound
  BY DEF ResourceInv, ResourcesAreSound, DestroyedStaysGone, DestroyedIsGone
<1> QED
  BY <1>1, <1>2, <1>3, PTL DEF MaintenanceSpec

-----------------------------------------------------------------------------
\* Nothing is diagnosed at first.
LEMMA InvestigationInitInv == InvestigationInit => InvestigationInv
<1> SUFFICES ASSUME InvestigationInit PROVE InvestigationInv
  OBVIOUS
<1>1. \A c \in Askers : call[c] = NoCall
  BY DEF InvestigationInit, GatewayInit
<1>2. NoCall \in Calls
  BY DEF NoCall, Calls, CallOutcomes
<1>3. CallTypes
  BY <1>2 DEF CallTypes, InvestigationInit, GatewayInit
<1>4. ModelAnswersSatisfyTheContract
  BY <1>1 DEF ModelAnswersSatisfyTheContract, NoCall
<1>5. GivenUpWhenOld /\ DiagnosisIsGenuine
  BY DEF InvestigationInit, NoInvestigation, GivenUpWhenOld, DiagnosisIsGenuine
<1> QED
  BY <1>3, <1>4, <1>5 DEF InvestigationInv

\* A call that ended without the model is not the model's.
LEMMA DegradedIs ==
    ASSUME NEW k \in Calls, NEW reason \in Reasons
    PROVE  /\ Degraded(k, reason) \in Calls /\ Degraded(k, reason).at # "model"
           /\ Failed(k, reason) \in Calls /\ Failed(k, reason).at # "model"
<1>1. ASSUME NEW j \in Calls PROVE Degraded(j, reason) \in Calls /\ Degraded(j, reason).at # "model"
  BY <1>1 DEF Degraded, Calls, CallOutcomes
<1>2. [k EXCEPT !.requests = k.requests + 1] \in Calls
  BY DEF Calls
<1> QED
  BY <1>1, <1>2 DEF Failed


\* A call whose answer is the model's only if it satisfied the contract may replace any other.
LEMMA CallReplaced ==
    ASSUME CallTypes, ModelAnswersSatisfyTheContract, NEW c, NEW new \in Calls,
           new.at = "model" => new.contract, call' = [call EXCEPT ![c] = new]
    PROVE  CallTypes' /\ ModelAnswersSatisfyTheContract'
BY DEF CallTypes, ModelAnswersSatisfyTheContract

\* A step of the gateway returns as a model's answer only what satisfied the contract.
LEMMA GatewayStep ==
    ASSUME CallTypes, ModelAnswersSatisfyTheContract, NEW c \in Askers, Proceed(c)
    PROVE  CallTypes' /\ ModelAnswersSatisfyTheContract'
<1>1. call[c] \in Calls
  BY DEF CallTypes
<1>2. PICK new : call' = [call EXCEPT ![c] = new] /\ new \in Calls /\ (new.at = "model" => new.contract)
  <2> DEFINE moved == [call[c] EXCEPT !.at = "initial"]
             good  == [[call[c] EXCEPT !.requests = call[c].requests + 1, !.contract = TRUE] EXCEPT !.at = "model"]
             bad   == [[call[c] EXCEPT !.requests = call[c].requests + 1, !.contract = FALSE] EXCEPT !.at = "repair"]
  <2>1. moved \in Calls /\ moved.at # "model"
    BY <1>1 DEF Calls
  <2>2. good \in Calls /\ good.contract
    <3> DEFINE answer == [call[c] EXCEPT !.requests = call[c].requests + 1, !.contract = TRUE]
    <3>1. answer \in Calls /\ answer.contract
      <4> DEFINE more == [call[c] EXCEPT !.requests = call[c].requests + 1]
      <4>1. more \in Calls
        BY <1>1 DEF Calls
      <4>2. answer = [more EXCEPT !.contract = TRUE]
        BY <1>1 DEF Calls
      <4> HIDE DEF more, answer
      <4> QED
        BY <4>1, <4>2 DEF Calls
    <3>2. good = [answer EXCEPT !.at = "model"] /\ "model" \in CallOutcomes
      BY DEF CallOutcomes
    <3> HIDE DEF answer, good
    <3> QED
      BY <3>1, <3>2 DEF Calls
  <2>3. bad \in Calls /\ bad.at # "model"
    <3> DEFINE answer == [call[c] EXCEPT !.requests = call[c].requests + 1, !.contract = FALSE]
    <3>1. answer \in Calls
      <4> DEFINE more == [call[c] EXCEPT !.requests = call[c].requests + 1]
      <4>1. more \in Calls
        BY <1>1 DEF Calls
      <4>2. answer = [more EXCEPT !.contract = FALSE]
        BY <1>1 DEF Calls
      <4> HIDE DEF more, answer
      <4> QED
        BY <4>1, <4>2 DEF Calls
    <3>2. bad = [answer EXCEPT !.at = "repair"]
      OBVIOUS
    <3> HIDE DEF answer, bad
    <3> QED
      BY <3>1, <3>2 DEF Calls
  <2>4. good = [Replied(call[c], TRUE) EXCEPT !.at = "model"] /\ bad = [Replied(call[c], FALSE) EXCEPT !.at = "repair"]
    BY DEF Replied
  <2>5. \A reason \in Reasons :
           /\ Degraded(call[c], reason) \in Calls /\ Degraded(call[c], reason).at # "model"
           /\ Failed(call[c], reason) \in Calls /\ Failed(call[c], reason).at # "model"
    BY <1>1, DegradedIs
  <2>6. {"provider_not_configured", "input_budget_exceeded", "provider_unavailable", "invalid_model_output"} = Reasons
    BY DEF Reasons
  <2> HIDE DEF moved, good, bad
  <2>7. \/ call' = [call EXCEPT ![c] = moved]
        \/ call' = [call EXCEPT ![c] = good]
        \/ call' = [call EXCEPT ![c] = bad]
        \/ \E reason \in Reasons : call' = [call EXCEPT ![c] = Degraded(call[c], reason)]
        \/ \E reason \in Reasons : call' = [call EXCEPT ![c] = Failed(call[c], reason)]
    <3>1. CASE SelectRoute(c)
      <4>1. \/ call' = [call EXCEPT ![c].at = "initial"]
            \/ call' = [call EXCEPT ![c] = Degraded(call[c], "provider_not_configured")]
            \/ call' = [call EXCEPT ![c] = Degraded(call[c], "input_budget_exceeded")]
        BY <3>1 DEF SelectRoute
      <4>2. [call EXCEPT ![c].at = "initial"] = [call EXCEPT ![c] = moved]
        BY DEF moved
      <4> QED
        BY <4>1, <4>2, <2>6
    <3>2. CASE Generate(c)
      <4>1. \/ call' = [call EXCEPT ![c] = [Replied(call[c], TRUE) EXCEPT !.at = "model"]]
            \/ call' = [call EXCEPT ![c] = [Replied(call[c], FALSE) EXCEPT !.at = "repair"]]
            \/ call' = [call EXCEPT ![c] = Failed(call[c], "input_budget_exceeded")]
            \/ call' = [call EXCEPT ![c] = Failed(call[c], "provider_unavailable")]
        BY <3>2 DEF Generate
      <4> QED
        BY <4>1, <2>4, <2>6
    <3>3. CASE Repair(c)
      <4>1. \/ call' = [call EXCEPT ![c] = [Replied(call[c], TRUE) EXCEPT !.at = "model"]]
            \/ call' = [call EXCEPT ![c] = Degraded(call[c], "invalid_model_output")]
            \/ call' = [call EXCEPT ![c] = Failed(call[c], "invalid_model_output")]
            \/ call' = [call EXCEPT ![c] = Failed(call[c], "input_budget_exceeded")]
        BY <3>3 DEF Repair
      <4> QED
        BY <4>1, <2>4, <2>6
    <3> QED
      BY <3>1, <3>2, <3>3 DEF Proceed
  <2> QED
    BY <2>1, <2>2, <2>3, <2>5, <2>7
<1> QED
  BY <1>2, CallReplaced

\* No step stores a diagnosis that did not satisfy the contract.
LEMMA InvestigationStep == InvestigationInv /\ InvestigationNext => InvestigationInv'
<1> SUFFICES ASSUME InvestigationInv, InvestigationNext PROVE InvestigationInv'
  OBVIOUS
<1>0. /\ CallTypes /\ ModelAnswersSatisfyTheContract /\ DiagnosisIsGenuine
      /\ daemon # {} => old
      /\ investigator = "asking" => investigation.error = "none" \/ old
      /\ Worker \in Askers
      /\ NoCall \in Calls /\ NoCall.at # "model"
  BY WorkerAssumption
     DEF InvestigationInv, GivenUpWhenOld, Worker, NoCall, Calls, CallOutcomes
<1>a. ASSUME UNCHANGED call PROVE CallTypes' /\ ModelAnswersSatisfyTheContract'
  BY <1>0, <1>a DEF CallTypes, ModelAnswersSatisfyTheContract
<1>1. CASE SkipDiagnosis
  <2>1. /\ investigation'.status = "skipped" /\ investigator' = "done" /\ UNCHANGED <<old, daemon, verdict, call>>
    BY <1>1 DEF SkipDiagnosis
  <2> QED
    BY <1>0, <1>a, <2>1 DEF InvestigationInv, GivenUpWhenOld, DiagnosisIsGenuine
<1>2. CASE Investigate
  <2>1. /\ investigation'.status = "running" /\ investigation'.error = "none" /\ UNCHANGED <<old, daemon, verdict>>
        /\ Call(Worker, "repository_analysis")
    BY <1>2 DEF Investigate
  <2>2. CallTypes' /\ ModelAnswersSatisfyTheContract'
    <3> DEFINE new == [NoCall EXCEPT !.at = "route", !.workload = "repository_analysis"]
    <3>1. new \in Calls /\ new.at # "model"
      BY DEF NoCall, Calls, CallOutcomes, Workloads
    <3>2. call' = [call EXCEPT ![Worker] = new]
      BY <2>1 DEF Call
    <3> HIDE DEF new
    <3> QED
      BY <1>0, <3>1, <3>2, CallReplaced
  <2> QED
    BY <1>0, <2>1, <2>2 DEF InvestigationInv, GivenUpWhenOld, DiagnosisIsGenuine
<1>3. CASE AskModel
  <2>1. Proceed(Worker) /\ UNCHANGED <<investigation, old, investigator, daemon, verdict>>
    BY <1>3 DEF AskModel
  <2>2. CallTypes' /\ ModelAnswersSatisfyTheContract'
    BY <1>0, <2>1, GatewayStep
  <2> QED
    BY <1>0, <2>1, <2>2 DEF InvestigationInv, GivenUpWhenOld, DiagnosisIsGenuine
<1>4. CASE RecordDiagnosis
  <2>1. /\ investigator = "asking" /\ Return(Worker) /\ investigator' = "done" /\ UNCHANGED <<old, daemon>>
        /\ verdict' = [contract |-> call[Worker].contract, late |-> old]
    BY <1>4 DEF RecordDiagnosis
  <2>2. CallTypes' /\ ModelAnswersSatisfyTheContract'
    BY <1>0, <2>1, CallReplaced DEF Return
  <2>3. PICK ai \in BOOLEAN :
           /\ ai => Reviewed(call[Worker])
           /\ investigation' = IF ai THEN [Diagnosed(ai) EXCEPT !.error = investigation.error] ELSE Diagnosed(ai)
    BY <1>4 DEF RecordDiagnosis
  <2>4. DiagnosisIsGenuine'
    <3>1. CASE ai
      <4>1. call[Worker].contract
        BY <1>0, <2>3, <3>1 DEF Reviewed, ModelAnswersSatisfyTheContract
      <4>2. investigation' = [[status |-> "succeeded", provider |-> "azure-foundry", error |-> "none"]
                                 EXCEPT !.error = investigation.error]
        BY <2>3, <3>1 DEF Diagnosed
      <4>3. investigation'.error = investigation.error
        BY <4>2
      <4>4. verdict'.contract
        BY <2>1, <4>1
      <4>5. verdict'.late = old
        BY <2>1
      <4> QED
        BY <1>0, <2>1, <4>3, <4>4, <4>5 DEF DiagnosisIsGenuine
    <3>2. CASE ~ai
      <4>1. investigation'.status = "unavailable"
        BY <2>3, <3>2 DEF Diagnosed
      <4> QED
        BY <4>1 DEF DiagnosisIsGenuine
    <3> QED
      BY <3>1, <3>2
  <2> QED
    BY <1>0, <2>1, <2>2, <2>4 DEF InvestigationInv, GivenUpWhenOld
<1>5. CASE WorkerStops
  <2>1. /\ investigator' = "gone" /\ call' = [call EXCEPT ![Worker] = NoCall]
        /\ UNCHANGED <<investigation, old, daemon, verdict>>
    BY <1>5 DEF WorkerStops
  <2>2. CallTypes' /\ ModelAnswersSatisfyTheContract'
    BY <1>0, <2>1, CallReplaced
  <2> QED
    BY <1>0, <2>1, <2>2 DEF InvestigationInv, GivenUpWhenOld, DiagnosisIsGenuine
<1>6. CASE FifteenMinutes
  <2>1. old' = TRUE /\ UNCHANGED <<investigation, investigator, daemon, verdict, call>>
    BY <1>6 DEF FifteenMinutes
  <2>2. old'
    BY <2>1
  <2> QED
    BY <1>0, <1>a, <2>1, <2>2 DEF InvestigationInv, GivenUpWhenOld, DiagnosisIsGenuine
<1>7. ASSUME NEW d \in Daemons, SelectStale(d) \/ Interrupt(d) \/ DaemonStops(d)
      PROVE  InvestigationInv'
  <2>1. CASE SelectStale(d)
    <3>1. old /\ UNCHANGED <<investigation, old, investigator, verdict, call>>
      BY <2>1 DEF SelectStale, Stale
    <3> QED
      BY <1>0, <1>a, <3>1 DEF InvestigationInv, GivenUpWhenOld, DiagnosisIsGenuine
  <2>2. CASE Interrupt(d)
    <3>1. old /\ investigation'.status = "unavailable" /\ UNCHANGED <<old, investigator, verdict, call>>
      BY <1>0, <2>2 DEF Interrupt
    <3> QED
      BY <1>0, <1>a, <3>1 DEF InvestigationInv, GivenUpWhenOld, DiagnosisIsGenuine
  <2>3. CASE DaemonStops(d)
    <3>1. old /\ UNCHANGED <<investigation, old, investigator, verdict, call>>
      BY <1>0, <2>3 DEF DaemonStops
    <3> QED
      BY <1>0, <1>a, <3>1 DEF InvestigationInv, GivenUpWhenOld, DiagnosisIsGenuine
  <2> QED
    BY <1>7, <2>1, <2>2, <2>3
<1> QED
  BY <1>1, <1>2, <1>3, <1>4, <1>5, <1>6, <1>7 DEF InvestigationNext

\* What is shown as a model's diagnosis satisfied the contract, in the first answer
\* or in the repaired one, and has no error unless it came when the investigation
\* had been given up: for any number of maintenance tasks.
THEOREM DiagnosisSafety == MaintenanceSpec => []DiagnosisIsGenuine
<1>1. MaintenanceInit => InvestigationInv
  BY InvestigationInitInv DEF MaintenanceInit
<1>2. InvestigationInv /\ [MaintenanceNext]_maintenanceVars => InvestigationInv'
  <2> SUFFICES ASSUME InvestigationInv, [MaintenanceNext]_maintenanceVars PROVE InvestigationInv'
    OBVIOUS
  <2>1. CASE InvestigationNext
    BY <2>1, InvestigationStep
  <2>2. CASE UNCHANGED investigationVars
    BY <2>2 DEF InvestigationInv, CallTypes, ModelAnswersSatisfyTheContract, GivenUpWhenOld, DiagnosisIsGenuine,
                investigationVars
  <2> QED
    BY <2>1, <2>2 DEF MaintenanceNext, maintenanceVars
<1>3. InvestigationInv => DiagnosisIsGenuine
  BY DEF InvestigationInv
<1> QED
  BY <1>1, <1>2, <1>3, PTL DEF MaintenanceSpec

-----------------------------------------------------------------------------
(* The schema.  Who holds the advisory lock knows what is missing; a request *)
(* is served by a process that came up, and in production a process comes up *)
(* through its migrations only: nobody clears its flag before it has         *)
(* requests.                                                                 *)

LockedLabels == {"read versions", "versions", "compatibility"}

FullSchema == recorded = Versions /\ columns = AllColumns

AppliedIsRecorded == \A v \in Versions : applied[v] <= 1 /\ (applied[v] = 1 => v \in recorded)
RecordedIsThere   == \A v \in recorded : Adds[v] \subseteq columns
LockIsHeld        == \A t \in Tasks : pc[t] \in LockedLabels => lock = t
MissingIsMissing  == \A t \in Tasks : pc[t] = "versions" => missing[t] = Versions \ recorded
VersionsAreDone   == \A t \in Tasks : pc[t] = "compatibility" => recorded = Versions
HomesAreReady     == \A r \in Requests : pc[r] # "idle" => home[r] \in Processes
HomesOfReady      == \A r \in Requests : home[r] # Nobody => Ready(home[r])
FlagWhileStarting == Production => \A p \in Processes : Initialising(p) => available[p]
UpIsFull          == Production => \A p \in Processes : pc[p] = "up" => FullSchema

SchemaInv ==
    /\ SchemaTypes
    /\ AppliedIsRecorded /\ RecordedIsThere
    /\ LockIsHeld /\ MissingIsMissing /\ VersionsAreDone
    /\ HomesAreReady /\ HomesOfReady /\ FlagWhileStarting /\ UpIsFull

-----------------------------------------------------------------------------
(* The secrets.  What is written to the vault is what somebody gave, so that *)
(* it never becomes empty but by a deletion.                                 *)

VaultIsFull == vault # Absent

RowsAreGiven  == \A i \in Secrets!Rows : row[i].state # "unused" => row[i].given # Absent
MovedAreRows  == \A p \in Processes : \A i \in moving[p].todo \cup moving[p].done : row[i].state # "unused"
AskedAreGiven == \A r \in Requests :
    /\ ask[r].op = "create" => ask[r].value # Absent
    /\ ask[r].op = "delete" => row[ask[r].row].state # "unused"
MovedIsKept   == ~wiped => \A p \in Processes : moving[p].done # {} => VaultIsFull
StoredIsKept  == ~wiped => \A r \in Requests : ask[r].op = "create" /\ ask[r].stage = "stored" /\ ask[r].secret => VaultIsFull

SecretsInv ==
    /\ Secrets!TypeOK
    /\ RowsAreGiven /\ MovedAreRows /\ AskedAreGiven
    /\ MovedIsKept /\ StoredIsKept /\ SecretIsKept


-----------------------------------------------------------------------------
RowTypes == [state : {"unused", "live", "deleted"}, secret : BOOLEAN,
             value : Values \cup {Absent}, given : Values \cup {Absent}]
MoveTypes == [stage : {"none", "loaded", "moved"}, todo : SUBSET Secrets!Rows, done : SUBSET Secrets!Rows, failed : BOOLEAN]
AskTypes == [op : {"none", "create", "delete"}, stage : {"new", "stored"}, row : Secrets!Rows,
             value : Values \cup {Absent}, secret : BOOLEAN]

\* What a typed state of the secrets is, variable by variable.
LEMMA SecretTypes ==
    Secrets!TypeOK <=>
        /\ row \in [Secrets!Rows -> RowTypes]
        /\ vault \in Values \cup {Absent}
        /\ moving \in [Processes -> MoveTypes]
        /\ ask \in [Requests -> AskTypes]
        /\ wiped \in BOOLEAN
        /\ refusals \in 0 .. MaxRefusals
BY DEF Secrets!TypeOK, RowTypes, MoveTypes, AskTypes

\* Who moves or asks for nothing has nothing in hand.
LEMMA EmptyHanded ==
    /\ Secrets!Still \in MoveTypes /\ Secrets!NoAsk \in AskTypes
    /\ Secrets!Still.todo = {} /\ Secrets!Still.done = {} /\ Secrets!NoAsk.op = "none"
<1>1. 1 \in Secrets!Rows
  BY RowsAssumption DEF Secrets!Rows
<1>2. Secrets!Still \in MoveTypes
  BY DEF Secrets!Still, MoveTypes
<1>3. Secrets!NoAsk \in AskTypes
  BY <1>1 DEF Secrets!NoAsk, AskTypes
<1> QED
  BY <1>2, <1>3 DEF Secrets!Still, Secrets!NoAsk

\* No value has been saved at first.
LEMMA SecretsInitInv == StartUpInit => SecretsInv
<1> SUFFICES ASSUME StartUpInit PROVE SecretsInv
  OBVIOUS
<1>1. /\ vault = Absent /\ moving = [p \in Processes |-> Secrets!Still] /\ ask = [r \in Requests |-> Secrets!NoAsk]
      /\ wiped = FALSE /\ refusals = 0
  BY DEF StartUpInit, Secrets!Init
<1>2. PICK secret \in Kinds, v \in Values, n \in {0, 1} :
         row = [i \in Secrets!Rows |->
                   IF i <= n THEN [state |-> "live", secret |-> secret, value |-> v, given |-> v]
                   ELSE [state |-> "unused", secret |-> FALSE, value |-> Absent, given |-> Absent]]
  BY DEF StartUpInit, Secrets!Init
<1>3. /\ row \in [Secrets!Rows -> RowTypes]
      /\ \A i \in Secrets!Rows : row[i].state # "unused" => row[i].given = v /\ row[i].value = v
  <2>1. secret \in BOOLEAN
    BY ValuesAssumption
  <2>2. /\ [state |-> "live", secret |-> secret, value |-> v, given |-> v] \in RowTypes
        /\ [state |-> "unused", secret |-> FALSE, value |-> Absent, given |-> Absent] \in RowTypes
    BY <2>1 DEF RowTypes
  <2> QED
    BY <1>2, <2>2
<1>4. v # Absent
  BY ValuesAssumption
<1>5. /\ \A p \in Processes : moving[p].todo = {} /\ moving[p].done = {}
      /\ \A r \in Requests : ask[r].op = "none"
  BY <1>1, EmptyHanded
<1>6. Secrets!TypeOK
  <2>1. refusals \in 0 .. MaxRefusals
    BY <1>1, RowsAssumption
  <2>2. wiped \in BOOLEAN
    BY <1>1
  <2> QED
    BY <1>1, <1>3, <2>1, <2>2, EmptyHanded, SecretTypes
<1>7. RowsAreGiven /\ SecretIsKept
  BY <1>3, <1>4 DEF RowsAreGiven, SecretIsKept, Secrets!SecretIsKept, Secrets!Live
<1> QED
  BY <1>5, <1>6, <1>7 DEF SecretsInv, MovedAreRows, AskedAreGiven, MovedIsKept, StoredIsKept

\* A step that leaves the rows and the vault alone, and where nobody has more in hand.
LEMMA LessInHand ==
    ASSUME SecretsInv, Secrets!TypeOK', UNCHANGED <<row, vault, wiped>>,
           \A p \in Processes : moving'[p].todo \subseteq moving[p].todo /\ moving'[p].done \subseteq moving[p].done,
           \A r \in Requests :
              \/ ask'[r] = ask[r]
              \/ ask'[r].op = "none"
              \/ ask'[r].op = "delete" /\ row[ask'[r].row].state # "unused"
    PROVE  SecretsInv'
<1>1. RowsAreGiven' /\ SecretIsKept'
  BY DEF SecretsInv, RowsAreGiven, SecretIsKept, Secrets!SecretIsKept, Secrets!Live
<1>2. MovedAreRows'
  BY DEF SecretsInv, MovedAreRows
<1>3. AskedAreGiven'
  BY DEF SecretsInv, AskedAreGiven
<1>4. MovedIsKept'
  <2> SUFFICES ASSUME ~wiped', NEW p \in Processes, moving'[p].done # {} PROVE VaultIsFull'
    BY DEF MovedIsKept
  <2>1. moving[p].done # {}
    OBVIOUS
  <2>2. VaultIsFull
    BY <2>1 DEF SecretsInv, MovedIsKept
  <2> QED
    BY <2>2 DEF VaultIsFull
<1>5. StoredIsKept'
  <2> SUFFICES ASSUME ~wiped', NEW r \in Requests, ask'[r].op = "create" /\ ask'[r].stage = "stored" /\ ask'[r].secret
               PROVE  VaultIsFull'
    BY DEF StoredIsKept
  <2>1. ask'[r] = ask[r]
    OBVIOUS
  <2>2. VaultIsFull
    BY <2>1 DEF SecretsInv, StoredIsKept
  <2> QED
    BY <2>2 DEF VaultIsFull
<1> QED
  BY <1>1, <1>2, <1>3, <1>4, <1>5 DEF SecretsInv

\* A step that writes a value to the vault.
LEMMA VaultFilled ==
    ASSUME SecretsInv, Secrets!TypeOK', UNCHANGED <<row, wiped>>, vault' # Absent,
           \A p \in Processes : moving'[p].todo \cup moving'[p].done \subseteq moving[p].todo \cup moving[p].done,
           \A r \in Requests : ask'[r].op = ask[r].op /\ ask'[r].value = ask[r].value /\ ask'[r].row = ask[r].row
    PROVE  SecretsInv'
<1>1. VaultIsFull'
  BY DEF VaultIsFull
<1>2. RowsAreGiven' /\ MovedAreRows' /\ AskedAreGiven'
  BY DEF SecretsInv, RowsAreGiven, MovedAreRows, AskedAreGiven
<1>3. MovedIsKept' /\ StoredIsKept'
  BY <1>1 DEF MovedIsKept, StoredIsKept
<1>4. SecretIsKept'
  BY DEF SecretIsKept, Secrets!SecretIsKept
<1> QED
  BY <1>2, <1>3, <1>4 DEF SecretsInv


\* Moving the secrets to the vault at start-up loses none.
LEMMA MovingStep ==
    ASSUME SecretsInv, NEW p \in Processes, Secrets!Move(p)
    PROVE  SecretsInv'
<1>0. /\ row \in [Secrets!Rows -> RowTypes] /\ vault \in Values \cup {Absent}
      /\ moving \in [Processes -> MoveTypes] /\ ask \in [Requests -> AskTypes]
      /\ wiped \in BOOLEAN /\ refusals \in 0 .. MaxRefusals
  BY SecretTypes DEF SecretsInv
<1>1. CASE Secrets!LoadLegacy(p)
  <2> DEFINE new == [stage |-> "loaded", todo |-> Secrets!Legacy, done |-> {}, failed |-> FALSE]
  <2>1. moving' = [moving EXCEPT ![p] = new] /\ UNCHANGED <<row, vault, ask, wiped, refusals>>
    BY <1>1 DEF Secrets!LoadLegacy
  <2>2. /\ Secrets!Legacy \subseteq Secrets!Rows
        /\ \A i \in Secrets!Legacy : row[i].state # "unused"
    BY DEF Secrets!Legacy, Secrets!Live
  <2>3. new \in MoveTypes /\ new.todo = Secrets!Legacy /\ new.done = {}
    BY <2>2 DEF MoveTypes
  <2> HIDE DEF new
  <2>4. /\ moving' \in [Processes -> MoveTypes] /\ moving'[p] = new
        /\ \A q \in Processes : q # p => moving'[q] = moving[q]
    BY <1>0, <2>1, <2>3
  <2>5. Secrets!TypeOK'
    BY <1>0, <2>1, <2>4 DEF Secrets!TypeOK, RowTypes, MoveTypes, AskTypes
  <2>6. RowsAreGiven' /\ AskedAreGiven' /\ StoredIsKept' /\ SecretIsKept'
    BY <2>1 DEF SecretsInv, RowsAreGiven, AskedAreGiven, StoredIsKept, SecretIsKept, Secrets!SecretIsKept, Secrets!Live,
                VaultIsFull
  <2>7. MovedAreRows'
    <3> SUFFICES ASSUME NEW q \in Processes, NEW i \in moving'[q].todo \cup moving'[q].done
                 PROVE  row'[i].state # "unused"
      BY DEF MovedAreRows
    <3>1. CASE q = p
      BY <2>1, <2>2, <2>3, <2>4, <3>1
    <3>2. CASE q # p
      BY <2>1, <2>4, <3>2 DEF SecretsInv, MovedAreRows
    <3> QED
      BY <3>1, <3>2
  <2>8. MovedIsKept'
    <3> SUFFICES ASSUME ~wiped', NEW q \in Processes, moving'[q].done # {} PROVE VaultIsFull'
      BY DEF MovedIsKept
    <3>1. moving[q].done # {}
      BY <2>3, <2>4
    <3>2. VaultIsFull
      BY <2>1, <3>1 DEF SecretsInv, MovedIsKept
    <3> QED
      BY <2>1, <3>2 DEF VaultIsFull
  <2> QED
    BY <2>5, <2>6, <2>7, <2>8 DEF SecretsInv
<1>2. ASSUME NEW i \in Secrets!Rows, Secrets!MoveOne(p, i)
      PROVE  SecretsInv'
  <2>1. i \in moving[p].todo /\ UNCHANGED <<row, ask, wiped>> /\ row[i].state # "unused"
    BY <1>2 DEF Secrets!MoveOne, SecretsInv, MovedAreRows
  <2>2. CASE /\ vault' = row[i].given
             /\ moving' = [moving EXCEPT ![p].todo = @ \ {i}, ![p].done = @ \cup {i}]
             /\ UNCHANGED refusals
    <3> DEFINE new == [moving[p] EXCEPT !.todo = moving[p].todo \ {i}, !.done = moving[p].done \cup {i}]
    <3>1. moving' = [moving EXCEPT ![p] = new]
      BY <2>2
    <3>2. /\ new \in MoveTypes
          /\ new.todo \cup new.done \subseteq moving[p].todo \cup moving[p].done
      <4>1. moving[p] \in MoveTypes
        BY <1>0
      <4> QED
        BY <2>1, <4>1 DEF MoveTypes
    <3> HIDE DEF new
    <3>3. /\ moving' \in [Processes -> MoveTypes]
          /\ \A q \in Processes : moving'[q].todo \cup moving'[q].done \subseteq moving[q].todo \cup moving[q].done
      BY <1>0, <3>1, <3>2
    <3>4. vault' \in Values \cup {Absent} /\ vault' # Absent
      BY <1>0, <2>1, <2>2 DEF RowTypes, SecretsInv, RowsAreGiven
    <3>5. Secrets!TypeOK'
      BY <1>0, <2>1, <2>2, <3>3, <3>4 DEF Secrets!TypeOK, RowTypes, MoveTypes, AskTypes
    <3> QED
      BY <2>1, <3>3, <3>4, <3>5, VaultFilled
  <2>3. CASE /\ Secrets!Refused
             /\ moving' = [moving EXCEPT ![p].todo = @ \ {i}, ![p].failed = TRUE]
             /\ UNCHANGED vault
    <3> DEFINE new == [moving[p] EXCEPT !.todo = moving[p].todo \ {i}, !.failed = TRUE]
    <3>1. moving' = [moving EXCEPT ![p] = new]
      BY <2>3
    <3>2. /\ new \in MoveTypes
          /\ new.todo \subseteq moving[p].todo /\ new.done = moving[p].done
      <4>1. moving[p] \in MoveTypes
        BY <1>0
      <4> QED
        BY <4>1 DEF MoveTypes
    <3> HIDE DEF new
    <3>3. /\ moving' \in [Processes -> MoveTypes]
          /\ \A q \in Processes : moving'[q].todo \subseteq moving[q].todo /\ moving'[q].done \subseteq moving[q].done
      BY <1>0, <3>1, <3>2
    <3>4. refusals' \in 0 .. MaxRefusals
      BY <1>0, <2>3, RowsAssumption DEF Secrets!Refused
    <3>5. Secrets!TypeOK'
      BY <1>0, <2>1, <2>3, <3>3, <3>4 DEF Secrets!TypeOK, RowTypes, MoveTypes, AskTypes
    <3> QED
      BY <2>1, <2>3, <3>3, <3>5, LessInHand
  <2> QED
    BY <1>2, <2>2, <2>3 DEF Secrets!MoveOne
<1>3. CASE Secrets!CommitMoved(p)
  <2> DEFINE stale == ~(moving[p].done \subseteq Secrets!Live)
             new   == IF stale \/ moving[p].failed THEN Secrets!Still ELSE [Secrets!Still EXCEPT !.stage = "moved"]
  <2>1. /\ UNCHANGED <<vault, ask, wiped, refusals>>
        /\ row' = IF stale THEN row ELSE Secrets!Cleared(p)
        /\ moving' = [moving EXCEPT ![p] = new]
    BY <1>3 DEF Secrets!CommitMoved
  <2>2. new \in MoveTypes /\ new.todo = {} /\ new.done = {}
    BY EmptyHanded DEF Secrets!Still, MoveTypes
  <2> HIDE DEF stale, new
  <2>3. /\ moving' \in [Processes -> MoveTypes] /\ moving'[p].todo = {} /\ moving'[p].done = {}
        /\ \A q \in Processes : q # p => moving'[q] = moving[q]
    BY <1>0, <2>1, <2>2
  <2>4. /\ row' \in [Secrets!Rows -> RowTypes]
        /\ \A i \in Secrets!Rows :
              /\ row'[i].state = row[i].state /\ row'[i].given = row[i].given
              /\ row'[i].value = row[i].value \/ i \in moving[p].done
    <3>1. CASE row' = row
      BY <1>0, <3>1
    <3>2. CASE row' = Secrets!Cleared(p)
      <4>1. row' = [i \in Secrets!Rows |-> IF i \in moving[p].done THEN [row[i] EXCEPT !.value = Absent] ELSE row[i]]
        BY <3>2 DEF Secrets!Cleared
      <4>2. ASSUME NEW i \in Secrets!Rows
            PROVE  /\ row'[i] \in RowTypes
                   /\ row'[i].state = row[i].state /\ row'[i].given = row[i].given
                   /\ row'[i].value = row[i].value \/ i \in moving[p].done
        <5>1. row[i] \in RowTypes
          BY <1>0
        <5>2. [row[i] EXCEPT !.value = Absent] \in RowTypes
          BY <5>1 DEF RowTypes
        <5> QED
          BY <4>1, <5>1, <5>2 DEF RowTypes
      <4> QED
        BY <4>1, <4>2
    <3> QED
      BY <2>1, <3>1, <3>2
  <2>5. Secrets!TypeOK'
    BY <1>0, <2>1, <2>3, <2>4 DEF Secrets!TypeOK, RowTypes, MoveTypes, AskTypes
  <2>6. RowsAreGiven' /\ StoredIsKept'
    BY <2>1, <2>4 DEF SecretsInv, RowsAreGiven, StoredIsKept, VaultIsFull
  <2>10. AskedAreGiven'
    <3>1. \A r \in Requests : ask[r].row \in Secrets!Rows
      BY <1>0 DEF AskTypes
    <3> QED
      BY <2>1, <2>4, <3>1 DEF SecretsInv, AskedAreGiven
  <2>7. MovedAreRows'
    <3> SUFFICES ASSUME NEW q \in Processes, NEW i \in moving'[q].todo \cup moving'[q].done
                 PROVE  row'[i].state # "unused"
      BY DEF MovedAreRows
    <3>1. q # p /\ i \in moving[q].todo \cup moving[q].done
      BY <2>3
    <3>2. i \in Secrets!Rows
      BY <1>0, <3>1 DEF MoveTypes
    <3> QED
      BY <2>4, <3>1, <3>2 DEF SecretsInv, MovedAreRows
  <2>8. MovedIsKept'
    <3> SUFFICES ASSUME ~wiped', NEW q \in Processes, moving'[q].done # {} PROVE VaultIsFull'
      BY DEF MovedIsKept
    <3>1. moving[q].done # {}
      BY <2>3
    <3>2. VaultIsFull
      BY <2>1, <3>1 DEF SecretsInv, MovedIsKept
    <3> QED
      BY <2>1, <3>2 DEF VaultIsFull
  <2>9. SecretIsKept'
    <3> SUFFICES ASSUME ~wiped', NEW i \in Secrets!Rows, row'[i].state = "live", row'[i].value = Absent
                 PROVE  vault' # Absent
      BY DEF SecretIsKept, Secrets!SecretIsKept, Secrets!Live
    <3>1. CASE row'[i].value = row[i].value
      BY <2>1, <2>4, <3>1 DEF SecretsInv, SecretIsKept, Secrets!SecretIsKept, Secrets!Live
    <3>2. CASE i \in moving[p].done
      BY <2>1, <3>2 DEF SecretsInv, MovedIsKept, VaultIsFull
    <3> QED
      BY <2>4, <3>1, <3>2
  <2> QED
    BY <2>5, <2>6, <2>7, <2>8, <2>9, <2>10 DEF SecretsInv
<1> QED
  BY <1>1, <1>2, <1>3 DEF Secrets!Move

\* Nor does a request that saves or deletes a variable.
LEMMA SchemaRequestStep ==
    ASSUME SecretsInv, NEW r \in Requests, Secrets!Handle(r)
    PROVE  SecretsInv'
<1>0. /\ row \in [Secrets!Rows -> RowTypes] /\ vault \in Values \cup {Absent}
      /\ moving \in [Processes -> MoveTypes] /\ ask \in [Requests -> AskTypes]
      /\ wiped \in BOOLEAN /\ refusals \in 0 .. MaxRefusals
  BY SecretTypes DEF SecretsInv
<1>a. ASSUME NEW new \in AskTypes, ask' = [ask EXCEPT ![r] = new]
      PROVE  /\ ask' \in [Requests -> AskTypes] /\ ask'[r] = new
             /\ \A q \in Requests : q # r => ask'[q] = ask[q]
  BY <1>0, <1>a
<1>1. ASSUME NEW v \in Values, NEW secret \in Kinds, Secrets!OpenCreate(r, v, secret)
      PROVE  SecretsInv'
  <2> DEFINE new == [op |-> "create", stage |-> IF secret THEN "new" ELSE "stored", row |-> 1, value |-> v, secret |-> secret]
  <2>1. ask' = [ask EXCEPT ![r] = new] /\ UNCHANGED <<row, vault, moving, wiped, refusals>>
    BY <1>1 DEF Secrets!OpenCreate
  <2>2. /\ new \in AskTypes /\ new.value # Absent /\ ~(new.stage = "stored" /\ new.secret)
    <3>1. secret \in BOOLEAN /\ v # Absent /\ 1 \in Secrets!Rows
      BY ValuesAssumption, RowsAssumption DEF Secrets!Rows
    <3> QED
      BY <3>1 DEF AskTypes
  <2> HIDE DEF new
  <2>3. /\ ask' \in [Requests -> AskTypes] /\ ask'[r] = new
        /\ \A q \in Requests : q # r => ask'[q] = ask[q]
    BY <1>a, <2>1, <2>2
  <2>4. Secrets!TypeOK'
    BY <1>0, <2>1, <2>3 DEF Secrets!TypeOK, RowTypes, MoveTypes, AskTypes
  <2>5. RowsAreGiven' /\ MovedAreRows' /\ MovedIsKept' /\ SecretIsKept'
    BY <2>1 DEF SecretsInv, RowsAreGiven, MovedAreRows, MovedIsKept, SecretIsKept, Secrets!SecretIsKept, Secrets!Live,
                VaultIsFull
  <2>6. AskedAreGiven'
    <3>1. new.op = "create"
      BY DEF new
    <3> QED
      BY <2>1, <2>2, <2>3, <3>1 DEF SecretsInv, AskedAreGiven
  <2>7. StoredIsKept'
    BY <2>1, <2>2, <2>3 DEF SecretsInv, StoredIsKept, VaultIsFull
  <2> QED
    BY <2>4, <2>5, <2>6, <2>7 DEF SecretsInv
<1>2. ASSUME NEW i \in Secrets!Rows, Secrets!OpenDelete(r, i)
      PROVE  SecretsInv'
  <2> DEFINE new == [Secrets!NoAsk EXCEPT !.op = "delete", !.row = i, !.stage = IF row[i].secret THEN "new" ELSE "stored"]
  <2>1. ask' = [ask EXCEPT ![r] = new] /\ UNCHANGED <<row, vault, moving, wiped, refusals>>
    BY <1>2 DEF Secrets!OpenDelete
  <2>2. new \in AskTypes /\ new.op = "delete" /\ new.row = i
    BY EmptyHanded DEF AskTypes, Secrets!NoAsk
  <2>5. row[i].state # "unused"
    BY <1>2 DEF Secrets!OpenDelete, Secrets!Live
  <2> HIDE DEF new
  <2>3. /\ ask' \in [Requests -> AskTypes] /\ ask'[r] = new
        /\ \A q \in Requests : q # r => ask'[q] = ask[q]
    BY <1>a, <2>1, <2>2
  <2>4. Secrets!TypeOK'
    BY <1>0, <2>1, <2>3 DEF Secrets!TypeOK, RowTypes, MoveTypes, AskTypes
  <2> QED
    BY <2>1, <2>2, <2>3, <2>4, <2>5, LessInHand
<1>3. ASSUME NEW i \in Secrets!Rows, Secrets!InsertRow(r, i)
      PROVE  SecretsInv'
  <2> DEFINE new == [state |-> "live", secret |-> ask[r].secret, given |-> ask[r].value,
                     value |-> IF ask[r].secret THEN Absent ELSE ask[r].value]
  <2>1. /\ ask[r].op = "create" /\ ask[r].stage = "stored" /\ UNCHANGED <<vault, moving, wiped, refusals>>
        /\ row' = [row EXCEPT ![i] = new] /\ ask' = [ask EXCEPT ![r] = Secrets!NoAsk]
    BY <1>3 DEF Secrets!InsertRow, Secrets!Finish
  <2>2. ask[r] \in AskTypes /\ ask[r].value # Absent
    BY <1>0, <2>1 DEF SecretsInv, AskedAreGiven
  <2>3. /\ new \in RowTypes /\ new.given # Absent /\ new.state = "live"
        /\ new.value = Absent => ask[r].secret
    BY <2>2 DEF AskTypes, RowTypes
  <2> HIDE DEF new
  <2>4. /\ row' \in [Secrets!Rows -> RowTypes] /\ row'[i] = new
        /\ \A j \in Secrets!Rows : j # i => row'[j] = row[j]
    BY <1>0, <2>1, <2>3
  <2>5. /\ ask' \in [Requests -> AskTypes] /\ ask'[r] = Secrets!NoAsk
        /\ \A q \in Requests : q # r => ask'[q] = ask[q]
    BY <1>a, <2>1, EmptyHanded
  <2>6. Secrets!TypeOK'
    BY <1>0, <2>1, <2>4, <2>5 DEF Secrets!TypeOK, RowTypes, MoveTypes, AskTypes
  <2>7. RowsAreGiven'
    BY <2>3, <2>4 DEF SecretsInv, RowsAreGiven
  <2>8. MovedAreRows'
    <3> SUFFICES ASSUME NEW q \in Processes, NEW j \in moving[q].todo \cup moving[q].done
                 PROVE  row'[j].state # "unused"
      BY <2>1 DEF MovedAreRows
    <3>1. j \in Secrets!Rows /\ row[j].state # "unused"
      BY <1>0 DEF MoveTypes, SecretsInv, MovedAreRows
    <3> QED
      BY <2>3, <2>4, <3>1
  <2>9. AskedAreGiven'
    <3> SUFFICES ASSUME NEW q \in Requests
                 PROVE  /\ ask'[q].op = "create" => ask'[q].value # Absent
                        /\ ask'[q].op = "delete" => row'[ask'[q].row].state # "unused"
      BY DEF AskedAreGiven
    <3>1. CASE q = r
      BY <2>5, <3>1, EmptyHanded
    <3>2. CASE q # r
      <4>1. ask'[q] = ask[q] /\ ask[q].row \in Secrets!Rows
        BY <1>0, <2>5, <3>2 DEF AskTypes
      <4> QED
        BY <2>3, <2>4, <4>1 DEF SecretsInv, AskedAreGiven
    <3> QED
      BY <3>1, <3>2
  <2>11. MovedIsKept' /\ StoredIsKept'
    BY <2>1, <2>5, EmptyHanded DEF SecretsInv, MovedIsKept, StoredIsKept, VaultIsFull
  <2>10. SecretIsKept'
    <3> SUFFICES ASSUME ~wiped', NEW j \in Secrets!Rows, row'[j].state = "live", row'[j].value = Absent
                 PROVE  vault' # Absent
      BY DEF SecretIsKept, Secrets!SecretIsKept, Secrets!Live
    <3>1. CASE j = i
      BY <2>1, <2>3, <2>4, <3>1 DEF SecretsInv, StoredIsKept, VaultIsFull
    <3>2. CASE j # i
      BY <2>1, <2>4, <3>2 DEF SecretsInv, SecretIsKept, Secrets!SecretIsKept, Secrets!Live
    <3> QED
      BY <3>1, <3>2
  <2> QED
    BY <2>6, <2>7, <2>8, <2>9, <2>10, <2>11 DEF SecretsInv
<1>4. CASE Secrets!StoreSecret(r)
  <2>1. ask[r].op = "create" /\ UNCHANGED <<row, moving, wiped>>
    BY <1>4 DEF Secrets!StoreSecret
  <2>2. CASE /\ vault' = ask[r].value
             /\ ask' = [ask EXCEPT ![r].stage = "stored"]
             /\ UNCHANGED refusals
    <3> DEFINE new == [ask[r] EXCEPT !.stage = "stored"]
    <3>1. ask' = [ask EXCEPT ![r] = new]
      BY <2>2
    <3>2. new \in AskTypes /\ new.op = ask[r].op /\ new.value = ask[r].value /\ new.row = ask[r].row
      <4>1. ask[r] \in AskTypes
        BY <1>0
      <4> QED
        BY <4>1 DEF AskTypes
    <3> HIDE DEF new
    <3>3. /\ ask' \in [Requests -> AskTypes]
          /\ \A q \in Requests : ask'[q].op = ask[q].op /\ ask'[q].value = ask[q].value /\ ask'[q].row = ask[q].row
      BY <1>a, <3>1, <3>2
    <3>4. vault' \in Values \cup {Absent} /\ vault' # Absent
      BY <1>0, <2>1, <2>2 DEF AskTypes, SecretsInv, AskedAreGiven
    <3>5. Secrets!TypeOK'
      BY <1>0, <2>1, <2>2, <3>3, <3>4 DEF Secrets!TypeOK, RowTypes, MoveTypes, AskTypes
    <3>6. \A p \in Processes : moving'[p].todo \cup moving'[p].done \subseteq moving[p].todo \cup moving[p].done
      BY <2>1
    <3> QED
      BY <2>1, <3>3, <3>4, <3>5, <3>6, VaultFilled
  <2>3. CASE Secrets!Refused /\ Secrets!Finish(r) /\ UNCHANGED vault
    <3>1. /\ ask' \in [Requests -> AskTypes] /\ ask'[r] = Secrets!NoAsk
          /\ \A q \in Requests : q # r => ask'[q] = ask[q]
      BY <1>a, <2>3, EmptyHanded DEF Secrets!Finish
    <3>2. refusals' \in 0 .. MaxRefusals
      BY <1>0, <2>3, RowsAssumption DEF Secrets!Refused
    <3>3. Secrets!TypeOK'
      BY <1>0, <2>1, <2>3, <3>1, <3>2 DEF Secrets!TypeOK, RowTypes, MoveTypes, AskTypes
    <3> QED
      BY <2>1, <2>3, <3>1, <3>3, EmptyHanded, LessInHand
  <2> QED
    BY <1>4, <2>2, <2>3 DEF Secrets!StoreSecret
<1>5. CASE Secrets!WipeSecret(r)
  <2>1. ask[r].op = "delete" /\ UNCHANGED <<row, moving>>
    BY <1>5 DEF Secrets!WipeSecret
  <2>2. CASE /\ vault' = Absent
             /\ wiped' = TRUE
             /\ ask' = [ask EXCEPT ![r].stage = "stored"]
             /\ UNCHANGED refusals
    <3> DEFINE new == [ask[r] EXCEPT !.stage = "stored"]
    <3>1. ask' = [ask EXCEPT ![r] = new]
      BY <2>2
    <3>2. new \in AskTypes /\ new.op = ask[r].op /\ new.value = ask[r].value /\ new.row = ask[r].row
      <4>1. ask[r] \in AskTypes
        BY <1>0
      <4> QED
        BY <4>1 DEF AskTypes
    <3> HIDE DEF new
    <3>3. /\ ask' \in [Requests -> AskTypes]
          /\ \A q \in Requests : ask'[q].op = ask[q].op /\ ask'[q].value = ask[q].value /\ ask'[q].row = ask[q].row
      BY <1>a, <3>1, <3>2
    <3>4. wiped' /\ wiped' \in BOOLEAN
      BY <2>2
    <3>5. Secrets!TypeOK'
      BY <1>0, <2>1, <2>2, <3>3, <3>4 DEF Secrets!TypeOK, RowTypes, MoveTypes, AskTypes
    <3>6. RowsAreGiven' /\ MovedAreRows' /\ AskedAreGiven'
      BY <2>1, <3>3 DEF SecretsInv, RowsAreGiven, MovedAreRows, AskedAreGiven
    <3> QED
      BY <3>4, <3>5, <3>6 DEF SecretsInv, MovedIsKept, StoredIsKept, SecretIsKept, Secrets!SecretIsKept
  <2>3. CASE Secrets!Refused /\ Secrets!Finish(r) /\ UNCHANGED <<vault, wiped>>
    <3>1. /\ ask' \in [Requests -> AskTypes] /\ ask'[r] = Secrets!NoAsk
          /\ \A q \in Requests : q # r => ask'[q] = ask[q]
      BY <1>a, <2>3, EmptyHanded DEF Secrets!Finish
    <3>2. refusals' \in 0 .. MaxRefusals
      BY <1>0, <2>3, RowsAssumption DEF Secrets!Refused
    <3>3. Secrets!TypeOK'
      BY <1>0, <2>1, <2>3, <3>1, <3>2 DEF Secrets!TypeOK, RowTypes, MoveTypes, AskTypes
    <3> QED
      BY <2>1, <2>3, <3>1, <3>3, EmptyHanded, LessInHand
  <2> QED
    BY <1>5, <2>2, <2>3 DEF Secrets!WipeSecret
<1>6. CASE Secrets!DeleteRow(r)
  <2>1. /\ row' = [row EXCEPT ![ask[r].row].state = "deleted"] /\ ask' = [ask EXCEPT ![r] = Secrets!NoAsk]
        /\ UNCHANGED <<vault, moving, wiped, refusals>>
    BY <1>6 DEF Secrets!DeleteRow, Secrets!Finish
  <2>2. /\ row' \in [Secrets!Rows -> RowTypes]
        /\ \A i \in Secrets!Rows :
              /\ row'[i].given = row[i].given /\ row'[i].value = row[i].value
              /\ row'[i].state = row[i].state \/ (i = ask[r].row /\ row'[i].state = "deleted")
    <3> DEFINE new == [row[ask[r].row] EXCEPT !.state = "deleted"]
    <3>1. ask[r].row \in Secrets!Rows
      BY <1>0 DEF AskTypes
    <3>2. /\ new \in RowTypes /\ new.given = row[ask[r].row].given /\ new.value = row[ask[r].row].value
          /\ new.state = "deleted"
      <4>1. row[ask[r].row] \in RowTypes
        BY <1>0, <3>1
      <4> QED
        BY <4>1 DEF RowTypes
    <3>3. row' = [row EXCEPT ![ask[r].row] = new]
      BY <2>1
    <3> HIDE DEF new
    <3> QED
      BY <1>0, <3>1, <3>2, <3>3
  <2>3. /\ ask' \in [Requests -> AskTypes] /\ ask'[r] = Secrets!NoAsk
        /\ \A q \in Requests : q # r => ask'[q] = ask[q]
    BY <1>a, <2>1, EmptyHanded
  <2>4. Secrets!TypeOK'
    BY <1>0, <2>1, <2>2, <2>3 DEF Secrets!TypeOK, RowTypes, MoveTypes, AskTypes
  <2>5. MovedIsKept' /\ StoredIsKept'
    BY <2>1, <2>3, EmptyHanded DEF SecretsInv, MovedIsKept, StoredIsKept, VaultIsFull
  <2>6. SecretIsKept'
    BY <2>1, <2>2 DEF SecretsInv, SecretIsKept, Secrets!SecretIsKept, Secrets!Live
  <2>7. \A i \in Secrets!Rows : row'[i].state # "unused" <=> row[i].state # "unused"
    <3>1. row[ask[r].row].state # "unused"
      BY <1>6 DEF Secrets!DeleteRow, SecretsInv, AskedAreGiven
    <3> QED
      BY <2>2, <3>1
  <2>8. RowsAreGiven'
    BY <2>2, <2>7 DEF SecretsInv, RowsAreGiven
  <2>9. MovedAreRows'
    <3> SUFFICES ASSUME NEW q \in Processes, NEW j \in moving[q].todo \cup moving[q].done
                 PROVE  row'[j].state # "unused"
      BY <2>1 DEF MovedAreRows
    <3>1. j \in Secrets!Rows /\ row[j].state # "unused"
      BY <1>0 DEF MoveTypes, SecretsInv, MovedAreRows
    <3> QED
      BY <2>7, <3>1
  <2>10. AskedAreGiven'
    <3> SUFFICES ASSUME NEW q \in Requests
                 PROVE  /\ ask'[q].op = "create" => ask'[q].value # Absent
                        /\ ask'[q].op = "delete" => row'[ask'[q].row].state # "unused"
      BY DEF AskedAreGiven
    <3>1. CASE q = r
      BY <2>3, <3>1, EmptyHanded
    <3>2. CASE q # r
      <4>1. ask'[q] = ask[q] /\ ask[q].row \in Secrets!Rows
        BY <1>0, <2>3, <3>2 DEF AskTypes
      <4> QED
        BY <2>7, <4>1 DEF SecretsInv, AskedAreGiven
    <3> QED
      BY <3>1, <3>2
  <2> QED
    BY <2>4, <2>5, <2>6, <2>8, <2>9, <2>10 DEF SecretsInv
<1> QED
  BY <1>1, <1>2, <1>3, <1>4, <1>5, <1>6 DEF Secrets!Handle

\* The steps of an API process and of its requests, as far as the secrets go.
LEMMA SecretsStep ==
    ASSUME SecretsInv, StartUpNext
    PROVE  SecretsInv'
<1>0. /\ row \in [Secrets!Rows -> RowTypes] /\ vault \in Values \cup {Absent}
      /\ moving \in [Processes -> MoveTypes] /\ ask \in [Requests -> AskTypes]
      /\ wiped \in BOOLEAN /\ refusals \in 0 .. MaxRefusals
  BY SecretTypes DEF SecretsInv
<1>a. ASSUME NEW gone, Secrets!Drop(gone)
      PROVE  /\ ask' \in [Requests -> AskTypes]
             /\ \A r \in Requests : ask'[r] = ask[r] \/ ask'[r].op = "none"
  BY <1>0, <1>a, EmptyHanded DEF Secrets!Drop
<1>1. CASE UpgradeStep
  <2>1. UNCHANGED secrets
    BY <1>1 DEF UpgradeStep
  <2>2. Secrets!TypeOK'
    BY <1>0, <2>1 DEF secrets, Secrets!TypeOK, RowTypes, MoveTypes, AskTypes
  <2> QED
    BY <2>1, <2>2, LessInHand DEF secrets
<1>2. ASSUME NEW r \in Requests, Forget({r})
      PROVE  SecretsInv'
  <2>1. Secrets!Drop({r}) /\ UNCHANGED <<row, vault, moving, wiped, refusals>>
    BY <1>2 DEF Forget
  <2>2. Secrets!TypeOK'
    BY <1>0, <1>a, <2>1 DEF Secrets!TypeOK, RowTypes, MoveTypes, AskTypes
  <2> QED
    BY <1>a, <2>1, <2>2, LessInHand
<1>3. ASSUME NEW p \in Processes, Secrets!StopMoving(p), Secrets!Drop(ServedBy(p)),
             UNCHANGED <<row, vault, wiped, refusals>>
      PROVE  SecretsInv'
  <2>1. moving' = [moving EXCEPT ![p] = Secrets!Still]
    BY <1>3 DEF Secrets!StopMoving
  <2>2. /\ moving' \in [Processes -> MoveTypes] /\ moving'[p] = Secrets!Still
        /\ \A q \in Processes : q # p => moving'[q] = moving[q]
    BY <1>0, <2>1, EmptyHanded
  <2>3. \A q \in Processes : moving'[q].todo \subseteq moving[q].todo /\ moving'[q].done \subseteq moving[q].done
    BY <2>2, EmptyHanded
  <2>4. Secrets!TypeOK'
    BY <1>0, <1>3, <1>a, <2>2 DEF Secrets!TypeOK, RowTypes, MoveTypes, AskTypes
  <2> QED
    BY <1>3, <1>a, <2>3, <2>4, LessInHand
<1>4. ASSUME NEW p \in Processes, MoveSecrets(p)
      PROVE  SecretsInv'
  BY <1>4, MovingStep DEF MoveSecrets
<1>5. ASSUME NEW r \in Requests, HandleRequest(r)
      PROVE  SecretsInv'
  BY <1>5, SchemaRequestStep DEF HandleRequest
<1> QED
  BY <1>1, <1>2, <1>3, <1>4, <1>5 DEF StartUpNext, Break

\* A step of somebody else changes nothing of a secret.
LEMMA SecretsStutter ==
    ASSUME SecretsInv, UNCHANGED all
    PROVE  SecretsInv'
<1>1. UNCHANGED secrets
  BY DEF all
<1>2. Secrets!TypeOK'
  BY <1>1 DEF SecretsInv, secrets, Secrets!TypeOK
<1> QED
  BY <1>1, <1>2, LessInHand DEF secrets

\* In every reachable state, rows that are being moved exist, what was moved or stored as a secret is in
\* a vault that is not empty until somebody deletes a variable of the name, and so the value is kept.
THEOREM SecretsInvariance == StartUpSpec => []SecretsInv
<1>1. SecretsInv /\ [StartUpNext]_all => SecretsInv'
  BY SecretsStep, SecretsStutter
<1> QED
  BY <1>1, SecretsInitInv, PTL DEF StartUpSpec

\* Whatever the bounds: a secret that was saved can be deployed with until somebody deletes a
\* variable of its name, although two processes move it to the vault at the same time, the vault
\* refuses, the request that stored it ends before its row is there, and any process stops.
THEOREM StartUpKeepsSecrets == StartUpSpec => []SecretIsKept
<1>1. SecretsInv => SecretIsKept
  BY DEF SecretsInv
<1> QED
  BY <1>1, SecretsInvariance, PTL

-----------------------------------------------------------------------------
Labels == {"idle", "connect", "create database", "look", "create tables", "migrate",
           "read versions", "versions", "compatibility", "up", "serving"}

\* A task is a process at its start-up or a request, and never both.
LEMMA TaskKinds ==
    /\ Processes \subseteq Tasks /\ Requests \subseteq Tasks /\ Nobody \notin Tasks
    /\ \A t \in Tasks : t \notin Processes <=> t \in Requests
BY TasksAssumption DEF Tasks

\* What a typed state of the schema is, variable by variable.
LEMMA SchemaTypesAre ==
    SchemaTypes <=>
        /\ exists \in BOOLEAN /\ tables \in BOOLEAN /\ twins \in BOOLEAN
        /\ columns \subseteq AllColumns
        /\ recorded \subseteq Versions
        /\ applied \in [Versions -> Nat]
        /\ lock \in Tasks \cup {Nobody}
        /\ available \in [Processes -> BOOLEAN]
        /\ pc \in [Tasks -> Labels]
        /\ missing \in [Tasks -> SUBSET (Versions \cup {0})]
        /\ home \in [Requests -> Processes \cup {Nobody}]
        /\ faults \in 0 .. MaxFaults
BY DEF SchemaTypes, Labels

\* Nothing has been migrated at first.
LEMMA SchemaInitInv == StartUpInit => SchemaInv
<1> SUFFICES ASSUME StartUpInit PROVE SchemaInv
  OBVIOUS
<1>1. /\ applied = [v \in Versions |-> 0] /\ lock = Nobody /\ available = [p \in Processes |-> FALSE]
      /\ pc = [t \in Tasks |-> "idle"] /\ missing = [t \in Tasks |-> {}]
      /\ home = [r \in Requests |-> Nobody] /\ faults = 0
  BY DEF StartUpInit, SchemaInit
<1>2. /\ exists \in BOOLEAN /\ tables \in BOOLEAN /\ twins \in BOOLEAN
      /\ recorded \subseteq Versions /\ columns \subseteq AllColumns
      /\ RecordedIsThere
  <2>1. CASE exists = FALSE /\ tables = FALSE /\ columns = {} /\ recorded = {} /\ twins = FALSE
    BY <2>1 DEF RecordedIsThere
  <2>2. ASSUME exists = TRUE, tables = TRUE, NEW v \in {0, 10}, recorded = 1 .. v,
               columns = CompatibilityAdds \cup UNION {Adds[w] : w \in 1 .. v}, twins \in {FALSE, v < 4}
        PROVE  /\ exists \in BOOLEAN /\ tables \in BOOLEAN /\ twins \in BOOLEAN
               /\ recorded \subseteq Versions /\ columns \subseteq AllColumns
               /\ RecordedIsThere
    <3>1. recorded \subseteq Versions
      BY <2>2 DEF Versions
    <3>2. ASSUME NEW c \in columns PROVE c \in AllColumns
      <4>1. CASE c \in CompatibilityAdds
        BY <4>1 DEF AllColumns
      <4>2. CASE c \in UNION {Adds[w] : w \in recorded}
        <5>1. PICK w \in recorded : c \in Adds[w]
          BY <4>2
        <5> QED
          BY <3>1, <5>1 DEF AllColumns
      <4> QED
        BY <2>2, <4>1, <4>2
    <3>4. RecordedIsThere
      <4> SUFFICES ASSUME NEW w \in recorded, NEW c \in Adds[w] PROVE c \in columns
        BY DEF RecordedIsThere
      <4>1. c \in UNION {Adds[u] : u \in recorded}
        OBVIOUS
      <4> QED
        BY <2>2, <4>1
    <3>3. twins \in BOOLEAN
      <4>1. (v < 4) \in BOOLEAN
        OBVIOUS
      <4> QED
        BY <2>2, <4>1
    <3> QED
      BY <2>2, <3>1, <3>2, <3>3, <3>4
  <2> QED
    BY <2>1, <2>2 DEF StartUpInit, SchemaInit
<1>3. SchemaTypes
  <2>1. faults \in 0 .. MaxFaults
    BY <1>1, FaultsAssumption
  <2>2. /\ applied \in [Versions -> Nat] /\ lock \in Tasks \cup {Nobody} /\ pc \in [Tasks -> Labels]
        /\ missing \in [Tasks -> SUBSET (Versions \cup {0})] /\ home \in [Requests -> Processes \cup {Nobody}]
    BY <1>1 DEF Labels
  <2>3. available \in [Processes -> BOOLEAN]
    BY <1>1
  <2> QED
    BY <1>2, <2>1, <2>2, <2>3, SchemaTypesAre
<1>4. AppliedIsRecorded
  BY <1>1 DEF AppliedIsRecorded
<1>5. \A t \in Tasks : pc[t] = "idle"
  BY <1>1
<1>6. LockIsHeld /\ MissingIsMissing /\ VersionsAreDone
  BY <1>5 DEF LockIsHeld, MissingIsMissing, VersionsAreDone, LockedLabels
<1>7. HomesAreReady /\ HomesOfReady /\ FlagWhileStarting /\ UpIsFull
  BY <1>1, <1>5, TaskKinds DEF HomesAreReady, HomesOfReady, FlagWhileStarting, UpIsFull, Initialising
<1> QED
  BY <1>2, <1>3, <1>4, <1>6, <1>7 DEF SchemaInv

\* A step of init_db: the task holds the lock while it is at a label of the migrations, knows
\* what is missing there, and a production process comes up with the whole schema.
LEMMA InitDbFrame ==
    ASSUME SchemaInv, SchemaTypes', NEW t \in Tasks, Initialising(t), UNCHANGED moving,
           \A u \in Tasks : u # t => pc'[u] = pc[u] /\ missing'[u] = missing[u],
           \A r \in Requests : home'[r] = home[r] \/ (r = t /\ home'[r] = Nobody /\ pc'[r] = "idle"),
           \A u \in Tasks : u # t /\ lock = u => lock' = u,
           pc'[t] \in LockedLabels => lock' = t,
           recorded \subseteq recorded', columns \subseteq columns',
           recorded' = recorded \/ pc[t] = "versions",
           AppliedIsRecorded', RecordedIsThere',
           pc'[t] = "versions" => missing'[t] = Versions \ recorded',
           pc'[t] = "compatibility" => recorded' = Versions,
           Production => \A p \in Processes : available[p] => available'[p],
           Production /\ t \in Processes /\ pc'[t] = "up" => FullSchema'
    PROVE  SchemaInv'
<1>0. /\ columns' \subseteq AllColumns /\ recorded' \subseteq Versions
  BY DEF SchemaTypes
<1>1. LockIsHeld'
  BY DEF SchemaInv, LockIsHeld
<1>2. MissingIsMissing'
  <2> SUFFICES ASSUME NEW u \in Tasks, u # t, pc'[u] = "versions" PROVE missing'[u] = Versions \ recorded'
    BY DEF MissingIsMissing
  <2>1. pc[u] = "versions" /\ lock = u
    BY DEF SchemaInv, LockIsHeld, LockedLabels
  <2>2. pc[t] # "versions"
    BY <2>1 DEF SchemaInv, LockIsHeld, LockedLabels
  <2> QED
    BY <2>1, <2>2 DEF SchemaInv, MissingIsMissing
<1>3. VersionsAreDone'
  BY <1>0 DEF SchemaInv, VersionsAreDone
<1>4. HomesAreReady'
  <2> SUFFICES ASSUME NEW r \in Requests, pc'[r] # "idle" PROVE home'[r] \in Processes
    BY DEF HomesAreReady
  <2>1. home'[r] = home[r]
    OBVIOUS
  <2>2. pc[r] # "idle"
    BY TaskKinds DEF Initialising
  <2> QED
    BY <2>1, <2>2 DEF SchemaInv, HomesAreReady
<1>5. HomesOfReady'
  <2> SUFFICES ASSUME NEW r \in Requests, home'[r] # Nobody 
               PROVE  pc'[home'[r]] = "up" /\ moving'[home'[r]].stage = "moved"
    BY DEF HomesOfReady, Ready, IsUp
  <2>1. home'[r] = home[r] /\ Ready(home[r])
    BY DEF SchemaInv, HomesOfReady
  <2>2. home[r] \in Processes /\ pc[home[r]] = "up" /\ moving[home[r]].stage = "moved"
    BY <2>1, SchemaTypesAre DEF SchemaInv, Ready, IsUp
  <2>3. home[r] # t /\ pc'[home[r]] = "up"
    BY <2>2, TaskKinds DEF Initialising
  <2> QED
    BY <2>1, <2>2, <2>3
<1>6. FlagWhileStarting'
  <2> SUFFICES ASSUME Production, NEW p \in Processes, Initialising(p)' PROVE available'[p]
    BY DEF FlagWhileStarting
  <2>1. Initialising(p)
    BY TaskKinds DEF Initialising
  <2>2. available[p]
    BY <2>1 DEF SchemaInv, FlagWhileStarting
  <2> QED
    BY <2>2
<1>7. UpIsFull'
  <2> SUFFICES ASSUME Production, NEW p \in Processes, pc'[p] = "up" PROVE FullSchema'
    BY DEF UpIsFull
  <2>1. CASE p = t
    BY <2>1
  <2>2. CASE p # t
    <3>1. FullSchema
      BY <2>2, TaskKinds DEF SchemaInv, UpIsFull
    <3> QED
      BY <1>0, <3>1 DEF FullSchema
  <2> QED
    BY <2>1, <2>2
<1> QED
  BY <1>1, <1>2, <1>3, <1>4, <1>5, <1>6, <1>7 DEF SchemaInv

\* A task that goes on leaves the others where they are.
LEMMA ContinueMoves ==
    ASSUME pc \in [Tasks -> Labels], NEW t \in Tasks, NEW l \in Labels, Continue(t, l)
    PROVE  /\ pc' \in [Tasks -> Labels] /\ pc'[t] = l
           /\ \A u \in Tasks : u # t => pc'[u] = pc[u]
BY DEF Continue

\* Tasks that end have no process any more, and the others stay where they are.
LEMMA EndMoves ==
    ASSUME pc \in [Tasks -> Labels], home \in [Requests -> Processes \cup {Nobody}], NEW gone, End(gone)
    PROVE  /\ pc' \in [Tasks -> Labels] /\ home' \in [Requests -> Processes \cup {Nobody}]
           /\ \A t \in Tasks : pc'[t] = IF t \in gone THEN "idle" ELSE pc[t]
           /\ \A r \in Requests : home'[r] = IF r \in gone THEN Nobody ELSE home[r]
<1>1. "idle" \in Labels
  BY DEF Labels
<1> QED
  BY <1>1, TaskKinds DEF End

\* A task at work has a process.
LEMMA HasProcess ==
    ASSUME SchemaInv, NEW t \in Tasks, pc[t] # "idle"
    PROVE  ProcessOf(t) \in Processes
BY TaskKinds DEF SchemaInv, HomesAreReady, ProcessOf

\* An error at any point of a start-up keeps the invariant: it gives the lock up, and a flag is cleared outside production only.
LEMMA FailureStep ==
    ASSUME SchemaInv, NEW t \in Tasks, Initialising(t), UNCHANGED moving, Failure(t),
           UNCHANGED <<recorded, columns, applied>>,
           exists' \in BOOLEAN, tables' \in BOOLEAN, twins' \in BOOLEAN, faults' \in 0 .. MaxFaults
    PROVE  SchemaInv'
<1>0. /\ columns \subseteq AllColumns /\ recorded \subseteq Versions /\ applied \in [Versions -> Nat]
      /\ lock \in Tasks \cup {Nobody} /\ available \in [Processes -> BOOLEAN] /\ pc \in [Tasks -> Labels]
      /\ missing \in [Tasks -> SUBSET (Versions \cup {0})] /\ home \in [Requests -> Processes \cup {Nobody}]
  BY SchemaTypesAre DEF SchemaInv
<1>1. /\ pc' \in [Tasks -> Labels] /\ home' \in [Requests -> Processes \cup {Nobody}]
      /\ pc'[t] \in {"up", "idle"} /\ (pc'[t] = "up" => ~Production)
      /\ \A u \in Tasks : u # t => pc'[u] = pc[u]
      /\ \A r \in Requests : home'[r] = home[r] \/ (r = t /\ home'[r] = Nobody /\ pc'[r] = "idle")
  <2>1. CASE t \in Processes /\ ~Production
    <3>1. Continue(t, "up") /\ UNCHANGED home /\ "up" \in Labels
      BY <2>1 DEF Failure, Labels
    <3> QED
      BY <1>0, <2>1, <3>1, ContinueMoves
  <2>2. CASE ~(t \in Processes /\ ~Production)
    <3>1. End({t})
      BY <2>2 DEF Failure
    <3> QED
      BY <1>0, <3>1, EndMoves, TaskKinds
  <2> QED
    BY <2>1, <2>2
<1>2. /\ available' \in [Processes -> BOOLEAN]
      /\ Production => available' = available
  <2>1. CASE Production
    BY <1>0, <2>1 DEF Failure
  <2>2. CASE ~Production
    BY <1>0, <2>2 DEF Failure
  <2> QED
    BY <2>1, <2>2
<1>3. /\ lock' \in Tasks \cup {Nobody}
      /\ \A u \in Tasks : u # t /\ lock = u => lock' = u
      /\ missing' \in [Tasks -> SUBSET (Versions \cup {0})]
      /\ \A u \in Tasks : u # t => missing'[u] = missing[u]
  BY <1>0 DEF Failure
<1>4. SchemaTypes'
  BY <1>0, <1>1, <1>2, <1>3 DEF SchemaTypes, Labels
<1>5. AppliedIsRecorded' /\ RecordedIsThere'
  BY DEF SchemaInv, AppliedIsRecorded, RecordedIsThere
<1>6. pc'[t] \notin LockedLabels /\ pc'[t] # "versions" /\ pc'[t] # "compatibility"
  BY <1>1 DEF LockedLabels
<1>7. Production => \A p \in Processes : available[p] => available'[p]
  BY <1>2
<1> QED
  BY <1>1, <1>3, <1>4, <1>5, <1>6, <1>7, InitDbFrame

\* Each step of init_db keeps it.
LEMMA InitDbStep ==
    ASSUME SchemaInv, NEW t \in Tasks, InitDb(t), UNCHANGED moving
    PROVE  SchemaInv'
<1>0. /\ exists \in BOOLEAN /\ tables \in BOOLEAN /\ twins \in BOOLEAN /\ faults \in 0 .. MaxFaults
      /\ columns \subseteq AllColumns /\ recorded \subseteq Versions /\ applied \in [Versions -> Nat]
      /\ lock \in Tasks \cup {Nobody} /\ available \in [Processes -> BOOLEAN] /\ pc \in [Tasks -> Labels]
      /\ missing \in [Tasks -> SUBSET (Versions \cup {0})] /\ home \in [Requests -> Processes \cup {Nobody}]
  BY SchemaTypesAre DEF SchemaInv
<1>i. Initialising(t)
  BY DEF InitDb, Connect, CreateDatabase, LookForTables, CreateTables, SkipMigrations, TakeLock, ReadVersions,
         ApplyVersions, ApplyCompatibility, Initialising
<1>p. ProcessOf(t) \in Processes
  BY <1>i, HasProcess DEF Initialising
<1>f. Production /\ t \in Processes => available[ProcessOf(t)]
  BY <1>i DEF ProcessOf, SchemaInv, FlagWhileStarting
<1>r. AppliedIsRecorded /\ RecordedIsThere
  BY DEF SchemaInv
\* A step that changes where the task is and nothing the others see.
<1>a. ASSUME NEW l \in Labels \ {"versions", "compatibility"}, Continue(t, l),
             UNCHANGED <<columns, recorded, applied, available, home, faults>>,
             exists' \in BOOLEAN, tables' \in BOOLEAN, twins' \in BOOLEAN,
             missing' \in [Tasks -> SUBSET (Versions \cup {0})],
             \A u \in Tasks : u # t => missing'[u] = missing[u],
             lock' \in Tasks \cup {Nobody}, \A u \in Tasks : u # t /\ lock = u => lock' = u,
             l = "read versions" => lock' = t,
             ~(Production /\ t \in Processes /\ l = "up")
      PROVE  SchemaInv'
  <2>1. /\ pc' \in [Tasks -> Labels] /\ pc'[t] = l
        /\ \A u \in Tasks : u # t => pc'[u] = pc[u]
    BY <1>0, <1>a, ContinueMoves
  <2>2. SchemaTypes'
    BY <1>0, <1>a, <2>1 DEF SchemaTypes, Labels
  <2>3. AppliedIsRecorded' /\ RecordedIsThere'
    BY <1>a, <1>r DEF AppliedIsRecorded, RecordedIsThere
  <2>4. pc'[t] \in LockedLabels => lock' = t
    BY <1>a, <2>1 DEF LockedLabels
  <2>5. Production => \A p \in Processes : available[p] => available'[p]
    BY <1>a
  <2> QED
    BY <1>a, <1>i, <2>1, <2>2, <2>3, <2>4, <2>5, InitDbFrame
<1>l. Labels = {"idle", "connect", "create database", "look", "create tables", "migrate",
                "read versions", "versions", "compatibility", "up", "serving"}
  BY DEF Labels
<1>1. CASE Connect(t)
  <2> DEFINE l == IF exists THEN "look" ELSE "create database"
  <2>1. l \in Labels \ {"versions", "compatibility"} /\ l # "read versions" /\ l # "up"
    BY <1>l
  <2>2. Continue(t, l) /\ UNCHANGED <<database, lock, available, missing, home, faults>>
    BY <1>1 DEF Connect
  <2> HIDE DEF l
  <2> QED
    BY <1>0, <1>a, <2>1, <2>2 DEF database
<1>2. CASE CreateDatabase(t)
  <2>1. UNCHANGED <<tables, columns, recorded, applied, twins, faults>>
    BY <1>2 DEF CreateDatabase
  <2>2. CASE exists
    <3>1. Failure(t) /\ UNCHANGED exists
      BY <1>2, <2>2 DEF CreateDatabase
    <3> QED
      BY <1>0, <1>i, <2>1, <3>1, FailureStep
  <2>3. CASE ~exists
    <3>1. exists' = TRUE /\ Continue(t, "look") /\ UNCHANGED <<lock, available, missing, home>>
      BY <1>2, <2>3 DEF CreateDatabase
    <3>2. "look" \in Labels \ {"versions", "compatibility"}
      BY <1>l
    <3> QED
      BY <1>0, <1>a, <2>1, <3>1, <3>2
  <2> QED
    BY <2>2, <2>3
<1>3. CASE LookForTables(t)
  <2>1. /\ Continue(t, "create tables") /\ UNCHANGED <<database, lock, available, home, faults>>
        /\ missing' = [missing EXCEPT ![t] = IF tables THEN {} ELSE {0}]
    BY <1>3 DEF LookForTables
  <2>2. "create tables" \in Labels \ {"versions", "compatibility"}
    BY <1>l
  <2>3. /\ missing' \in [Tasks -> SUBSET (Versions \cup {0})]
        /\ \A u \in Tasks : u # t => missing'[u] = missing[u]
    BY <1>0, <2>1
  <2> QED
    BY <1>0, <1>a, <2>1, <2>2, <2>3 DEF database
<1>4. CASE CreateTables(t)
  <2>1. UNCHANGED <<exists, recorded, applied, twins, faults>>
    BY <1>4 DEF CreateTables
  <2>2. CASE missing[t] # {} /\ tables
    <3>1. Failure(t) /\ UNCHANGED <<tables, columns>>
      BY <1>4, <2>2 DEF CreateTables
    <3> QED
      BY <1>0, <1>i, <2>1, <3>1, FailureStep
  <2>3. CASE ~(missing[t] # {} /\ tables)
    <3>1. /\ tables' = TRUE
          /\ columns' = IF tables THEN columns ELSE AllColumns
          /\ available' = [available EXCEPT ![ProcessOf(t)] = TRUE]
          /\ missing' = [missing EXCEPT ![t] = {}]
          /\ Continue(t, "migrate")
          /\ UNCHANGED <<lock, home>>
      BY <1>4, <2>3 DEF CreateTables
    <3>2. columns' \subseteq AllColumns /\ columns \subseteq columns'
      BY <1>0, <3>1
    <3>3. /\ available' \in [Processes -> BOOLEAN]
          /\ \A p \in Processes : available[p] => available'[p]
      BY <1>0, <3>1
    <3>4. /\ missing' \in [Tasks -> SUBSET (Versions \cup {0})]
          /\ \A u \in Tasks : u # t => missing'[u] = missing[u]
      BY <1>0, <3>1
    <3>5. "migrate" \in Labels
      BY <1>l
    <3>6. /\ pc' \in [Tasks -> Labels] /\ pc'[t] = "migrate"
          /\ \A u \in Tasks : u # t => pc'[u] = pc[u]
      BY <1>0, <3>1, <3>5, ContinueMoves
    <3>7. SchemaTypes'
      <4>1. tables' \in BOOLEAN
        BY <3>1
      <4> QED
        BY <1>0, <2>1, <3>1, <3>2, <3>3, <3>4, <3>6, <4>1 DEF SchemaTypes, Labels
    <3>8. AppliedIsRecorded' /\ RecordedIsThere'
      BY <1>r, <2>1, <3>2 DEF AppliedIsRecorded, RecordedIsThere
    <3>9. pc'[t] \notin LockedLabels
      BY <3>6 DEF LockedLabels
    <3> QED
      BY <1>i, <2>1, <3>1, <3>2, <3>3, <3>4, <3>6, <3>7, <3>8, <3>9, InitDbFrame
  <2> QED
    BY <2>2, <2>3
<1>5. CASE SkipMigrations(t)
  <2>1. Succeed(t) /\ ~available[ProcessOf(t)] /\ UNCHANGED <<database, lock, available, missing, home, faults>>
    BY <1>5 DEF SkipMigrations
  <2> DEFINE l == IF t \in Processes THEN "up" ELSE "serving"
  <2>2. /\ l \in Labels \ {"versions", "compatibility"} /\ l # "read versions"
        /\ Continue(t, l)
    BY <1>l, <2>1 DEF Succeed
  <2>3. ~(Production /\ t \in Processes)
    BY <1>f, <2>1
  <2> HIDE DEF l
  <2> QED
    BY <1>0, <1>a, <2>1, <2>2, <2>3 DEF database
<1>6. CASE TakeLock(t)
  <2>1. /\ lock = Nobody /\ lock' = t /\ Continue(t, "read versions")
        /\ UNCHANGED <<database, available, missing, home, faults>>
    BY <1>6 DEF TakeLock
  <2>2. "read versions" \in Labels \ {"versions", "compatibility"}
    BY <1>l
  <2> QED
    BY <1>0, <1>a, <2>1, <2>2, TaskKinds DEF database
<1>7. CASE ReadVersions(t)
  <2>1. UNCHANGED <<database, available, home, faults>> /\ pc[t] = "read versions"
    BY <1>7 DEF ReadVersions
  <2>2. CASE available[ProcessOf(t)]
    <3>1. /\ missing' = [missing EXCEPT ![t] = Versions \ recorded]
          /\ Continue(t, "versions") /\ UNCHANGED lock
      BY <1>7, <2>2 DEF ReadVersions
    <3>2. /\ missing' \in [Tasks -> SUBSET (Versions \cup {0})] /\ missing'[t] = Versions \ recorded
          /\ \A u \in Tasks : u # t => missing'[u] = missing[u]
      BY <1>0, <3>1
    <3>3. "versions" \in Labels
      BY <1>l
    <3>4. /\ pc' \in [Tasks -> Labels] /\ pc'[t] = "versions"
          /\ \A u \in Tasks : u # t => pc'[u] = pc[u]
      BY <1>0, <3>1, <3>3, ContinueMoves
    <3>5. SchemaTypes'
      BY <1>0, <2>1, <3>1, <3>2, <3>4 DEF SchemaTypes, Labels, database
    <3>6. AppliedIsRecorded' /\ RecordedIsThere'
      BY <1>r, <2>1 DEF AppliedIsRecorded, RecordedIsThere, database
    <3>7. lock' = t
      BY <2>1, <3>1 DEF SchemaInv, LockIsHeld, LockedLabels
    <3>8. \A u \in Tasks : u # t /\ lock = u => lock' = u
      BY <3>1
    <3>9. Production => \A p \in Processes : available[p] => available'[p]
      BY <2>1
    <3> QED
      BY <1>i, <2>1, <3>2, <3>4, <3>5, <3>6, <3>7, <3>8, <3>9, InitDbFrame DEF database
  <2>3. CASE ~available[ProcessOf(t)]
    <3>1. Unlock(t) /\ Succeed(t) /\ UNCHANGED missing
      BY <1>7, <2>3 DEF ReadVersions
    <3> DEFINE l == IF t \in Processes THEN "up" ELSE "serving"
    <3>2. /\ l \in Labels \ {"versions", "compatibility"} /\ l # "read versions"
          /\ Continue(t, l)
      BY <1>l, <3>1 DEF Succeed
    <3>3. ~(Production /\ t \in Processes)
      BY <1>f, <2>3
    <3>4. lock' \in Tasks \cup {Nobody} /\ \A u \in Tasks : u # t /\ lock = u => lock' = u
      BY <1>0, <3>1 DEF Unlock
    <3> HIDE DEF l
    <3> QED
      BY <1>0, <1>a, <2>1, <3>1, <3>2, <3>3, <3>4 DEF database
  <2> QED
    BY <2>2, <2>3
<1>8. CASE ApplyVersions(t)
  <2>1. UNCHANGED <<exists, tables, twins, faults>> /\ pc[t] = "versions"
    BY <1>8 DEF ApplyVersions
  <2>2. missing[t] = Versions \ recorded /\ lock = t
    BY <2>1 DEF SchemaInv, MissingIsMissing, LockIsHeld, LockedLabels
  <2>3. CASE ~Applicable(missing[t])
    <3>1. Failure(t) /\ UNCHANGED <<recorded, columns, applied>>
      BY <1>8, <2>3 DEF ApplyVersions
    <3> QED
      BY <1>0, <1>i, <2>1, <3>1, FailureStep
  <2>4. CASE Applicable(missing[t])
    <3>1. /\ recorded' = recorded \cup missing[t]
          /\ columns' = columns \cup UNION {Adds[v] : v \in missing[t]}
          /\ applied' = [v \in Versions |-> applied[v] + (IF v \in missing[t] THEN 1 ELSE 0)]
          /\ missing' = [missing EXCEPT ![t] = {}]
          /\ Continue(t, "compatibility")
          /\ UNCHANGED <<lock, available, home>>
      BY <1>8, <2>4 DEF ApplyVersions
    <3>2. recorded' = Versions /\ recorded \subseteq recorded'
      BY <1>0, <2>2, <3>1
    <3>3. columns' \subseteq AllColumns /\ columns \subseteq columns' /\ RecordedIsThere'
      <4>1. ASSUME NEW v \in missing[t], NEW c \in Adds[v] PROVE c \in columns' /\ c \in AllColumns
        <5>1. v \in Versions /\ c \in UNION {Adds[w] : w \in missing[t]}
          BY <2>2
        <5>2. c \in AllColumns
          BY <5>1 DEF AllColumns
        <5> QED
          BY <3>1, <5>1, <5>2
      <4>2. columns' \subseteq AllColumns
        BY <1>0, <3>1, <4>1
      <4>3. columns \subseteq columns'
        BY <3>1
      <4>4. RecordedIsThere'
        BY <1>r, <2>2, <3>1, <4>1, <4>3 DEF RecordedIsThere
      <4> QED
        BY <4>2, <4>3, <4>4
    <3>4. applied' \in [Versions -> Nat] /\ AppliedIsRecorded'
      <4>1. ASSUME NEW v \in Versions PROVE applied'[v] \in Nat /\ applied'[v] <= 1
        <5>1. applied[v] \in Nat /\ applied[v] <= 1 /\ (applied[v] = 1 => v \in recorded)
          BY <1>0, <1>r DEF AppliedIsRecorded
        <5>2. applied'[v] = applied[v] + (IF v \in missing[t] THEN 1 ELSE 0)
          BY <3>1
        <5> QED
          BY <2>2, <5>1, <5>2
      <4> QED
        BY <3>1, <3>2, <4>1 DEF AppliedIsRecorded
    <3>5. /\ missing' \in [Tasks -> SUBSET (Versions \cup {0})]
          /\ \A u \in Tasks : u # t => missing'[u] = missing[u]
      BY <1>0, <3>1
    <3>6. "compatibility" \in Labels
      BY <1>l
    <3>7. /\ pc' \in [Tasks -> Labels] /\ pc'[t] = "compatibility"
          /\ \A u \in Tasks : u # t => pc'[u] = pc[u]
      BY <1>0, <3>1, <3>6, ContinueMoves
    <3>8. SchemaTypes'
      BY <1>0, <2>1, <3>1, <3>2, <3>3, <3>4, <3>5, <3>7 DEF SchemaTypes, Labels
    <3>9. Production => \A p \in Processes : available[p] => available'[p]
      BY <3>1
    <3> QED
      BY <1>i, <2>1, <2>2, <3>1, <3>2, <3>3, <3>4, <3>5, <3>7, <3>8, <3>9, InitDbFrame
  <2> QED
    BY <2>3, <2>4
<1>9. CASE ApplyCompatibility(t)
  <2>1. /\ pc[t] = "compatibility" /\ columns' = columns \cup CompatibilityAdds /\ Unlock(t) /\ Succeed(t)
        /\ UNCHANGED <<exists, tables, recorded, applied, twins, available, missing, home, faults>>
    BY <1>9 DEF ApplyCompatibility
  <2>2. recorded = Versions
    BY <2>1 DEF SchemaInv, VersionsAreDone
  <2>3. columns' = AllColumns
    <3>1. ASSUME NEW c \in AllColumns PROVE c \in columns'
      <4>1. CASE c \in CompatibilityAdds
        BY <2>1, <4>1
      <4>2. CASE c \in UNION {Adds[v] : v \in Versions}
        <5>1. PICK v \in Versions : c \in Adds[v]
          BY <4>2
        <5> QED
          BY <1>r, <2>1, <2>2, <5>1 DEF RecordedIsThere
      <4> QED
        BY <4>1, <4>2 DEF AllColumns
    <3>2. columns' \subseteq AllColumns
      BY <1>0, <2>1 DEF AllColumns
    <3> QED
      BY <3>1, <3>2
  <2>4. FullSchema' /\ columns \subseteq columns'
    BY <2>1, <2>2, <2>3 DEF FullSchema, AllColumns, Versions
  <2> DEFINE l == IF t \in Processes THEN "up" ELSE "serving"
  <2>5. /\ l \in Labels /\ l \notin LockedLabels /\ l # "versions" /\ l # "compatibility"
        /\ Continue(t, l)
    BY <1>l, <2>1 DEF Succeed, LockedLabels
  <2> HIDE DEF l
  <2>6. /\ pc' \in [Tasks -> Labels] /\ pc'[t] = l
        /\ \A u \in Tasks : u # t => pc'[u] = pc[u]
    BY <1>0, <2>5, ContinueMoves
  <2>7. lock' \in Tasks \cup {Nobody} /\ \A u \in Tasks : u # t /\ lock = u => lock' = u
    BY <1>0, <2>1 DEF Unlock
  <2>8. SchemaTypes'
    BY <1>0, <2>1, <2>3, <2>6, <2>7 DEF SchemaTypes, Labels
  <2>9. AppliedIsRecorded' /\ RecordedIsThere'
    BY <1>r, <2>1, <2>4 DEF AppliedIsRecorded, RecordedIsThere
  <2>10. Production => \A p \in Processes : available[p] => available'[p]
    BY <2>1
  <2> QED
    BY <1>i, <2>1, <2>4, <2>5, <2>6, <2>7, <2>8, <2>9, <2>10, InitDbFrame
<1> QED
  BY <1>1, <1>2, <1>3, <1>4, <1>5, <1>6, <1>7, <1>8, <1>9 DEF InitDb

\* A step that is not one of init_db: nobody comes to a label of the migrations.
LEMMA OtherFrame ==
    ASSUME SchemaInv, SchemaTypes', UNCHANGED <<columns, recorded, applied>>,
           \A t \in Tasks : pc'[t] \in LockedLabels => pc[t] = pc'[t] /\ missing'[t] = missing[t] /\ (lock = t => lock' = t),
           \A r \in Requests : pc'[r] # "idle" => home'[r] \in Processes,
           \A r \in Requests : home'[r] # Nobody => pc'[home'[r]] = "up" /\ moving'[home'[r]].stage = "moved",
           Production => \A p \in Processes : pc'[p] \notin {"idle", "up", "serving"} => available'[p],
           Production => \A p \in Processes : pc'[p] = "up" => pc[p] = "up"
    PROVE  SchemaInv'
<1>1. AppliedIsRecorded' /\ RecordedIsThere'
  BY DEF SchemaInv, AppliedIsRecorded, RecordedIsThere
<1>2. LockIsHeld' /\ MissingIsMissing' /\ VersionsAreDone'
  <2>1. LockIsHeld'
    BY DEF SchemaInv, LockIsHeld
  <2>2. MissingIsMissing'
    <3> SUFFICES ASSUME NEW t \in Tasks, pc'[t] = "versions" PROVE missing'[t] = Versions \ recorded'
      BY DEF MissingIsMissing
    <3>1. pc[t] = "versions" /\ missing'[t] = missing[t]
      BY DEF LockedLabels
    <3>2. missing[t] = Versions \ recorded
      BY <3>1 DEF SchemaInv, MissingIsMissing
    <3> QED
      BY <3>1, <3>2
  <2>3. VersionsAreDone'
    BY DEF SchemaInv, VersionsAreDone, LockedLabels
  <2> QED
    BY <2>1, <2>2, <2>3
<1>3. HomesAreReady' /\ HomesOfReady'
  BY DEF HomesAreReady, HomesOfReady, Ready, IsUp
<1>4. FlagWhileStarting'
  BY DEF FlagWhileStarting, Initialising
<1>5. UpIsFull'
  BY DEF SchemaInv, UpIsFull, FullSchema
<1> QED
  BY <1>1, <1>2, <1>3, <1>4, <1>5 DEF SchemaInv

\* Every step of a start-up keeps it.
LEMMA SchemaStep ==
    ASSUME SchemaInv, moving \in [Processes -> MoveTypes], StartUpNext
    PROVE  SchemaInv'
<1>0. /\ exists \in BOOLEAN /\ tables \in BOOLEAN /\ twins \in BOOLEAN /\ faults \in 0 .. MaxFaults
      /\ columns \subseteq AllColumns /\ recorded \subseteq Versions /\ applied \in [Versions -> Nat]
      /\ lock \in Tasks \cup {Nobody} /\ available \in [Processes -> BOOLEAN] /\ pc \in [Tasks -> Labels]
      /\ missing \in [Tasks -> SUBSET (Versions \cup {0})] /\ home \in [Requests -> Processes \cup {Nobody}]
  BY SchemaTypesAre DEF SchemaInv
<1>h. /\ \A r \in Requests : pc[r] # "idle" => home[r] \in Processes
      /\ \A r \in Requests : home[r] # Nobody => pc[home[r]] = "up" /\ moving[home[r]].stage = "moved"
  BY DEF SchemaInv, HomesAreReady, HomesOfReady, Ready, IsUp
<1>f. Production => \A p \in Processes : pc[p] \notin {"idle", "up", "serving"} => available[p]
  BY DEF SchemaInv, FlagWhileStarting, Initialising
<1>l. Labels = {"idle", "connect", "create database", "look", "create tables", "migrate",
                "read versions", "versions", "compatibility", "up", "serving"}
  BY DEF Labels
<1>b. ASSUME faults < MaxFaults, faults' = faults + 1 PROVE faults' \in 0 .. MaxFaults
  BY <1>0, <1>b, FaultsAssumption
<1>1. ASSUME NEW p \in Processes, StartProcess(p), UNCHANGED secrets
      PROVE  SchemaInv'
  <2>1. /\ pc[p] = "idle" /\ available' = [available EXCEPT ![p] = TRUE] /\ Continue(p, "connect")
        /\ UNCHANGED <<database, lock, missing, home, faults>> /\ moving' = moving
    BY <1>1 DEF StartProcess, secrets
  <2>2. p \in Tasks /\ p \notin Requests /\ "connect" \in Labels
    BY <1>l, TaskKinds
  <2>3. /\ pc' \in [Tasks -> Labels] /\ pc'[p] = "connect"
        /\ \A u \in Tasks : u # p => pc'[u] = pc[u]
    BY <1>0, <2>1, <2>2, ContinueMoves
  <2>4. /\ available' \in [Processes -> BOOLEAN] /\ available'[p]
        /\ \A q \in Processes : available[q] => available'[q]
    BY <1>0, <2>1
  <2>5. SchemaTypes'
    BY <1>0, <2>1, <2>3, <2>4 DEF SchemaTypes, Labels, database
  <2>6. \A t \in Tasks : pc'[t] \in LockedLabels => pc[t] = pc'[t] /\ missing'[t] = missing[t] /\ (lock = t => lock' = t)
    BY <2>1, <2>3 DEF LockedLabels
  <2>7. \A r \in Requests : pc'[r] # "idle" => home'[r] \in Processes
    BY <1>h, <2>1, <2>2, <2>3, TaskKinds
  <2>8. \A r \in Requests : home'[r] # Nobody => pc'[home'[r]] = "up" /\ moving'[home'[r]].stage = "moved"
    BY <1>0, <1>h, <2>1, <2>3, TaskKinds
  <2>9. Production => \A q \in Processes : pc'[q] \notin {"idle", "up", "serving"} => available'[q]
    BY <1>f, <2>3, <2>4, TaskKinds
  <2>10. Production => \A q \in Processes : pc'[q] = "up" => pc[q] = "up"
    BY <2>3, TaskKinds
  <2> QED
    BY <2>1, <2>5, <2>6, <2>7, <2>8, <2>9, <2>10, OtherFrame DEF database
<1>2. ASSUME NEW r \in Requests, NEW p \in Processes, Ready(p), Arrive(r, p), UNCHANGED secrets
      PROVE  SchemaInv'
  <2> DEFINE l == IF available[p] THEN "serving" ELSE "connect"
  <2>1. /\ pc[r] = "idle" /\ pc[p] = "up" /\ moving[p].stage = "moved"
        /\ home' = [home EXCEPT ![r] = p] /\ Continue(r, l)
        /\ UNCHANGED <<database, lock, available, missing, faults>> /\ moving' = moving
    BY <1>2 DEF Arrive, Ready, IsUp, secrets
  <2>2. r \in Tasks /\ r \notin Processes /\ l \in Labels /\ l \notin LockedLabels
    BY <1>l, TaskKinds DEF LockedLabels
  <2> HIDE DEF l
  <2>3. /\ pc' \in [Tasks -> Labels] /\ pc'[r] = l
        /\ \A u \in Tasks : u # r => pc'[u] = pc[u]
    BY <1>0, <2>1, <2>2, ContinueMoves
  <2>4. /\ home' \in [Requests -> Processes \cup {Nobody}] /\ home'[r] = p
        /\ \A q \in Requests : q # r => home'[q] = home[q]
    BY <1>0, <2>1
  <2>5. SchemaTypes'
    BY <1>0, <2>1, <2>3, <2>4 DEF SchemaTypes, Labels, database
  <2>6. \A t \in Tasks : pc'[t] \in LockedLabels => pc[t] = pc'[t] /\ missing'[t] = missing[t] /\ (lock = t => lock' = t)
    BY <2>1, <2>2, <2>3
  <2>7. \A q \in Requests : pc'[q] # "idle" => home'[q] \in Processes
    BY <1>h, <2>3, <2>4, TaskKinds
  <2>8. \A q \in Requests : home'[q] # Nobody => pc'[home'[q]] = "up" /\ moving'[home'[q]].stage = "moved"
    BY <1>0, <1>h, <2>1, <2>2, <2>3, <2>4, TaskKinds
  <2>9. Production => \A q \in Processes : pc'[q] \notin {"idle", "up", "serving"} => available'[q]
    BY <1>f, <2>1, <2>2, <2>3, TaskKinds
  <2>10. Production => \A q \in Processes : pc'[q] = "up" => pc[q] = "up"
    BY <2>2, <2>3, TaskKinds
  <2> QED
    BY <2>1, <2>5, <2>6, <2>7, <2>8, <2>9, <2>10, OtherFrame DEF database
\* Requests, or a process with its requests, end.
<1>3. ASSUME NEW gone \in SUBSET Tasks, End(gone), UNCHANGED database,
             \A r \in Requests : home[r] \in gone => r \in gone,
             \A p \in Processes : p \notin gone => moving'[p] = moving[p],
             \A t \in Tasks : t \notin gone => missing'[t] = missing[t] /\ (lock = t => lock' = t),
             lock' \in Tasks \cup {Nobody}, missing' \in [Tasks -> SUBSET (Versions \cup {0})],
             available' \in [Processes -> BOOLEAN], faults' \in 0 .. MaxFaults,
             Production => \A p \in Processes : pc[p] \notin {"idle", "up", "serving"} => available'[p]
      PROVE  SchemaInv'
  <2>1. /\ pc' \in [Tasks -> Labels] /\ home' \in [Requests -> Processes \cup {Nobody}]
        /\ \A t \in Tasks : pc'[t] = IF t \in gone THEN "idle" ELSE pc[t]
        /\ \A r \in Requests : home'[r] = IF r \in gone THEN Nobody ELSE home[r]
    BY <1>0, <1>3, EndMoves
  <2>2. SchemaTypes'
    BY <1>0, <1>3, <2>1 DEF SchemaTypes, Labels, database
  <2>3. \A t \in Tasks : pc'[t] \in LockedLabels => pc[t] = pc'[t] /\ missing'[t] = missing[t] /\ (lock = t => lock' = t)
    BY <1>3, <2>1 DEF LockedLabels
  <2>4. \A r \in Requests : pc'[r] # "idle" => home'[r] \in Processes
    BY <1>h, <2>1, TaskKinds
  <2>5. \A r \in Requests : home'[r] # Nobody => pc'[home'[r]] = "up" /\ moving'[home'[r]].stage = "moved"
    <3> SUFFICES ASSUME NEW r \in Requests, home'[r] # Nobody
                 PROVE  pc'[home'[r]] = "up" /\ moving'[home'[r]].stage = "moved"
      OBVIOUS
    <3>1. r \notin gone /\ home'[r] = home[r]
      BY <2>1
    <3>2. home[r] \notin gone /\ home[r] \in Processes /\ home[r] \in Tasks
      BY <1>0, <1>3, <3>1, TaskKinds
    <3> QED
      BY <1>3, <1>h, <2>1, <3>1, <3>2
  <2>6. Production => \A p \in Processes : pc'[p] \notin {"idle", "up", "serving"} => available'[p]
    BY <1>3, <2>1, TaskKinds
  <2>7. Production => \A p \in Processes : pc'[p] = "up" => pc[p] = "up"
    BY <2>1, TaskKinds
  <2> QED
    BY <1>3, <2>2, <2>3, <2>4, <2>5, <2>6, <2>7, OtherFrame DEF database
<1>4. ASSUME NEW r \in Requests, Serve(r), UNCHANGED secrets
      PROVE  SchemaInv'
  <2>1. End({r}) /\ UNCHANGED <<database, lock, available, missing, faults>> /\ moving' = moving
    BY <1>4 DEF Serve, secrets
  <2>2. {r} \in SUBSET Tasks /\ \A q \in Requests : home[q] \notin {r}
    BY <1>0, TaskKinds
  <2> QED
    BY <1>0, <1>3, <1>f, <2>1, <2>2
<1>5. ASSUME NEW r \in Requests, ServeWithError(r), Forget({r})
      PROVE  SchemaInv'
  <2>1. /\ End({r}) /\ UNCHANGED <<database, lock, missing>> /\ moving' = moving
        /\ pc[r] = "serving" /\ available' = [available EXCEPT ![home[r]] = FALSE]
    BY <1>5, TaskKinds DEF ServeWithError, Forget, ProcessOf
  <2>2. {r} \in SUBSET Tasks /\ \A q \in Requests : home[q] \notin {r}
    BY <1>0, TaskKinds
  <2>3. faults' \in 0 .. MaxFaults
    BY <1>5, <1>b DEF ServeWithError
  <2>4. home[r] \in Processes /\ pc[home[r]] = "up"
    BY <1>h, <2>1, TaskKinds
  <2>5. /\ available' \in [Processes -> BOOLEAN]
        /\ \A p \in Processes : p # home[r] => available'[p] = available[p]
    BY <1>0, <2>1, <2>4
  <2>6. Production => \A p \in Processes : pc[p] \notin {"idle", "up", "serving"} => available'[p]
    BY <1>f, <2>4, <2>5
  <2> QED
    BY <1>0, <1>3, <2>1, <2>2, <2>3, <2>5, <2>6
<1>6. ASSUME NEW p \in Processes, Crash(p), Secrets!StopMoving(p)
      PROVE  SchemaInv'
  <2> DEFINE gone == {p} \cup {r \in Requests : home[r] = p}
  <2>1. /\ End(gone) /\ UNCHANGED <<database, available>>
        /\ missing' = [t \in Tasks |-> IF t \in gone THEN {} ELSE missing[t]]
        /\ lock' = IF lock \in gone THEN Nobody ELSE lock
        /\ faults < MaxFaults /\ faults' = faults + 1
        /\ moving' = [moving EXCEPT ![p] = Secrets!Still]
    BY <1>6 DEF Crash, Secrets!StopMoving
  <2>2. /\ gone \in SUBSET Tasks
        /\ \A r \in Requests : home[r] \in gone => r \in gone
        /\ p \in gone
    BY <1>0, TaskKinds
  <2> HIDE DEF gone
  <2>3. faults' \in 0 .. MaxFaults
    BY <1>b, <2>1
  <2>4. /\ missing' \in [Tasks -> SUBSET (Versions \cup {0})] /\ lock' \in Tasks \cup {Nobody}
        /\ \A t \in Tasks : t \notin gone => missing'[t] = missing[t] /\ (lock = t => lock' = t)
    BY <1>0, <2>1
  <2>5. \A q \in Processes : q \notin gone => moving'[q] = moving[q]
    BY <2>1, <2>2
  <2>6. available' \in [Processes -> BOOLEAN]
        /\ (Production => \A q \in Processes : pc[q] \notin {"idle", "up", "serving"} => available'[q])
    BY <1>0, <1>f, <2>1
  <2> QED
    BY <1>3, <2>1, <2>2, <2>3, <2>4, <2>5, <2>6
<1>7. ASSUME NEW t \in Tasks, InitDb(t), UNCHANGED secrets
      PROVE  SchemaInv'
  BY <1>7, InitDbStep DEF secrets
<1>8. ASSUME NEW t \in Tasks, LoseConnection(t), UNCHANGED secrets
      PROVE  SchemaInv'
  <2>1. Initialising(t) /\ Failure(t) /\ UNCHANGED database /\ faults' \in 0 .. MaxFaults /\ UNCHANGED moving
    BY <1>8, <1>b DEF LoseConnection, secrets
  <2> QED
    BY <1>0, <2>1, FailureStep DEF database
\* Everything but the accounts and the secrets stays.
<1>9. ASSUME UNCHANGED <<columns, recorded, applied, lock, available, missing, home, faults, exists, tables>>,
             twins' \in BOOLEAN, pc' \in [Tasks -> Labels],
             \A t \in Tasks : pc'[t] = pc[t] \/ (t \in Processes /\ pc'[t] = "idle" /\ \A r \in Requests : home[r] # t),
             \A p \in Processes : moving[p].stage = "moved" => moving'[p].stage = "moved"
      PROVE  SchemaInv'
  <2>1. SchemaTypes'
    BY <1>0, <1>9 DEF SchemaTypes, Labels
  <2>2. \A t \in Tasks : pc'[t] \in LockedLabels => pc[t] = pc'[t] /\ missing'[t] = missing[t] /\ (lock = t => lock' = t)
    BY <1>9 DEF LockedLabels
  <2>3. \A r \in Requests : pc'[r] # "idle" => home'[r] \in Processes
    BY <1>9, <1>h, TaskKinds
  <2>4. \A r \in Requests : home'[r] # Nobody => pc'[home'[r]] = "up" /\ moving'[home'[r]].stage = "moved"
    BY <1>0, <1>9, <1>h, TaskKinds
  <2>5. Production => \A p \in Processes : pc'[p] \notin {"idle", "up", "serving"} => available'[p]
    BY <1>9, <1>f, TaskKinds
  <2>6. Production => \A p \in Processes : pc'[p] = "up" => pc[p] = "up"
    BY <1>9, TaskKinds
  <2> QED
    BY <1>9, <2>1, <2>2, <2>3, <2>4, <2>5, <2>6, OtherFrame
<1>10. CASE MergeAccounts /\ UNCHANGED secrets
  <2>1. /\ twins' = FALSE /\ moving' = moving
        /\ UNCHANGED <<columns, recorded, applied, lock, available, missing, home, faults, exists, tables, pc>>
    BY <1>10 DEF MergeAccounts, secrets
  <2> QED
    BY <1>0, <1>9, <2>1
<1>11. ASSUME NEW p \in Processes, MoveSecrets(p)
      PROVE  SchemaInv'
  <2> DEFINE l == IF moving[p].stage = "loaded" /\ moving'[p].stage = "none" THEN "idle" ELSE "up"
  <2>1. /\ pc[p] = "up" /\ pc' = [pc EXCEPT ![p] = l] /\ Secrets!Move(p)
        /\ UNCHANGED <<database, lock, available, missing, home, faults>>
    BY <1>11 DEF MoveSecrets, IsUp
  <2>2. moving[p].stage # "moved" /\ \A q \in Processes : q # p => moving'[q] = moving[q]
    BY <2>1 DEF Secrets!Move, Secrets!LoadLegacy, Secrets!MoveOne, Secrets!CommitMoved
  <2>3. l \in {"idle", "up"} /\ {"idle", "up"} \subseteq Labels
    BY <1>l
  <2> HIDE DEF l
  <2>4. p \in Tasks /\ pc' \in [Tasks -> Labels] /\ pc'[p] = l /\ \A t \in Tasks : t # p => pc'[t] = pc[t]
    BY <1>0, <2>1, <2>3, TaskKinds
  <2>5. \A r \in Requests : home[r] # p
    BY <1>h, <2>2, TaskKinds
  <2>6. \A t \in Tasks : pc'[t] = pc[t] \/ (t \in Processes /\ pc'[t] = "idle" /\ \A r \in Requests : home[r] # t)
    BY <2>1, <2>3, <2>4, <2>5
  <2> QED
    BY <1>0, <1>9, <2>1, <2>2, <2>4, <2>6 DEF database
<1>12. ASSUME NEW r \in Requests, HandleRequest(r)
      PROVE  SchemaInv'
  <2>1. UNCHANGED schemaVars /\ moving' = moving
    BY <1>12 DEF HandleRequest, Secrets!Handle, Secrets!OpenCreate, Secrets!OpenDelete, Secrets!InsertRow,
                 Secrets!StoreSecret, Secrets!WipeSecret, Secrets!DeleteRow
  <2> QED
    BY <1>0, <1>9, <2>1 DEF schemaVars, database
<1>13. CASE UpgradeStep
  BY <1>1, <1>2, <1>4, <1>7, <1>8, <1>10, <1>13 DEF UpgradeStep
<1>14. CASE Break
  BY <1>5, <1>6, <1>14 DEF Break
<1> QED
  BY <1>11, <1>12, <1>13, <1>14 DEF StartUpNext

\* A step of somebody else changes nothing of the schema.
LEMMA SchemaStutter ==
    ASSUME SchemaInv, UNCHANGED all
    PROVE  SchemaInv'
<1>1. UNCHANGED <<exists, tables, columns, recorded, applied, twins, lock, available, pc, missing, home, faults, moving>>
  BY DEF all, schemaVars, database, secrets
<1>2. SchemaTypes'
  BY <1>1 DEF SchemaInv, SchemaTypes
<1>3. AppliedIsRecorded' /\ RecordedIsThere' /\ LockIsHeld' /\ MissingIsMissing' /\ VersionsAreDone'
  BY <1>1 DEF SchemaInv, AppliedIsRecorded, RecordedIsThere, LockIsHeld, MissingIsMissing, VersionsAreDone
<1>4. HomesAreReady' /\ HomesOfReady' /\ FlagWhileStarting' /\ UpIsFull'
  BY <1>1 DEF SchemaInv, HomesAreReady, HomesOfReady, FlagWhileStarting, UpIsFull, FullSchema, Ready, IsUp, Initialising
<1> QED
  BY <1>2, <1>3, <1>4 DEF SchemaInv

\* In every reachable state, what is recorded of the schema is there, the holder of the advisory lock
\* knows what is missing, and whoever has requests has come up.
THEOREM SchemaInvariance == StartUpSpec => []SchemaInv
<1>1. SchemaInv /\ SecretsInv /\ [StartUpNext]_all => SchemaInv'
  <2> SUFFICES ASSUME SchemaInv, SecretsInv, [StartUpNext]_all PROVE SchemaInv'
    OBVIOUS
  <2>1. moving \in [Processes -> MoveTypes]
    BY SecretTypes DEF SecretsInv
  <2> QED
    BY <2>1, SchemaStep, SchemaStutter
<1> QED
  BY <1>1, SchemaInitInv, SecretsInvariance, PTL DEF StartUpSpec

\* Whatever the number of processes and requests: a version's statements are committed once, and
\* production serves no request from a schema that a migration has yet to reach, although the flag
\* that says so is set before the migrations run, and a request that finds it cleared by another
\* one's error runs them itself or skips them.
THEOREM StartUpKeepsSchema == StartUpSpec => []SchemaIsSound
<1>1. SchemaInv => SchemaIsSound
  <2> SUFFICES ASSUME SchemaInv PROVE SchemaIsSound
    OBVIOUS
  <2>1. AppliedOnce
    BY DEF SchemaInv, AppliedIsRecorded, AppliedOnce
  <2>2. ServedOnFullSchema
    <3> SUFFICES ASSUME Production, NEW r \in Requests, pc[r] = "serving"
                 PROVE  recorded = Versions /\ columns = AllColumns
      BY DEF ServedOnFullSchema
    <3>1. home[r] \in Processes
      BY DEF SchemaInv, HomesAreReady
    <3>2. pc[home[r]] = "up"
      BY <3>1, TaskKinds DEF SchemaInv, HomesOfReady, Ready, IsUp
    <3> QED
      BY <3>1, <3>2 DEF SchemaInv, UpIsFull, FullSchema
  <2> QED
    BY <2>1, <2>2 DEF SchemaInv, SchemaIsSound
<1> QED
  BY <1>1, SchemaInvariance, PTL
=============================================================================
