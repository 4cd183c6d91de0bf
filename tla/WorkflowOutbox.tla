---------------------------- MODULE WorkflowOutbox ----------------------------
(***************************************************************************)
(* The transactional outbox of the workflow commands                       *)
(* (backend/services/workflow_outbox.py).  enqueue adds a row in the       *)
(* caller's transaction; every API process dispatches: it locks a batch of *)
(* the oldest rows that are due, skipping what another process has locked, *)
(* sends one after another, and commits what became of them at the end.    *)
(* Then it sleeps for an interval.  What is committed too late or never is *)
(* sent again.                                                             *)
(*                                                                         *)
(* Service Bus is external: it accepts a message or refuses it; there may  *)
(* be messages that it refuses every time.                                 *)
(***************************************************************************)
EXTENDS Naturals, FiniteSets

CONSTANTS
    Apis,         \* API processes, each with a dispatcher
    MaxCommands,  \* bound: commands, numbered in the order of created_at
    BatchSize,    \* WORKFLOW_OUTBOX_BATCH_SIZE
    Interval,     \* WORKFLOW_OUTBOX_INTERVAL_SECONDS
    MaxExponent,  \* a refused message waits for at most 2^MaxExponent seconds
    MaxCrashes    \* bound: batches that are cut off before their commit

Commands == 1 .. MaxCommands
Longest == 2 ^ MaxExponent

ASSUME SizesAssumption == {BatchSize, Interval, MaxExponent} \subseteq Nat \ {0}
ASSUME BoundsAssumption == {MaxCommands, MaxCrashes} \subseteq Nat

VARIABLES
    outbox,     \* workflow_outbox_messages; wait: next_attempt_at - now, at least 0
    dispatcher, \* of each process: its locked rows that are to be sent, were sent, were refused
    accepted,   \* how often Service Bus accepted each command
    poison,     \* commands that Service Bus never accepts
    crashes

vars == <<outbox, dispatcher, accepted, poison, crashes>>

Asleep == [phase |-> "asleep", todo |-> {}, sent |-> {}, refused |-> {}]
Awake == [Asleep EXCEPT !.phase = "awake"]

Locked(a) == dispatcher[a].todo \cup dispatcher[a].sent \cup dispatcher[a].refused

\* Not more of them than the batches can carry beside the others.
Init ==
    /\ outbox = [c \in Commands |-> [status |-> "none", attempts |-> 0, wait |-> 0]]
    /\ dispatcher = [a \in Apis |-> Awake]
    /\ accepted = [c \in Commands |-> 0]
    /\ poison \in {p \in SUBSET Commands : Cardinality(p) * Interval < BatchSize * Longest}
    /\ crashes = 0

Enqueue(c) ==
    /\ outbox[c].status = "none"
    /\ \A d \in Commands : d < c => outbox[d].status # "none"
    /\ outbox' = [outbox EXCEPT ![c].status = "pending"]
    /\ UNCHANGED <<dispatcher, accepted, poison, crashes>>

\* Mutant of Due: a refused message is tried again with the next batch.
DueAtOnce(c) == outbox[c].status = "pending"

Due(c) == outbox[c].status = "pending" /\ outbox[c].wait = 0

\* Mutant of Claimable: the rows are not locked while they are sent.
ClaimableUnlocked(c) == Due(c)

Claimable(c) == Due(c) /\ \A a \in Apis : c \notin Locked(a)

\* The oldest of the rows that can be claimed; with none, there is nothing to commit.
Batch ==
    LET due == {c \in Commands : Claimable(c)}
    IN  {c \in due : Cardinality({d \in due : d < c}) < BatchSize}

Select(a) ==
    /\ dispatcher[a] = Awake
    /\ dispatcher' = [dispatcher EXCEPT ![a] = IF Batch = {} THEN Asleep ELSE [Awake EXCEPT !.todo = Batch]]
    /\ UNCHANGED <<outbox, accepted, poison, crashes>>

\* The rows of a batch are sent in their order.
Turns(a, c) == c \in dispatcher[a].todo /\ \A d \in dispatcher[a].todo : c <= d

Accept(a, c) ==
    /\ Turns(a, c)
    /\ c \notin poison
    /\ accepted' = [accepted EXCEPT ![c] = @ + 1]
    /\ dispatcher' = [dispatcher EXCEPT ![a].todo = @ \ {c}, ![a].sent = @ \cup {c}]
    /\ UNCHANGED <<outbox, poison, crashes>>

Refuse(a, c) ==
    /\ Turns(a, c)
    /\ dispatcher' = [dispatcher EXCEPT ![a].todo = @ \ {c}, ![a].refused = @ \cup {c}]
    /\ UNCHANGED <<outbox, accepted, poison, crashes>>

\* After n attempts; the 300 seconds that the code allows are never reached.
Delay(n) == 2 ^ (IF n < MaxExponent THEN n ELSE MaxExponent)

\* Attempts count up to the exponent's bound: more make no difference.
Attempt(row) == IF row.attempts < MaxExponent THEN row.attempts + 1 ELSE row.attempts

Commit(a) ==
    LET d == dispatcher[a] IN
    /\ d.todo = {} /\ Locked(a) # {}
    /\ outbox' = [c \in Commands |->
          IF c \in d.sent THEN [status |-> "sent", attempts |-> Attempt(outbox[c]), wait |-> 0]
          ELSE IF c \in d.refused
               THEN [status |-> "pending", attempts |-> Attempt(outbox[c]), wait |-> Delay(Attempt(outbox[c]))]
               ELSE outbox[c]]
    /\ dispatcher' = [dispatcher EXCEPT ![a] = Asleep]
    /\ UNCHANGED <<accepted, poison, crashes>>

\* The process stops or the commit fails: the rows are as they were, and unlocked.
CutOff(a) ==
    /\ crashes < MaxCrashes /\ Locked(a) # {}
    /\ dispatcher' = [dispatcher EXCEPT ![a] = Asleep]
    /\ crashes' = crashes + 1
    /\ UNCHANGED <<outbox, accepted, poison>>

\* An interval passes once every dispatcher has had its turn.
Sleep ==
    /\ \A a \in Apis : dispatcher[a] = Asleep
    /\ dispatcher' = [a \in Apis |-> Awake]
    /\ outbox' = [c \in Commands |->
                    [outbox[c] EXCEPT !.wait = IF @ <= Interval THEN 0 ELSE @ - Interval]]
    /\ UNCHANGED <<accepted, poison, crashes>>

Next ==
    \/ \E c \in Commands : Enqueue(c)
    \/ \E a \in Apis, c \in Commands : Accept(a, c) \/ Refuse(a, c)
    \/ \E a \in Apis : Select(a) \/ Commit(a) \/ CutOff(a)
    \/ Sleep

Turn == Sleep \/ \E a \in Apis : Select(a) \/ Commit(a) \/ \E c \in Commands : Refuse(a, c)
Accepted(c) == \E a \in Apis : Accept(a, c)

\* Dispatchers and their intervals go on, and what is not poison is accepted when
\* it is sent often.
Fairness == WF_vars(Turn) /\ \A c \in Commands : SF_vars(Accepted(c))

Spec == Init /\ [][Next]_vars /\ Fairness

-----------------------------------------------------------------------------
(* Properties *)

\* Every variable has values of its kind.
TypeOK ==
    /\ outbox \in [Commands -> [status : {"none", "pending", "sent"}, attempts : 0 .. MaxExponent, wait : 0 .. Longest]]
    /\ \A a \in Apis :
          /\ dispatcher[a].phase \in {"awake", "asleep"}
          /\ Locked(a) \subseteq Commands
    /\ accepted \in [Commands -> 0 .. MaxCrashes + 1]
    /\ poison \subseteq Commands
    /\ crashes \in 0 .. MaxCrashes

\* Without a batch that is cut off nothing is sent twice, however many processes
\* dispatch; each such batch repeats a command at most once; and what is recorded
\* as sent was accepted (dispatch_pending).
RepeatsAreCutOffs ==
    \A c \in Commands : accepted[c] <= crashes + 1 /\ (outbox[c].status = "sent" => accepted[c] > 0)

\* Again and again nothing is pending but what Service Bus refuses for ever:
\* commands that it refuses do not keep the others waiting.
EveryCommandIsSent == []<>(\A c \in Commands : outbox[c].status = "pending" => c \in poison)
=============================================================================
