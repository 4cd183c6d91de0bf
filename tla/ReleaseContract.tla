--------------------------- MODULE ReleaseContract ---------------------------
(***************************************************************************)
(* What the release queue promises the owner of a release, with no worker, *)
(* lease or database in sight.  A submitted release is a ticket that can   *)
(* be spent once; only a spent ticket reaches the cloud, and once; and the *)
(* verdict on the release is pronounced once.  The verdict "completed" is  *)
(* given only to a release that was started, and ends its dealings with    *)
(* the cloud; after any other verdict a worker that has not noticed may    *)
(* still roll the release out.                                             *)
(*                                                                         *)
(* External: no code of its own; DeploymentQueue is shown to implement it. *)
(***************************************************************************)
EXTENDS Naturals

CONSTANT Releases

VARIABLES
    ticket,    \* "none", "issued" or "spent", per release
    rollouts,  \* rollouts the cloud received, per release
    verdict    \* "open", or how the release was settled

contractVars == <<ticket, rollouts, verdict>>

Verdicts == {"completed", "failed", "cancelled"}

Init ==
    /\ ticket = [r \in Releases |-> "none"]
    /\ rollouts = [r \in Releases |-> 0]
    /\ verdict = [r \in Releases |-> "open"]

Submit(r) ==
    /\ ticket[r] = "none"
    /\ ticket'[r] = "issued"
    /\ rollouts'[r] = rollouts[r]
    /\ verdict'[r] = verdict[r]

\* A worker starts the release, or it is withdrawn before one could.
Spend(r) ==
    /\ ticket[r] = "issued"
    /\ ticket'[r] = "spent"
    /\ rollouts'[r] = rollouts[r]
    /\ verdict'[r] = verdict[r]

RollOut(r) ==
    /\ ticket[r] = "spent"
    /\ rollouts[r] = 0
    /\ verdict[r] # "completed"
    /\ ticket'[r] = ticket[r]
    /\ rollouts'[r] = 1
    /\ verdict'[r] = verdict[r]

\* A release that fails may lose its ticket in the same step.
Settle(r) ==
    /\ ticket[r] # "none"
    /\ verdict[r] = "open"
    /\ verdict'[r] \in Verdicts
    /\ verdict'[r] = "completed" => ticket[r] = "spent"
    /\ ticket'[r] \in {ticket[r], "spent"}
    /\ rollouts'[r] = rollouts[r]

Rest(r) ==
    /\ ticket'[r] = ticket[r]
    /\ rollouts'[r] = rollouts[r]
    /\ verdict'[r] = verdict[r]

\* A reconciliation settles many releases at once.
Next ==
    /\ \A r \in Releases : Submit(r) \/ Spend(r) \/ RollOut(r) \/ Settle(r) \/ Rest(r)
    /\ ticket' = [r \in Releases |-> ticket'[r]]
    /\ rollouts' = [r \in Releases |-> rollouts'[r]]
    /\ verdict' = [r \in Releases |-> verdict'[r]]

Spec == Init /\ [][Next]_contractVars
=============================================================================
