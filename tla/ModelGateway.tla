---------------------------- MODULE ModelGateway ----------------------------
(***************************************************************************)
(* Structured generation through a language model                         *)
(* (backend/services/model_gateway.py): one route for each workload, a     *)
(* request within its budget, one answer that must satisfy the output's    *)
(* contract, and one repair of an answer that does not.  What fails is     *)
(* raised for the generation of Terraform; the analysis of a repository,   *)
(* and of failures, goes on with a deterministic result instead.           *)
(*                                                                         *)
(* The provider is external: it answers, with something that satisfies the *)
(* contract or does not, or fails, in each request anew.                   *)
(***************************************************************************)
EXTENDS Naturals

CONSTANT Askers

VARIABLE call \* of each caller: where its call stands and what came of it

Workloads == {"terraform_generation", "repository_analysis"}

Reasons == {"provider_not_configured", "input_budget_exceeded", "provider_unavailable", "invalid_model_output"}
CallOutcomes == {"model", "deterministic_only", "raised"}

\* contract: the last answer satisfied it; requests: those that the provider got
NoCall == [at |-> "none", workload |-> "none", requests |-> 0, contract |-> FALSE, reason |-> "none"]

GatewayInit == call = [c \in Askers |-> NoCall]

Call(c, workload) ==
    /\ call[c] = NoCall
    /\ call' = [call EXCEPT ![c] = [NoCall EXCEPT !.at = "route", !.workload = workload]]

\* _degrade_or_raise
Degraded(k, reason) ==
    [k EXCEPT !.at = IF k.workload = "terraform_generation" THEN "raised" ELSE "deterministic_only",
              !.reason = reason]

\* Settings that are invalid or missing and credentials that are unavailable
\* make no request, nor does a request over the budget.
SelectRoute(c) ==
    /\ call[c].at = "route"
    /\ call' \in {[call EXCEPT ![c].at = "initial"],
                  [call EXCEPT ![c] = Degraded(@, "provider_not_configured")],
                  [call EXCEPT ![c] = Degraded(@, "input_budget_exceeded")]}

Replied(k, contract) == [k EXCEPT !.requests = @ + 1, !.contract = contract]
Failed(k, reason) == Degraded([k EXCEPT !.requests = @ + 1], reason)

Generate(c) ==
    /\ call[c].at = "initial"
    /\ call' \in {[call EXCEPT ![c] = [Replied(@, TRUE) EXCEPT !.at = "model"]],
                  [call EXCEPT ![c] = [Replied(@, FALSE) EXCEPT !.at = "repair"]],
                  [call EXCEPT ![c] = Failed(@, "input_budget_exceeded")],
                  [call EXCEPT ![c] = Failed(@, "provider_unavailable")]}

\* Mutant of Repair: what the repair returns is taken as it is.
RepairOnTrust(c) ==
    /\ call[c].at = "repair"
    /\ \E contract \in BOOLEAN : call' = [call EXCEPT ![c] = [Replied(@, contract) EXCEPT !.at = "model"]]

\* The candidate may not fit into the budget with the schema; a failing
\* provider counts as an invalid answer here.
Repair(c) ==
    /\ call[c].at = "repair"
    /\ call' \in {[call EXCEPT ![c] = [Replied(@, TRUE) EXCEPT !.at = "model"]],
                  [call EXCEPT ![c] = Degraded(@, "invalid_model_output")],
                  [call EXCEPT ![c] = Failed(@, "invalid_model_output")],
                  [call EXCEPT ![c] = Failed(@, "input_budget_exceeded")]}

Proceed(c) == SelectRoute(c) \/ Generate(c) \/ Repair(c)

Return(c) == call[c].at \in CallOutcomes /\ call' = [call EXCEPT ![c] = NoCall]
=============================================================================
