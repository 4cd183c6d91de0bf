--------------------------- MODULE WorkflowCommands ---------------------------
(***************************************************************************)
(* A command of a workflow on its way from the API to the history: what    *)
(* the dispatchers make of the rows of the outbox, and what becomes of the *)
(* analysis that a command asks for.  The analysis relies on the outbox    *)
(* for one thing only, that a committed command is sent in the end; what   *)
(* the outbox sends twice the broker drops or delivers as it delivers any  *)
(* job again.  They share no row beyond it: a behaviour is about one.      *)
(***************************************************************************)
EXTENDS WorkflowOutbox, RepositoryAnalysis

VARIABLE concern

commandVars == <<vars, analysisVars, concern>>

CommandsInit ==
    /\ concern \in {"outbox", "analysis"}
    /\ Init /\ AnalysisInit
    /\ concern = "analysis" => poison = {}
    /\ concern = "outbox" => \A c, d \in Callers : caller[c].scan = caller[d].scan

CommandsNext ==
    /\ UNCHANGED concern
    /\ \/ concern = "outbox" /\ Next /\ UNCHANGED analysisVars
       \/ concern = "analysis" /\ AnalysisNext /\ UNCHANGED vars

\* Fairness of the part that the behaviour is about.
CommandsFairness ==
    /\ WF_commandVars(concern = "outbox" /\ Turn /\ UNCHANGED <<analysisVars, concern>>)
    /\ \A c \in Commands : SF_commandVars(concern = "outbox" /\ Accepted(c) /\ UNCHANGED <<analysisVars, concern>>)
    /\ WF_commandVars(concern = "analysis" /\ Progress /\ UNCHANGED <<vars, concern>>)

CommandsSpec == CommandsInit /\ [][CommandsNext]_commandVars /\ CommandsFairness
=============================================================================
