-------------------------- MODULE MCDemoComponents --------------------------
(***************************************************************************)
(* One run for six components that share no state with each other: the     *)
(* API client and its middleware, the response plan, the agent's knowledge, *)
(* the scheduled task and its evidence, the readiness gate and the latency  *)
(* arithmetic.  Each behaviour is one of one component; the others wait in  *)
(* a fixed state.                                                           *)
(***************************************************************************)
EXTENDS ApiClient, ResponsePlan, Knowledge, ScheduledTask, Readiness, OrderLatency

VARIABLE part       \* the component that this behaviour is about

vars == <<part, clientVars, planVars, knowledgeVars, taskVars, readinessVars, latencyVars>>

ClientWaits ==
    /\ ClientInit
    /\ ~remote /\ AUTH_TOKEN = NoSecret /\ remoteToken = NoSecret

\* A bootstrap that was carried out, so that nothing is left to do.
PlanWaits ==
    /\ plan = [p \in Parts |-> "wanted"] /\ quickstart = FALSE
    /\ wish = "bootstrap" /\ step = "done"
    /\ faults = 0 /\ changes = 0 /\ misread = FALSE /\ ignored = FALSE

\* Some version of the file, which nobody has uploaded.
KnowledgeWaits == KnowledgeInit /\ file = CHOOSE v \in Versions : TRUE

TaskWaits == TaskInit /\ skew = 0 /\ task = "absent"

ReadinessWaits ==
    /\ ReadinessInit
    /\ world = Facts
    /\ query = [via |-> "page", profile |-> FALSE, flag |-> "unset", wellFormed |-> TRUE, mock |-> "none"]

LatencyWaits == LatencyInit /\ window = <<0, 60>>

MCInit ==
    \/ part = "client" /\ ClientInit /\ PlanWaits /\ KnowledgeWaits /\ TaskWaits /\ ReadinessWaits /\ LatencyWaits
    \/ part = "plan" /\ ClientWaits /\ PlanInit /\ KnowledgeWaits /\ TaskWaits /\ ReadinessWaits /\ LatencyWaits
    \/ part = "knowledge" /\ ClientWaits /\ PlanWaits /\ KnowledgeInit /\ TaskWaits /\ ReadinessWaits /\ LatencyWaits
    \/ part = "task" /\ ClientWaits /\ PlanWaits /\ KnowledgeWaits /\ TaskInit /\ ReadinessWaits /\ LatencyWaits
    \/ part = "readiness" /\ ClientWaits /\ PlanWaits /\ KnowledgeWaits /\ TaskWaits /\ ReadinessInit /\ LatencyWaits
    \/ part = "latency" /\ ClientWaits /\ PlanWaits /\ KnowledgeWaits /\ TaskWaits /\ ReadinessWaits /\ LatencyInit

ClientStep ==
    /\ part = "client" /\ ClientNext
    /\ UNCHANGED <<part, planVars, knowledgeVars, taskVars, readinessVars, latencyVars>>

PlanStep ==
    /\ part = "plan" /\ PlanNext
    /\ UNCHANGED <<part, clientVars, knowledgeVars, taskVars, readinessVars, latencyVars>>

KnowledgeStep ==
    /\ part = "knowledge" /\ KnowledgeNext
    /\ UNCHANGED <<part, clientVars, planVars, taskVars, readinessVars, latencyVars>>

TaskStep ==
    /\ part = "task" /\ TaskNext
    /\ UNCHANGED <<part, clientVars, planVars, knowledgeVars, readinessVars, latencyVars>>

ReadinessStep ==
    /\ part = "readiness" /\ ReadinessNext
    /\ UNCHANGED <<part, clientVars, planVars, knowledgeVars, taskVars, latencyVars>>

LatencyStep ==
    /\ part = "latency" /\ LatencyNext
    /\ UNCHANGED <<part, clientVars, planVars, knowledgeVars, taskVars, readinessVars>>

MCNext == ClientStep \/ PlanStep \/ KnowledgeStep \/ TaskStep \/ ReadinessStep \/ LatencyStep

\* The fairness of the components that have some: those that wait owe nothing,
\* as none of their fair actions is enabled.
MCSpec == MCInit /\ [][MCNext]_vars /\ ClientFairness /\ PlanFairness

\* Every component of the run is well-typed.
TypeOK ==
    /\ ClientTypeOK /\ PlanTypeOK /\ KnowledgeTypeOK /\ TaskTypeOK
    /\ ReadinessTypeOK /\ LatencyTypeOK

-----------------------------------------------------------------------------
\* The harness of runDeterministicCycles, and phases of a hundred requests that
\* begin, each in its turn, with each of the requests that fail.
MCWindows ==
    {<<0, 60>>} \cup
    {<<10000 + s - 100 * k, 100>> : s \in {s \in 0..9999 : isSyntheticError(s, 40)}, k \in 0..2}
=============================================================================
