------------------------ MODULE MCScenarioLifecycle ------------------------
(***************************************************************************)
(* Small instances of ScenarioLifecycle.  "network" adds a NetworkPolicy   *)
(* of its own and leaves the baseline workloads ready; "oom" overwrites    *)
(* the tank-monitor Deployment and degrades it.                            *)
(***************************************************************************)
EXTENDS ScenarioLifecycle

start(s, stacking, whatIf) ==
    [op |-> "start", scenario |-> s, stacking |-> stacking, whatIf |-> whatIf,
     scope |-> {}]

reset(scope, whatIf) ==
    [op |-> "reset", scenario |-> NoScenario, stacking |-> TRUE,
     whatIf |-> whatIf, scope |-> scope]

MCScenarios == {"network", "oom"}
MCOverlay == {"oom"}

\* A plain start, a full reset and one that only pretends, about the scenario
\* that can degrade the baseline.
MixedCommands ==
    {start("oom", FALSE, FALSE), reset(MCOverlay, FALSE), reset(MCOverlay, TRUE)}

\* A plain start, and a stacking one that only pretends.
StartCommands == {start("oom", FALSE, FALSE), start("oom", TRUE, TRUE)}

\* Two plain starts of different scenarios.
PlainStarts == {start(s, FALSE, FALSE) : s \in MCScenarios}
============================================================================
