------------------------ MODULE DemoComponentsProofs ------------------------
(***************************************************************************)
(* The run of MCDemoComponents shows of each component what its own        *)
(* specification says: every behaviour of the run is, seen through the      *)
(* variables of a component, one of that component.  What ApiClientProofs,  *)
(* BootstrapProofs and EvaluationProofs prove of them then holds together.  *)
(* Only the plan that waits was carried out already, which PlanInit does    *)
(* not say; its invariant covers that.                                      *)
(***************************************************************************)
EXTENDS MCDemoComponents, ApiClientProofs, BootstrapProofs, EvaluationProofs

LEMMA PlanThatWaits == PlanWaits => PlanInv
<1> SUFFICES ASSUME PlanWaits PROVE PlanInv
  OBVIOUS
<1>1. /\ plan = [p \in Parts |-> "wanted"] /\ quickstart = FALSE
      /\ wish = "bootstrap" /\ step = "done"
      /\ faults = 0 /\ changes = 0 /\ misread = FALSE /\ ignored = FALSE
  BY DEF PlanWaits
<1>2. PlanTypeOK
  <2>1. plan \in [Parts -> PartStates]
    BY <1>1 DEF PartStates
  <2>2. faults \in 0..MaxFaults /\ changes \in 0..MaxChanges
    BY <1>1, PlanAssumption
  <2>3. /\ quickstart \in BOOLEAN /\ wish \in {"bootstrap", "teardown"}
        /\ misread \in BOOLEAN /\ ignored \in BOOLEAN
    BY <1>1, Zenon
  <2> QED
    BY <1>1, <2>1, <2>2, <2>3 DEF PlanTypeOK, Ended
<1>3. PlanProgress
  BY <1>1 DEF PlanProgress, Bootstrapping, TearingDown, AfterAgent, AfterFilter, AfterHandler
<1>4. \A p \in Parts : plan[p] = "wanted"
  BY <1>1
<1>5. PlanIsRouted /\ NothingRoutesNowhere
  BY <1>1, <1>4 DEF PlanIsRouted, NothingRoutesNowhere, Parts
<1> QED
  BY <1>2, <1>3, <1>5 DEF PlanInv

LEMMA RunStarts ==
    MCInit => ClientInit /\ PlanInv /\ KnowledgeInit /\ TaskInit /\ ReadinessInit /\ LatencyInit
BY PlanStarts, PlanThatWaits
   DEF MCInit, ClientWaits, KnowledgeWaits, TaskWaits, ReadinessWaits, LatencyWaits

LEMMA RunSteps ==
    [MCNext]_vars =>
        /\ [ClientNext]_clientVars /\ [PlanNext]_planVars /\ [KnowledgeNext]_knowledgeVars
        /\ [TaskNext]_taskVars /\ [ReadinessNext]_readinessVars /\ [LatencyNext]_latencyVars
<1>1. CASE UNCHANGED vars
  BY <1>1 DEF vars
<1>2. CASE MCNext
  BY <1>2 DEF MCNext, ClientStep, PlanStep, KnowledgeStep, TaskStep, ReadinessStep, LatencyStep
<1> QED
  BY <1>1, <1>2

\* A behaviour of the run is one of every component, and of the plan one from a
\* state that its invariant admits.
THEOREM RunsItsComponents ==
    MCSpec => /\ ClientSpec /\ KnowledgeSpec /\ TaskSpec /\ ReadinessSpec /\ LatencySpec
              /\ PlanInv /\ [][PlanNext]_planVars
BY RunStarts, RunSteps, PTL
   DEF MCSpec, ClientSpec, KnowledgeSpec, TaskSpec, ReadinessSpec, LatencySpec

\* Every component of the run keeps its types, whatever the others do.
THEOREM TypeCorrect == MCSpec => []TypeOK
<1>1. PlanInv /\ [][PlanNext]_planVars => []PlanInv
  BY PlanSteps, PTL
<1>2. PlanInv => PlanTypeOK
  BY DEF PlanInv
<1> QED
  BY <1>1, <1>2, RunsItsComponents, ClientTypeCorrect, KnowledgeTypeCorrect, TaskTypeCorrect,
     ReadinessTypeCorrect, LatencyTypeCorrect, PTL DEF TypeOK

\* The phases that the run looks at are long enough for both theorems about the
\* latency scenario, so that they say of it what the run shows.
THEOREM PhasesSuffice == Windows = MCWindows => PhasesBreach /\ PhasesSpread
BY DEF MCWindows, PhasesBreach, PhasesSpread
=============================================================================
