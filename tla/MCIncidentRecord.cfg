\* Two incidents in turn, one tool of the agent, approvals across turns and incidents.
SPECIFICATION Spec
CONSTANTS
    Scenarios = {network}
    Direct = {}
    Tools = {scale}
    Actions <- MCActions
    Turns = {turn1, turn2}
    Nothing = Nothing
    MaxIncidents = 2
    Stacking = TRUE
    Faults = {"crash", "torn", "unreachable"}
INVARIANTS
    RecoveredIsTruthful
    RunsOnlyApproved
PROPERTIES
    OutcomeSpec
