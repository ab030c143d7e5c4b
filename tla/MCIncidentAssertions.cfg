\* One incident, fixed by the operator and by the agent, while the server restarts.
SPECIFICATION FairSpec
CONSTANTS
    Scenarios = {network}
    Direct = {fix}
    Tools = {scale}
    Actions <- MCActions
    Turns = {turn1}
    Nothing = Nothing
    MaxIncidents = 1
    Stacking = TRUE
    Faults = {"crash", "torn", "unreachable", "unreadable"}
INVARIANTS
    TypeOK
    AssertionsDriven
PROPERTIES
    AssertionEventuallyRuns
