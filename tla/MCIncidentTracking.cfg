\* Two scenarios are broken one after the other; nothing fails.
SPECIFICATION Spec
CONSTANTS
    Scenarios = {network, oom}
    Direct = {fix}
    Tools = {}
    Actions <- MCActions
    Turns = {}
    Nothing = Nothing
    MaxIncidents = 2
    Stacking = FALSE
    Faults = {}
INVARIANTS
    EveryBreakIsTracked
