\* The agent asks again after its question expired, before the poll comes by.
SPECIFICATION Spec
CONSTANTS
    Scenarios = {network}
    Direct = {}
    Tools = {scale}
    Actions <- MCActions
    Turns = {turn1}
    Nothing = Nothing
    MaxIncidents = 1
    Stacking = TRUE
    Faults = {}
INVARIANTS
    UndecidedIsPending
