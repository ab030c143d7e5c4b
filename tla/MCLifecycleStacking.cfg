\* Two plain starts, nothing fails but the scenarios themselves.
SPECIFICATION Spec
CONSTANTS
    Runs = {r1, r2}
    Scenarios <- MCScenarios
    Overlay <- MCOverlay
    Degrading <- MCOverlay
    Commands <- PlainStarts
    Faults = {}
    LockExists = TRUE
    NoRun = NoRun
    NoScenario = NoScenario
PROPERTIES
    NoUnrequestedStacking
\* Every run ends: the system may stop.
CHECK_DEADLOCK FALSE
