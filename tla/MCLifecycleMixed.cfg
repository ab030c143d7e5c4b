\* Starts, stacking starts, what-if runs and resets; any call fails, holders are slow.
SPECIFICATION Spec
CONSTANTS
    Runs = {r1, r2}
    Scenarios <- MCOverlay
    Overlay <- MCOverlay
    Degrading <- MCOverlay
    Commands <- MixedCommands
    Faults = {"crash", "readError", "writeError", "slowHolder"}
    LockExists = TRUE
    NoRun = NoRun
    NoScenario = NoScenario
INVARIANTS
    HoldsLockWhileCritical
    ReturnedMeansReleased
PROPERTIES
    LeaseSpec
\* Every run ends: the system may stop.
CHECK_DEADLOCK FALSE
