\* Plain and stacking starts, any call fails, and there is no lock yet.
SPECIFICATION FairSpec
CONSTANTS
    Runs = {r1, r2}
    Scenarios <- MCOverlay
    Overlay <- MCOverlay
    Degrading <- MCOverlay
    Commands <- StartCommands
    Faults = {"crash", "readError", "writeError"}
    LockExists = FALSE
    NoRun = NoRun
    NoScenario = NoScenario
INVARIANTS
    TypeOK
    AppliedIsRecorded
PROPERTIES
    FreeLockIsTaken
\* Every run ends: the system may stop.
CHECK_DEADLOCK FALSE
