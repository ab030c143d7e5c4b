SPECIFICATION MCSpec
CONSTANTS
    Reads = {get}
    Mutations = {post}
    Secrets = {a, b}
    NoSecret = none
    MaxRestarts = 2
    MaxFaults = 4
    MaxChanges = 3
    Versions = {v1, v2, v3}
    MAX_EVIDENCE_AGE = 0
    MAX_TELEMETRY_PROOF_AGE = 1
    RunNowMaxWait = 2
    MaxSkew = 1
    MaxTime = 3
    MaxThreads = 1
    MaxReports = 1
    MaxFlips = 1
    MaxUnread = 1
    Windows <- MCWindows
INVARIANTS
    TypeOK
    AtMostOnce
    RestartIsMasked
    PlanIsRouted
    NothingRoutesNowhere
    KnowledgeIsCurrent
    GateFollowsThread
    ReadyIsObserved
    BlockedIsExplained
    BreachInTime
    ErrorsAreSpread
PROPERTIES
    EveryRequestSettles
    PlanConverges
    KnowledgeIsKept
    ConfiguredIsReadBack
CHECK_DEADLOCK FALSE
