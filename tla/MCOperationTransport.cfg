\* A deploy and a validate, over SSE and polling, with broken streams and late answers.
SPECIFICATION FairSpec
CONSTANTS
    Ops = {deploy, validate}
    Mutating = {deploy}
    MaxOutput <- MCMaxOutput
    MaxPollErrors = 2
    NoOp = NoOp
INVARIANTS
    TypeOK
    RenderedIsPrefix
    BadgeIsTruthful
    LogTellsOutcome
PROPERTIES
    OutcomeSpec
    EndIsShown
\* Both operations end: the system may stop.
CHECK_DEADLOCK FALSE
