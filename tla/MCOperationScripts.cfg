\* Two deploys (or a deploy and a destroy), the first of which is cancelled.
SPECIFICATION Spec
CONSTANTS
    Ops = {deploy, destroy}
    Mutating = {deploy, destroy}
    MaxOutput <- MCMaxOutput
    MaxPollErrors = 2
    NoOp = NoOp
INVARIANTS
    OneMutatingScript
\* Both operations end: the system may stop.
CHECK_DEADLOCK FALSE
