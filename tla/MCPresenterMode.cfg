\* The shipped track, by buttons and by the API, with two requests under way.
SPECIFICATION Spec
CONSTANTS
    Track <- MCTrack
    Actions = {scale, fix}
    Direct = {fix}
    Runs = {r1, r2, r3}
    Requests = {q1, q2}
    Clients = {"page", "api"}
    MaxIncidents = 2
    MaxProposals = 2
    Nothing = Nothing
SYMMETRY MCSymmetry
INVARIANTS
    TypeOK
    InSequence
    OneAction
    BoundToOneIncident
    CompletedIsEarned
    BoundRecoveryIsSeen
