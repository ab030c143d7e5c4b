\* The page drives the shipped track, one request at a time; nothing fails.
SPECIFICATION Spec
CONSTANTS
    Track <- MCTrack
    Actions = {scale, fix}
    Direct = {fix}
    Runs = {r1, r2}
    Requests = {q1}
    Clients = {"page"}
    MaxIncidents = 1
    MaxProposals = 2
    Nothing = Nothing
INVARIANTS
    RecoveryIsSeen
