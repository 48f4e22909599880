SPECIFICATION Spec
CONSTANTS
    Clients = {1, 2, 3}
    JoinChannels <- MCJoinChannels
    Participants = {1, 2}
    Applicants = {3}
    Leavers = {2}
    MaxRequests = 1
    MaxTime = 1
INVARIANTS
    TypeOK
    SignedIsPruned
    EchoesBounded
PROPERTIES
    QueuedByAll
CHECK_DEADLOCK FALSE
