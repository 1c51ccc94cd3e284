SPECIFICATION FairSpec
CONSTANTS
    Users = {u1, u2}
    Viewers = {u1}
    Steps = {1, 2}
    QueueLimit = 2
    MaxEvents = 3
    MaxFaults = 3
INVARIANTS
    TypeOK
    SessionsInOrder
    SessionsAlternate
PROPERTIES
    SessionsEnd
CHECK_DEADLOCK FALSE
