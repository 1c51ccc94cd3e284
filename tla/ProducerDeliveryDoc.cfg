SPECIFICATION Spec
CONSTANTS
    Users = {u1, u2}
    Viewers = {u1}
    Steps = {1, 2}
    QueueLimit = 2
    MaxEvents = 3
    MaxFaults = 0
INVARIANTS
    AcceptedIsKept
CHECK_DEADLOCK FALSE
