SPECIFICATION FairSpec
CONSTANTS
    p1 = p1
    za = za
    zb = zb
    o1 = o1
    Products <- MCProducts
    Zones <- MCZones
    OrderIds <- MCOrderIds
    EventIds <- MCEventIds
    Messages <- MCMessages
    Logs <- MCLogs
    Partitions = {1}
    MaxLog = 2
    Catalogue = {"receive", "again", "ship", "move", "badship", "count", "create", "unusable"}
    MaxInfraErrors = 1
    MaxRestarts = 2
INVARIANTS
    TypeOK
    CommittedWasHandled
    TablesAgree
    LossBoundedByFailures
PROPERTIES
    AppliedAtMostOnce
    NewestEventStands
    NoMessageBlocks
    EveryMessageEnds
    RejectsReachDlq
CHECK_DEADLOCK FALSE
