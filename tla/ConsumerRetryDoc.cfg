SPECIFICATION Spec
CONSTANTS
    p1 = p1
    za = za
    zb = zb
    o1 = o1
    Products <- MCProducts
    Zones <- MCZones
    OrderIds <- MCOrderIds
    EventIds <- MCEventIds
    Messages <- MCMessages
    Logs <- MCLogs
    Partitions = {1}
    MaxLog = 2
    Catalogue = {"receive", "ship"}
    MaxInfraErrors = 1
    MaxRestarts = 0
INVARIANTS
    AbandonedIsRetried
CHECK_DEADLOCK FALSE
