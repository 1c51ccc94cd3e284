SPECIFICATION FairSpec
CONSTANTS
    f1 = f1
    f2 = f2
    b1 = b1
    b2 = b2
    r1 = r1
    Flights <- MCFlights
    Scheduled <- MCFlights
    Bookings <- MCBookings
    Free = Free
    Empty = Empty
    Capacity <- MCCapacity
    Routes <- MCRoutes
    RouteOf <- MCRouteOf
    Calls = {g1, g2}
    SeatCounts = {1, 2}
    Asked <- MCAsked
    MaxSkipped = 1
INVARIANTS
    SeatsAccountedFor
    FreshUnlessExcused
    NoDeadlock
PROPERTIES
    ReservesAtomically
    EveryCallReturns
