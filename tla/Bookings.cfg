SPECIFICATION FairSpec
CONSTANTS
    Flights = {f1}
    Scheduled = {f1}
    Capacity <- MCCapacity
    Bookings = {b1, b2}
    Cancels = {c1, c2}
    SeatCounts = {0, 1, 2}
    MaxFaults = 2
INVARIANTS
    TypeOK
    CancelledIsReleased
    AnswersAreTrue
    SettledBookingsAgree
PROPERTIES
    OrphanedSeatsReturn
CHECK_DEADLOCK FALSE
