--------------------------- MODULE MCFlightService ---------------------------
(* Constants for model-checking FlightService: two flights of two seats on  *)
(* one route; a flight that is not in Scheduled has departed.               *)
EXTENDS FlightService

CONSTANTS f1, f2, b1, b2, r1

MCFlights == {f1, f2}
MCBookings == {b1, b2}
MCRoutes == {r1}
MCCapacity == [f \in Flights |-> 2]
MCRouteOf == [f \in Flights |-> r1]

(* Two bookings that compete for the seats of f1, one of which is also      *)
(* asked for on f2; any release; reads of f1 and of the route.              *)
MCAsked ==
    {[op |-> "ReserveSeats", booking |-> w[1], flight |-> w[2], seats |-> w[3]] :
        w \in {<<b1, f1, 1>>, <<b1, f2, 1>>, <<b2, f1, 2>>}}
      \cup [op: {"ReleaseReservation"}, booking: Bookings]
      \cup {[op |-> "GetFlight", key |-> FlightKey(f1)],
            [op |-> "SearchFlights", key |-> SearchKey(r1)]}
=============================================================================
