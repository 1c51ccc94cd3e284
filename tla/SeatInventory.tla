---------------------------- MODULE SeatInventory ----------------------------
(***************************************************************************)
(* What the flight service promises the booking service                    *)
(* (hm3/flight-service): seats of a flight are reserved for a booking and  *)
(* given back in one step each, never more than there are, never twice.    *)
(***************************************************************************)
EXTENDS Integers, Functions

CONSTANTS
    Flights, Bookings,
    Scheduled,      \* the flights with status SCHEDULED
    Capacity        \* total_seats of each flight

VARIABLES
    available,      \* flights.available_seats
    reservation     \* seat_reservations, by booking_id

vars == <<available, reservation>>

Reservation == [flight: Flights, seats: Nat \ {0}, status: {"ACTIVE", "RELEASED"}]
NoReservation == [status |-> "NONE"]

Init ==
    /\ available = Capacity
    /\ reservation = [b \in Bookings |-> NoReservation]

(* Mutant: the seats are not compared with the request.                     *)
MutCanReserveUnchecked(b, f, n) ==
    reservation[b] = NoReservation /\ f \in Scheduled /\ n > 0

CanReserve(b, f, n) ==
    /\ reservation[b] = NoReservation
    /\ f \in Scheduled
    /\ n > 0
    /\ available[f] >= n

Reserve(b, f, n) ==
    /\ CanReserve(b, f, n)
    /\ available' = [available EXCEPT ![f] = @ - n]
    /\ reservation' = [reservation EXCEPT ![b] =
                          [flight |-> f, seats |-> n, status |-> "ACTIVE"]]

Release(b) ==
    /\ reservation[b].status = "ACTIVE"
    /\ available' = [available EXCEPT ![reservation[b].flight] =
                        @ + reservation[b].seats]
    /\ reservation' = [reservation EXCEPT ![b].status = "RELEASED"]

Next ==
    \E b \in Bookings :
        \/ \E f \in Flights : \E n \in 1 .. available[f] : Reserve(b, f, n)
        \/ Release(b)

Spec == Init /\ [][Next]_vars
-----------------------------------------------------------------------------
ActiveFor(f) ==
    {b \in Bookings : /\ reservation[b].status = "ACTIVE"
                      /\ reservation[b].flight = f}

ActiveSeats(f) == SumFunction([b \in ActiveFor(f) |-> reservation[b].seats])

(* Every seat of a flight is either available or in exactly one active      *)
(* reservation.                                                             *)
Conserved == \A f \in Flights : available[f] + ActiveSeats(f) = Capacity[f]
=============================================================================
