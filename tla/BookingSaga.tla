----------------------------- MODULE BookingSaga -----------------------------
(***************************************************************************)
(* The booking service (hm3/booking-service) and its calls to the flight   *)
(* service.  CreateBooking looks the flight up, reserves seats over gRPC,  *)
(* inserts the booking and, if that fails, releases the seats again;       *)
(* CancelBooking releases the seats and then marks the booking.  No step   *)
(* is retried, and nothing is resumed after a failure.                     *)
(*                                                                         *)
(* The flight service is the inventory of SeatInventory, which             *)
(* FlightService implements.  A call over gRPC is a request on the wire;   *)
(* the caller may give up on it (a lost connection, a client that hangs    *)
(* up and so cancels the context), and it may be served after that.        *)
(***************************************************************************)
EXTENDS Integers, FiniteSets

CONSTANTS
    Flights, Bookings, Scheduled, Capacity,
    Cancels,         \* requests to cancel a booking
    SeatCounts,      \* the seat counts of the requests to book
    MaxFaults        \* bound on failing steps

VARIABLES
    available, reservation,   \* state of the flight service
    bookings,    \* status of each row of the bookings table
    create,      \* the CreateBooking call that chose each booking id
    cancel,      \* the CancelBooking calls
    wire,        \* gRPC requests not yet served
    answers,     \* gRPC answers not yet received
    faults,      \* number of failing steps
    torn         \* history: calls that ended between two steps that belong
                 \* together, or without knowing what a step did

seatVars == <<available, reservation>>
vars == <<seatVars, bookings, create, cancel, wire, answers, faults, torn>>

Seats == INSTANCE SeatInventory
           WITH available <- available, reservation <- reservation

(* A booking id is a fresh UUID of one CreateBooking call and stands for it.*)
Callers == Bookings \cup Cancels

ASSUME CallersAssumption == Bookings \cap Cancels = {} /\ MaxFaults \in Nat
ASSUME SeatsAssumption ==
    SeatCounts \subseteq Int /\ Capacity \in [Flights -> Nat \ {0}]

Request == [op: {"ReserveSeats", "ReleaseReservation"}, booking: Bookings,
            caller: Callers]
Answer == [caller: Callers, ok: BOOLEAN]

NoTarget == "none"

Init ==
    /\ Seats!Init
    /\ bookings = [b \in Bookings |-> "NONE"]
    /\ \E fs \in [Bookings -> Flights], ns \in [Bookings -> SeatCounts] :
          create = [b \in Bookings |->
                      [at |-> "start", flight |-> fs[b], seats |-> ns[b]]]
    /\ cancel = [c \in Cancels |-> [at |-> "start", booking |-> NoTarget]]
    /\ wire = {}
    /\ answers = {}
    /\ faults = 0
    /\ torn = {}

CreateAt(b, l) == create' = [create EXCEPT ![b].at = l]
CancelAt(c, l) == cancel' = [cancel EXCEPT ![c].at = l]

(* A step fails, within the bound; x may leave bookings and seats apart.    *)
Fails == faults < MaxFaults /\ faults' = faults + 1
Fault(x) == Fails /\ torn' = torn \cup {x}
CleanFault == Fails /\ UNCHANGED torn
NoFault == UNCHANGED <<faults, torn>>

Send(op, b, x) ==
    /\ wire' = wire \cup {[op |-> op, booking |-> b, caller |-> x]}
    /\ UNCHANGED answers

Received(x, ok) ==
    /\ [caller |-> x, ok |-> ok] \in answers
    /\ answers' = answers \ {[caller |-> x, ok |-> ok]}
    /\ UNCHANGED wire
-----------------------------------------------------------------------------
(* CreateBooking.                                                           *)

(* Validation and GetFlight: its answer only says that the flight exists;   *)
(* an invalid request or any error of GetFlight ends the call.              *)
GetFlight(b) ==
    /\ create[b].at = "start"
    /\ \/ create[b].seats > 0 /\ CreateAt(b, "reserve")
       \/ CreateAt(b, "failed")
    /\ NoFault
    /\ UNCHANGED <<seatVars, bookings, cancel, wire, answers>>

CallReserveSeats(b) ==
    /\ create[b].at = "reserve"
    /\ Send("ReserveSeats", b, b)
    /\ CreateAt(b, "reserving")
    /\ NoFault
    /\ UNCHANGED <<seatVars, bookings, cancel>>

(* An answer, or the caller gives up and does not know what happened.       *)
ReserveReturns(b) ==
    /\ create[b].at = "reserving"
    /\ \/ Received(b, TRUE) /\ CreateAt(b, "insert") /\ NoFault
       \/ Received(b, FALSE) /\ CreateAt(b, "failed") /\ NoFault
       \/ Fault(b) /\ CreateAt(b, "failed") /\ UNCHANGED <<wire, answers>>
    /\ UNCHANGED <<seatVars, bookings, cancel>>

(* Mutant: the error of the insertion is returned at once.                  *)
MutInsertWithoutCompensation(b) ==
    /\ create[b].at = "insert"
    /\ \/ bookings' = [bookings EXCEPT ![b] = "CONFIRMED"] /\ CreateAt(b, "fetch")
       \/ bookings' = bookings /\ CreateAt(b, "failed")
    /\ NoFault
    /\ UNCHANGED <<seatVars, cancel, wire, answers>>

(* INSERT INTO bookings; an error may hide an insertion that took place.    *)
InsertBooking(b) ==
    /\ create[b].at = "insert"
    /\ \/ /\ bookings' = [bookings EXCEPT ![b] = "CONFIRMED"]
          /\ \/ CreateAt(b, "fetch") /\ NoFault
             \/ CreateAt(b, "compensate") /\ Fault(b)
       \/ bookings' = bookings /\ CreateAt(b, "compensate") /\ NoFault
    /\ UNCHANGED <<seatVars, cancel, wire, answers>>

(* The compensation runs in the context of the request: when that is        *)
(* cancelled, nothing is sent.                                              *)
CallCompensation(b) ==
    /\ create[b].at = "compensate"
    /\ \/ Send("ReleaseReservation", b, b) /\ CreateAt(b, "compensating") /\ NoFault
       \/ CreateAt(b, "failed") /\ Fault(b) /\ UNCHANGED <<wire, answers>>
    /\ UNCHANGED <<seatVars, bookings, cancel>>

(* Whatever comes back, CreateBooking returns the error of the insertion.   *)
CompensationReturns(b) ==
    /\ create[b].at = "compensating"
    /\ CreateAt(b, "failed")
    /\ \/ \E ok \in BOOLEAN : Received(b, ok) /\ NoFault
       \/ Fault(b) /\ UNCHANGED <<wire, answers>>
    /\ UNCHANGED <<seatVars, bookings, cancel>>

(* The row is read back; an error is returned although the booking stands.  *)
FetchCreated(b) ==
    /\ create[b].at = "fetch"
    /\ \/ CreateAt(b, "ok") /\ NoFault
       \/ CreateAt(b, "failed") /\ CleanFault
    /\ UNCHANGED <<seatVars, bookings, cancel, wire, answers>>
-----------------------------------------------------------------------------
(* CancelBooking.                                                           *)

(* The row is read; a missing or cancelled booking, or an error, ends it.   *)
GetBooking(c) ==
    /\ cancel[c].at = "start"
    /\ \E b \in Bookings :
          /\ \/ bookings[b] = "CONFIRMED"
                /\ cancel' = [cancel EXCEPT ![c] = [at |-> "release", booking |-> b]]
             \/ cancel' = [cancel EXCEPT ![c] = [at |-> "failed", booking |-> b]]
    /\ NoFault
    /\ UNCHANGED <<seatVars, bookings, create, wire, answers>>

CallRelease(c) ==
    /\ cancel[c].at = "release"
    /\ Send("ReleaseReservation", cancel[c].booking, c)
    /\ CancelAt(c, "releasing")
    /\ NoFault
    /\ UNCHANGED <<seatVars, bookings, create>>

(* Mutant: the booking is marked whatever the release answered.             *)
MutReleaseErrorIgnored(c) ==
    /\ cancel[c].at = "releasing"
    /\ \E ok \in BOOLEAN : Received(c, ok)
    /\ CancelAt(c, "update")
    /\ NoFault
    /\ UNCHANGED <<seatVars, bookings, create>>

ReleaseReturns(c) ==
    /\ cancel[c].at = "releasing"
    /\ \/ Received(c, TRUE) /\ CancelAt(c, "update") /\ NoFault
       \/ Received(c, FALSE) /\ CancelAt(c, "failed") /\ NoFault
       \/ Fault(c) /\ CancelAt(c, "failed") /\ UNCHANGED <<wire, answers>>
    /\ UNCHANGED <<seatVars, bookings, create>>

(* UPDATE bookings SET status, and the row is read back.                    *)
UpdateStatus(c) ==
    /\ cancel[c].at = "update"
    /\ \/ /\ bookings' = [bookings EXCEPT ![cancel[c].booking] = "CANCELLED"]
          /\ \/ CancelAt(c, "ok") /\ NoFault
             \/ CancelAt(c, "failed") /\ CleanFault
       \/ bookings' = bookings /\ CancelAt(c, "failed") /\ Fault(c)
    /\ UNCHANGED <<seatVars, create, wire, answers>>

(* The booking service stops: its calls end where they are.                 *)
Ended == {"start", "ok", "failed"}

Crash ==
    /\ Fails
    /\ create' = [b \in Bookings |->
          IF create[b].at \in Ended THEN create[b]
          ELSE [create[b] EXCEPT !.at = "failed"]]
    /\ cancel' = [c \in Cancels |->
          IF cancel[c].at \in Ended THEN cancel[c]
          ELSE [cancel[c] EXCEPT !.at = "failed"]]
    /\ torn' = torn
          \cup {b \in Bookings :
                  create[b].at \in {"reserving", "insert", "compensate", "compensating"}}
          \cup {c \in Cancels : cancel[c].at \in {"releasing", "update"}}
    /\ UNCHANGED <<seatVars, bookings, wire, answers>>
-----------------------------------------------------------------------------
(* The flight service serves a request: with the effect SeatInventory gives *)
(* it, or, when it gives none, with an error.                               *)
Possible(m) ==
    IF m.op = "ReserveSeats"
    THEN Seats!CanReserve(m.booking, create[m.booking].flight, create[m.booking].seats)
    ELSE reservation[m.booking].status = "ACTIVE"

Effect(m) ==
    \/ /\ m.op = "ReserveSeats"
       /\ Seats!Reserve(m.booking, create[m.booking].flight, create[m.booking].seats)
    \/ m.op = "ReleaseReservation" /\ Seats!Release(m.booking)

Answered(m, ok) ==
    /\ wire' = wire \ {m}
    /\ answers' = answers \cup {[caller |-> m.caller, ok |-> ok]}
    /\ UNCHANGED <<bookings, create, cancel>>

(* Mutant: releasing what is released already is a success.                 *)
MutServeReleasesAgain(m) ==
    /\ m \in wire
    /\ \/ Effect(m) /\ Answered(m, TRUE)
       \/ ~Possible(m) /\ UNCHANGED seatVars /\ Answered(m, m.op # "ReserveSeats")
    /\ NoFault

(* A commit whose outcome is not known is an error too.                     *)
Serve(m) ==
    /\ m \in wire
    /\ \/ Effect(m) /\ Answered(m, TRUE) /\ NoFault
       \/ Effect(m) /\ Answered(m, FALSE) /\ Fault(m.caller)
       \/ ~Possible(m) /\ UNCHANGED seatVars /\ Answered(m, FALSE) /\ NoFault

(* An error without effect: a serialization failure, a lost request, a      *)
(* context cancelled in time.  Only a compensation is needed that fails.    *)
Refuse(m) ==
    /\ m \in wire
    /\ IF m.caller \in Bookings /\ m.op = "ReleaseReservation"
       THEN Fault(m.caller) ELSE CleanFault
    /\ UNCHANGED seatVars
    /\ Answered(m, FALSE)
-----------------------------------------------------------------------------
CreateStep(b) ==
    \/ GetFlight(b)
    \/ CallReserveSeats(b)
    \/ ReserveReturns(b)
    \/ InsertBooking(b)
    \/ CallCompensation(b)
    \/ CompensationReturns(b)
    \/ FetchCreated(b)

CancelStep(c) ==
    \/ GetBooking(c)
    \/ CallRelease(c)
    \/ ReleaseReturns(c)
    \/ UpdateStatus(c)

Next ==
    \/ \E b \in Bookings : CreateStep(b)
    \/ \E c \in Cancels : CancelStep(c)
    \/ \E m \in wire : Serve(m) \/ Refuse(m)
    \/ Crash

Spec == Init /\ [][Next]_vars

(* A goroutine that can run does, and gRPC delivers what it does not lose.  *)
FairSpec ==
    /\ Spec
    /\ \A b \in Bookings : WF_vars(CreateStep(b))
    /\ \A m \in Request : WF_vars(Serve(m))
-----------------------------------------------------------------------------
CreatePlaces == {"start", "reserve", "reserving", "insert", "compensate",
                 "compensating", "fetch", "ok", "failed"}
CancelPlaces == {"start", "release", "releasing", "update", "ok", "failed"}

(* Every variable keeps its type.                                           *)
TypeOK ==
    /\ available \in [Flights -> Nat]
    /\ reservation \in [Bookings -> Seats!Reservation \cup {Seats!NoReservation}]
    /\ bookings \in [Bookings -> {"NONE", "CONFIRMED", "CANCELLED"}]
    /\ create \in [Bookings -> [at: CreatePlaces, flight: Flights, seats: SeatCounts]]
    /\ cancel \in [Cancels -> [at: CancelPlaces, booking: Bookings \cup {NoTarget}]]
    /\ \A c \in Cancels : cancel[c].at # "start" => cancel[c].booking \in Bookings
    /\ wire \subseteq Request
    /\ answers \subseteq Answer
    /\ faults \in Nat
    /\ torn \subseteq Callers

(* A booking is marked CANCELLED only after its seats went back, whatever   *)
(* fails: release comes first (booking_service.go 119-126).                 *)
CancelledIsReleased ==
    \A b \in Bookings :
        bookings[b] = "CANCELLED" => reservation[b].status = "RELEASED"

(* What the client is told is true: a booking it was given exists, and of   *)
(* the cancellations of one booking at most one succeeded, even when they   *)
(* all read CONFIRMED (the check at line 115 comes before the release).     *)
AnswersAreTrue ==
    /\ \A b \in Bookings : create[b].at = "ok" => bookings[b] # "NONE"
    /\ \A c \in Cancels : cancel[c].at = "ok" =>
          /\ bookings[cancel[c].booking] = "CANCELLED"
          /\ \A d \in Cancels \ {c} :
                cancel[d].at = "ok" => cancel[d].booking # cancel[c].booking

(* When no call for a booking is under way, its row is CONFIRMED exactly if *)
(* its seats are reserved, unless one of its calls was torn: an error that  *)
(* is answered before anything was done leaves the two together.            *)
CallersFor(b) == {b} \cup {c \in Cancels : cancel[c].booking = b}

Settled(b) ==
    /\ create[b].at \in Ended
    /\ \A c \in CallersFor(b) \cap Cancels : cancel[c].at \in Ended
    /\ \A m \in wire : m.booking # b

SettledBookingsAgree ==
    \A b \in Bookings : Settled(b) /\ CallersFor(b) \cap torn = {} =>
        (bookings[b] = "CONFIRMED" <=> reservation[b].status = "ACTIVE")

(* Seats reserved for a booking that could not be stored go back            *)
(* (booking_service.go 78-84), unless CreateBooking was torn.               *)
OrphanedSeatsReturn ==
    \A b \in Bookings :
        reservation[b].status = "ACTIVE" /\ bookings[b] = "NONE" ~>
            \/ reservation[b].status = "RELEASED"
            \/ bookings[b] # "NONE"
            \/ b \in torn
=============================================================================
