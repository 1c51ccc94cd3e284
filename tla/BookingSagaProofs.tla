--------------------------- MODULE BookingSagaProofs ---------------------------
(***************************************************************************)
(* Proofs about BookingSaga for all flights, bookings, cancellations and   *)
(* faults: the type invariant, that cancelled bookings have no seats and   *)
(* clients are told the truth, and that a booking and its seats agree once *)
(* its calls have ended, unless one of them was torn.                      *)
(***************************************************************************)
EXTENDS BookingSaga, TLAPS

(* What a request that the flight service serves does to the inventory.     *)
LEMMA EffectTypes ==
    ASSUME TypeOK, NEW m \in wire, Effect(m)
    PROVE  /\ available' \in [Flights -> Nat]
           /\ reservation' \in [Bookings -> Seats!Reservation \cup {Seats!NoReservation}]
<1> USE DEF TypeOK, Seats!Reservation, Seats!NoReservation
<1>0. m.booking \in Bookings
  BY DEF Request
<1>1. CASE Seats!Reserve(m.booking, create[m.booking].flight, create[m.booking].seats)
  <2> DEFINE f == create[m.booking].flight
             n == create[m.booking].seats
  <2>1. f \in Flights /\ n \in Int
    BY <1>0, SeatsAssumption
  <2>2. n \in Nat \ {0} /\ available[f] - n \in Nat
    BY <1>1, <2>1 DEF Seats!Reserve, Seats!CanReserve
  <2>3. [flight |-> f, seats |-> n, status |-> "ACTIVE"] \in Seats!Reservation
    BY <2>1, <2>2
  <2> QED BY <1>0, <1>1, <2>1, <2>2, <2>3 DEF Seats!Reserve
<1>2. CASE Seats!Release(m.booking)
  <2> DEFINE r == reservation[m.booking]
  <2>1. r \in Seats!Reservation
    BY <1>0, <1>2 DEF Seats!Release
  <2>2. [r EXCEPT !.status = "RELEASED"] \in Seats!Reservation
    BY <2>1
  <2>3. r.flight \in Flights /\ available[r.flight] + r.seats \in Nat
    BY <2>1
  <2> QED BY <1>0, <1>2, <2>2, <2>3 DEF Seats!Release
<1> QED BY <1>1, <1>2 DEF Effect

(* Moving a call to another place keeps its type.                           *)
LEMMA PlaceTypes ==
    ASSUME TypeOK
    PROVE  /\ \A b \in Bookings, l \in CreatePlaces : CreateAt(b, l) =>
                create' \in [Bookings -> [at: CreatePlaces, flight: Flights,
                                          seats: SeatCounts]]
           /\ \A c \in Cancels, l \in CancelPlaces :
                cancel[c].at # "start" /\ CancelAt(c, l) =>
                   /\ cancel' \in [Cancels -> [at: CancelPlaces,
                                               booking: Bookings \cup {NoTarget}]]
                   /\ \A d \in Cancels : cancel'[d].at # "start" =>
                                              cancel'[d].booking \in Bookings
<1>1. ASSUME NEW b \in Bookings, NEW l \in CreatePlaces, CreateAt(b, l)
      PROVE  create' \in [Bookings -> [at: CreatePlaces, flight: Flights,
                                       seats: SeatCounts]]
  BY <1>1 DEF TypeOK, CreateAt
<1>2. ASSUME NEW c \in Cancels, NEW l \in CancelPlaces, cancel[c].at # "start",
             CancelAt(c, l)
      PROVE  /\ cancel' \in [Cancels -> [at: CancelPlaces,
                                         booking: Bookings \cup {NoTarget}]]
             /\ \A d \in Cancels : cancel'[d].at # "start" =>
                                       cancel'[d].booking \in Bookings
  BY <1>2 DEF TypeOK, CancelAt
<1> QED BY <1>1, <1>2

LEMMA FaultTypes ==
    ASSUME TypeOK, NEW x \in Callers, Fault(x) \/ CleanFault \/ NoFault
    PROVE  faults' \in Nat /\ torn' \subseteq Callers
BY DEF TypeOK, Fault, CleanFault, Fails, NoFault

LEMMA WireTypes ==
    ASSUME TypeOK
    PROVE  /\ \A op \in {"ReserveSeats", "ReleaseReservation"}, b \in Bookings,
                 x \in Callers : Send(op, b, x) =>
                    wire' \subseteq Request /\ answers' \subseteq Answer
           /\ \A x \in Callers, ok \in BOOLEAN : Received(x, ok) =>
                    wire' \subseteq Request /\ answers' \subseteq Answer
           /\ \A m \in wire, ok \in BOOLEAN : Answered(m, ok) =>
                    wire' \subseteq Request /\ answers' \subseteq Answer
BY DEF TypeOK, Send, Received, Answered, Request, Answer

LEMMA TypeStep == TypeOK /\ [Next]_vars => TypeOK'
<1> SUFFICES ASSUME TypeOK, [Next]_vars PROVE TypeOK'
  OBVIOUS
<1>1. ASSUME NEW b \in Bookings, CreateStep(b) PROVE TypeOK'
  <2>0. b \in Callers
    BY DEF Callers
  <2> USE <2>0, PlaceTypes, FaultTypes, WireTypes DEF seatVars, CreatePlaces
  <2>1. CASE GetFlight(b)
    BY <2>1 DEF GetFlight, TypeOK
  <2>2. CASE CallReserveSeats(b)
    BY <2>2 DEF CallReserveSeats, TypeOK
  <2>3. CASE ReserveReturns(b)
    BY <2>3 DEF ReserveReturns, TypeOK
  <2>4. CASE InsertBooking(b)
    BY <2>4 DEF InsertBooking, TypeOK
  <2>5. CASE CallCompensation(b)
    BY <2>5 DEF CallCompensation, TypeOK
  <2>6. CASE CompensationReturns(b)
    BY <2>6 DEF CompensationReturns, TypeOK
  <2>7. CASE FetchCreated(b)
    BY <2>7 DEF FetchCreated, TypeOK
  <2> QED BY <1>1, <2>1, <2>2, <2>3, <2>4, <2>5, <2>6, <2>7 DEF CreateStep
<1>2. ASSUME NEW c \in Cancels, CancelStep(c) PROVE TypeOK'
  <2>0. c \in Callers
    BY DEF Callers
  <2> USE <2>0, PlaceTypes, FaultTypes, WireTypes DEF seatVars, CancelPlaces
  <2>1. CASE GetBooking(c)
    <3>1. PICK b \in Bookings, l \in {"release", "failed"} :
            cancel' = [cancel EXCEPT ![c] = [at |-> l, booking |-> b]]
      BY <2>1 DEF GetBooking
    <3>2. /\ cancel' \in [Cancels -> [at: CancelPlaces,
                                      booking: Bookings \cup {NoTarget}]]
          /\ \A d \in Cancels : cancel'[d].at # "start" =>
                                    cancel'[d].booking \in Bookings
      BY <3>1 DEF TypeOK
    <3> QED BY <2>1, <3>2 DEF GetBooking, TypeOK
  <2>2. CASE CallRelease(c)
    <3>1. cancel[c].at # "start" /\ cancel[c].booking \in Bookings
      BY <2>2 DEF CallRelease, TypeOK
    <3> QED BY <2>2, <3>1 DEF CallRelease, TypeOK
  <2>3. CASE ReleaseReturns(c)
    BY <2>3 DEF ReleaseReturns, TypeOK
  <2>4. CASE UpdateStatus(c)
    <3>1. /\ cancel[c].at # "start" /\ cancel[c].booking \in Bookings
          /\ \/ bookings' = bookings
             \/ bookings' = [bookings EXCEPT ![cancel[c].booking] = "CANCELLED"]
          /\ \E l \in CancelPlaces : CancelAt(c, l)
          /\ NoFault \/ CleanFault \/ Fault(c)
          /\ UNCHANGED <<available, reservation, create, wire, answers>>
      BY <2>4 DEF UpdateStatus, TypeOK
    <3>2. bookings' \in [Bookings -> {"NONE", "CONFIRMED", "CANCELLED"}]
      BY <3>1 DEF TypeOK
    <3> QED BY <3>1, <3>2 DEF TypeOK
  <2> QED BY <1>2, <2>1, <2>2, <2>3, <2>4 DEF CancelStep
<1>3. ASSUME NEW m \in wire, Serve(m) \/ Refuse(m) PROVE TypeOK'
  <2>0. m.caller \in Callers
    BY DEF TypeOK, Request
  <2>1. (reservation' = reservation /\ available' = available) \/ Effect(m)
    BY <1>3 DEF Serve, Refuse, seatVars
  <2> QED BY <1>3, <2>0, <2>1, EffectTypes, FaultTypes, WireTypes
          DEF Serve, Refuse, Answered, TypeOK
<1>4. CASE Crash
  <2> USE <1>4 DEF Crash, TypeOK
  <2>1. create' \in [Bookings -> [at: CreatePlaces, flight: Flights,
                                  seats: SeatCounts]]
    BY DEF CreatePlaces
  <2>2. /\ cancel' \in [Cancels -> [at: CancelPlaces,
                                    booking: Bookings \cup {NoTarget}]]
        /\ \A c \in Cancels : cancel'[c].at # "start" =>
                                  cancel'[c].booking \in Bookings
    BY DEF CancelPlaces, Ended
  <2>3. faults' \in Nat /\ torn' \subseteq Callers
    BY DEF Fails, Callers
  <2> QED BY <2>1, <2>2, <2>3 DEF seatVars
<1>5. CASE UNCHANGED vars
  BY <1>5 DEF vars, seatVars, TypeOK
<1> QED BY <1>1, <1>2, <1>3, <1>4, <1>5 DEF Next

(* Type correctness of the saga.                                            *)
THEOREM TypeCorrect == Spec => []TypeOK
<1>1. Init => TypeOK
  BY SeatsAssumption, CallersAssumption
  DEF Init, TypeOK, Seats!Init, CreatePlaces, CancelPlaces, Seats!NoReservation
<1> QED BY <1>1, TypeStep, PTL DEF Spec
-----------------------------------------------------------------------------
(* The inductive invariant.  A cancellation has won its booking when it     *)
(* released the seats, from the answer on: the inventory releases a         *)
(* reservation once, so there is one winner at most, and only a winner      *)
(* marks the booking.                                                       *)
Won(c) ==
    \/ cancel[c].at \in {"update", "ok"}
    \/ [caller |-> c, ok |-> TRUE] \in answers

WireMatches ==
    \A m \in wire : m.caller \in Cancels =>
        /\ m.op = "ReleaseReservation"
        /\ cancel[m.caller].at # "start"
        /\ cancel[m.caller].booking = m.booking

AnswersMatch == \A c \in Cancels : Won(c) => cancel[c].at # "start"

WinnerReleased ==
    \A c \in Cancels : Won(c) => reservation[cancel[c].booking].status = "RELEASED"

OneWinner ==
    \A c, d \in Cancels :
        Won(c) /\ Won(d) /\ cancel[c].booking = cancel[d].booking => c = d

RowsMatch ==
    /\ \A b \in Bookings :
          create[b].at \in {"start", "reserve", "reserving", "insert"}
              => bookings[b] = "NONE"
    /\ \A b \in Bookings : create[b].at \in {"fetch", "ok"} => bookings[b] # "NONE"
    /\ \A c \in Cancels : cancel[c].at \in {"release", "releasing", "update"}
          => bookings[cancel[c].booking] # "NONE"
    /\ \A c \in Cancels : cancel[c].at = "ok"
          => bookings[cancel[c].booking] = "CANCELLED"

IInv ==
    /\ TypeOK
    /\ WireMatches
    /\ AnswersMatch
    /\ WinnerReleased
    /\ OneWinner
    /\ RowsMatch
    /\ CancelledIsReleased

(* A step that leaves the cancellations and the inventory alone, sends      *)
(* nothing for a cancellation and answers nothing keeps the winners.        *)
LEMMA WinnersKept ==
    ASSUME IInv, cancel' = cancel, reservation' = reservation,
           answers' \subseteq answers,
           \A m \in wire' : m \in wire \/ m.caller \notin Cancels
    PROVE  WireMatches' /\ AnswersMatch' /\ WinnerReleased' /\ OneWinner'
<1>1. \A c \in Cancels : Won(c)' => Won(c)
  BY DEF Won
<1>2. WireMatches'
  BY DEF IInv, WireMatches
<1> QED BY <1>1, <1>2 DEF IInv, AnswersMatch, WinnerReleased, OneWinner

LEMMA Moves ==
    ASSUME TypeOK
    PROVE  /\ \A b \in Bookings, l \in CreatePlaces : CreateAt(b, l) =>
                /\ create'[b].at = l
                /\ \A a \in Bookings \ {b} : create'[a] = create[a]
           /\ \A c \in Cancels, l \in CancelPlaces : CancelAt(c, l) =>
                /\ cancel'[c].at = l
                /\ cancel'[c].booking = cancel[c].booking
                /\ \A d \in Cancels \ {c} : cancel'[d] = cancel[d]
<1>1. ASSUME NEW b \in Bookings, NEW l \in CreatePlaces, CreateAt(b, l)
      PROVE  /\ create'[b].at = l
             /\ \A a \in Bookings \ {b} : create'[a] = create[a]
  BY <1>1 DEF TypeOK, CreateAt
<1>2. ASSUME NEW c \in Cancels, NEW l \in CancelPlaces, CancelAt(c, l)
      PROVE  /\ cancel'[c].at = l
             /\ cancel'[c].booking = cancel[c].booking
             /\ \A d \in Cancels \ {c} : cancel'[d] = cancel[d]
  BY <1>2 DEF TypeOK, CancelAt
<1> QED BY <1>1, <1>2

LEMMA CreateStepKeeps ==
    ASSUME IInv, NEW b \in Bookings, CreateStep(b), TypeOK'
    PROVE  IInv'
<1>t. TypeOK /\ WireMatches /\ AnswersMatch /\ WinnerReleased /\ OneWinner
      /\ RowsMatch /\ CancelledIsReleased
  BY DEF IInv
<1>0. b \notin Cancels
  BY CallersAssumption
<1>1. /\ cancel' = cancel /\ reservation' = reservation
      /\ answers' \subseteq answers
      /\ \A m \in wire' : m \in wire \/ m.caller \notin Cancels
  <2>1. cancel' = cancel /\ reservation' = reservation
    BY DEF CreateStep, GetFlight, CallReserveSeats, ReserveReturns, InsertBooking,
       CallCompensation, CompensationReturns, FetchCreated, seatVars
  <2>2. \/ UNCHANGED <<wire, answers>>
        \/ \E ok \in BOOLEAN : Received(b, ok)
        \/ \E op \in {"ReserveSeats", "ReleaseReservation"} : Send(op, b, b)
    BY DEF CreateStep, GetFlight, CallReserveSeats, ReserveReturns, InsertBooking,
       CallCompensation, CompensationReturns, FetchCreated
  <2>3. answers' \subseteq answers
    BY <2>2 DEF Received, Send
  <2>4. \A m \in wire' : m \in wire \/ m.caller = b
    <3>1. CASE wire' = wire
      BY <3>1
    <3>2. ASSUME NEW op, wire' = wire \cup {[op |-> op, booking |-> b, caller |-> b]}
          PROVE  \A m \in wire' : m \in wire \/ m.caller = b
      BY <3>2
    <3> QED BY <2>2, <3>1, <3>2 DEF Received, Send
  <2> QED BY <1>0, <2>1, <2>3, <2>4
<1>2. WireMatches' /\ AnswersMatch' /\ WinnerReleased' /\ OneWinner'
  BY <1>1, WinnersKept
<1>3. \/ /\ create[b].at = "insert"
         /\ bookings' = [bookings EXCEPT ![b] = "CONFIRMED"]
         /\ CreateAt(b, "fetch") \/ CreateAt(b, "compensate")
      \/ /\ bookings' = bookings
         /\ create[b].at \in {"start", "reserve", "reserving"}
         /\ \E l \in {"reserve", "reserving", "insert"} : CreateAt(b, l)
      \/ /\ bookings' = bookings
         /\ \E l \in {"failed", "compensate", "compensating"} : CreateAt(b, l)
      \/ /\ bookings' = bookings
         /\ create[b].at = "fetch" /\ CreateAt(b, "ok")
  BY DEF CreateStep, GetFlight, CallReserveSeats, ReserveReturns, InsertBooking,
     CallCompensation, CompensationReturns, FetchCreated
<1>m. \A l \in CreatePlaces : CreateAt(b, l) =>
          /\ create'[b].at = l
          /\ \A a \in Bookings \ {b} : create'[a] = create[a]
  BY <1>t, Moves
<1>4. RowsMatch' /\ CancelledIsReleased'
  <2>1. CASE /\ create[b].at = "insert"
             /\ bookings' = [bookings EXCEPT ![b] = "CONFIRMED"]
             /\ CreateAt(b, "fetch") \/ CreateAt(b, "compensate")
    <3>1. /\ bookings[b] = "NONE" /\ bookings'[b] = "CONFIRMED"
          /\ \A a \in Bookings \ {b} : bookings'[a] = bookings[a]
      BY <1>t, <2>1 DEF RowsMatch, TypeOK
    <3>2. /\ create'[b].at \in {"fetch", "compensate"}
          /\ \A a \in Bookings \ {b} : create'[a] = create[a]
      BY <1>m, <2>1 DEF CreatePlaces
    <3>3. \A c \in Cancels : cancel[c].at # "start" => cancel[c].booking \in Bookings
      BY <1>t DEF TypeOK
    <3> QED BY <1>t, <1>1, <3>1, <3>2, <3>3 DEF RowsMatch, CancelledIsReleased
  <2>2. CASE bookings' = bookings
    <3>1. /\ \A a \in Bookings \ {b} : create'[a] = create[a]
          /\ create'[b].at \in {"start", "reserve", "reserving", "insert"} =>
                create[b].at \in {"start", "reserve", "reserving", "insert"}
          /\ create'[b].at \in {"fetch", "ok"} => create[b].at \in {"insert", "fetch"}
                /\ (create[b].at = "insert" => bookings'[b] = "CONFIRMED")
      BY <1>3, <1>m DEF CreatePlaces, TypeOK
    <3> QED BY <1>t, <1>1, <2>2, <3>1 DEF RowsMatch, CancelledIsReleased
  <2> QED BY <1>3, <2>1, <2>2
<1> QED BY <1>2, <1>4 DEF IInv

LEMMA CancelStepKeeps ==
    ASSUME IInv, NEW c \in Cancels, CancelStep(c), TypeOK'
    PROVE  IInv'
<1>t. TypeOK /\ WireMatches /\ AnswersMatch /\ WinnerReleased /\ OneWinner
      /\ RowsMatch /\ CancelledIsReleased
  BY DEF IInv
<1>m. \A l \in CancelPlaces : CancelAt(c, l) =>
          /\ cancel'[c].at = l
          /\ cancel'[c].booking = cancel[c].booking
          /\ \A d \in Cancels \ {c} : cancel'[d] = cancel[d]
  BY <1>t, Moves
<1>b. \A d \in Cancels : cancel[d].at # "start" => cancel[d].booking \in Bookings
  BY <1>t DEF TypeOK
<1>1. CASE GetBooking(c)
  <2>1. PICK b \in Bookings, l \in {"release", "failed"} :
          /\ cancel' = [cancel EXCEPT ![c] = [at |-> l, booking |-> b]]
          /\ l = "release" => bookings[b] = "CONFIRMED"
    BY <1>1 DEF GetBooking
  <2>2. ~Won(c)
    BY <1>t, <1>1 DEF GetBooking, AnswersMatch
  <2>a. cancel'[c].at = l /\ \A d \in Cancels \ {c} : cancel'[d] = cancel[d]
    BY <2>1 DEF TypeOK
  <2>3. \A d \in Cancels : /\ Won(d)' => Won(d) /\ d # c
                           /\ d # c => cancel'[d] = cancel[d]
    BY <1>1, <2>2, <2>a DEF GetBooking, Won
  <2>4. WireMatches'
    BY <1>t, <1>1, <2>1 DEF GetBooking, WireMatches
  <2>5. AnswersMatch' /\ WinnerReleased' /\ OneWinner'
    BY <1>t, <1>1, <2>3 DEF GetBooking, seatVars, AnswersMatch, WinnerReleased, OneWinner
  <2>6. RowsMatch' /\ CancelledIsReleased'
    BY <1>t, <1>1, <2>1 DEF GetBooking, seatVars, RowsMatch, CancelledIsReleased
  <2> QED BY <2>4, <2>5, <2>6 DEF IInv
<1>2. CASE CallRelease(c)
  <2>1. /\ CancelAt(c, "releasing")
        /\ cancel[c].at = "release" /\ answers' = answers
        /\ wire' = wire \cup {[op |-> "ReleaseReservation",
                               booking |-> cancel[c].booking, caller |-> c]}
        /\ UNCHANGED <<reservation, bookings, create>>
    BY <1>2 DEF CallRelease, Send, seatVars
  <2>2. \A d \in Cancels : /\ Won(d)' <=> Won(d)
                           /\ cancel'[d].booking = cancel[d].booking
                           /\ cancel[d].at # "start" => cancel'[d].at # "start"
    BY <1>m, <2>1 DEF Won, CancelPlaces
  <2>3. WireMatches'
    BY <1>t, <2>1, <2>2 DEF WireMatches
  <2>4. AnswersMatch' /\ WinnerReleased' /\ OneWinner'
    BY <1>t, <2>1, <2>2 DEF AnswersMatch, WinnerReleased, OneWinner
  <2>5. RowsMatch' /\ CancelledIsReleased'
    BY <1>t, <1>m, <2>1 DEF RowsMatch, CancelledIsReleased, CancelPlaces
  <2> QED BY <2>3, <2>4, <2>5 DEF IInv
<1>3. CASE ReleaseReturns(c)
  <2>1. /\ cancel[c].at = "releasing" /\ answers' \subseteq answers /\ wire' = wire
        /\ UNCHANGED <<reservation, bookings, create>>
        /\ CancelAt(c, "failed") \/ (CancelAt(c, "update") /\ Won(c))
    BY <1>3 DEF ReleaseReturns, Received, seatVars, Won
  <2>2. \A d \in Cancels : /\ Won(d)' => Won(d)
                           /\ cancel'[d].booking = cancel[d].booking
                           /\ cancel[d].at # "start" => cancel'[d].at # "start"
    BY <1>m, <2>1 DEF Won, CancelPlaces
  <2>3. WireMatches'
    BY <1>t, <2>1, <2>2 DEF WireMatches
  <2>4. AnswersMatch' /\ WinnerReleased' /\ OneWinner'
    BY <1>t, <2>1, <2>2 DEF AnswersMatch, WinnerReleased, OneWinner
  <2>5. RowsMatch' /\ CancelledIsReleased'
    BY <1>t, <1>m, <2>1 DEF RowsMatch, CancelledIsReleased, CancelPlaces
  <2> QED BY <2>3, <2>4, <2>5 DEF IInv
<1>4. CASE UpdateStatus(c)
  <2>1. /\ cancel[c].at = "update" /\ UNCHANGED <<reservation, create, wire, answers>>
        /\ \/ /\ bookings' = [bookings EXCEPT ![cancel[c].booking] = "CANCELLED"]
              /\ CancelAt(c, "ok") \/ CancelAt(c, "failed")
           \/ bookings' = bookings /\ CancelAt(c, "failed")
    BY <1>4 DEF UpdateStatus, seatVars
  <2>2. \A d \in Cancels : /\ Won(d)' => Won(d)
                           /\ cancel'[d].booking = cancel[d].booking
                           /\ cancel[d].at # "start" => cancel'[d].at # "start"
    BY <1>m, <2>1 DEF Won, CancelPlaces
  <2>3. WireMatches'
    BY <1>t, <2>1, <2>2 DEF WireMatches
  <2>4. AnswersMatch' /\ WinnerReleased' /\ OneWinner'
    BY <1>t, <2>1, <2>2 DEF AnswersMatch, WinnerReleased, OneWinner
  <2>5. cancel[c].booking \in Bookings /\ bookings[cancel[c].booking] # "NONE"
        /\ reservation[cancel[c].booking].status = "RELEASED"
    BY <1>t, <1>b, <2>1 DEF RowsMatch, WinnerReleased, Won
  <2>6. RowsMatch' /\ CancelledIsReleased'
    <3> DEFINE b == cancel[c].booking
    <3>1. \/ bookings'[b] = "CANCELLED"
              /\ \A a \in Bookings \ {b} : bookings'[a] = bookings[a]
          \/ bookings' = bookings /\ CancelAt(c, "failed")
      BY <2>1, <2>5 DEF TypeOK
    <3>2. /\ \/ cancel'[c].at = "failed"
             \/ cancel'[c].at = "ok" /\ bookings'[b] = "CANCELLED"
          /\ cancel'[c].booking = b
          /\ \A d \in Cancels \ {c} : cancel'[d] = cancel[d]
      BY <1>m, <2>1, <2>5 DEF CancelPlaces, TypeOK
    <3>3. /\ \A a \in Bookings : bookings'[a] = "NONE" <=> bookings[a] = "NONE"
          /\ \A a \in Bookings : bookings[a] = "CANCELLED" => bookings'[a] = "CANCELLED"
          /\ \A a \in Bookings : bookings'[a] = "CANCELLED" =>
                                    a = b \/ bookings[a] = "CANCELLED"
      BY <2>5, <3>1
    <3>4. RowsMatch'
      BY <1>t, <1>b, <2>1, <3>2, <3>3 DEF RowsMatch
    <3>5. CancelledIsReleased'
      BY <1>t, <2>1, <2>5, <3>3 DEF CancelledIsReleased
    <3> QED BY <3>4, <3>5
  <2> QED BY <2>3, <2>4, <2>6 DEF IInv
<1> QED BY <1>1, <1>2, <1>3, <1>4 DEF CancelStep

(* A release answered with success found the reservation active, so nobody  *)
(* had won the booking before.                                              *)
LEMMA ServiceKeeps ==
    ASSUME IInv, NEW m \in wire, Serve(m) \/ Refuse(m), TypeOK'
    PROVE  IInv'
<1>t. TypeOK /\ WireMatches /\ AnswersMatch /\ WinnerReleased /\ OneWinner
      /\ RowsMatch /\ CancelledIsReleased
  BY DEF IInv
<1>0. m \in Request
  BY <1>t DEF TypeOK
<1>1. PICK ok \in BOOLEAN : Answered(m, ok) /\ (ok => Effect(m))
  BY DEF Serve, Refuse
<1>2. reservation' = reservation \/ Effect(m)
  BY DEF Serve, Refuse, seatVars
<1>3. \A b \in Bookings : reservation[b].status = "RELEASED" =>
                              reservation'[b].status = "RELEASED"
  <2>1. m.booking \in Bookings /\ reservation \in
            [Bookings -> Seats!Reservation \cup {Seats!NoReservation}]
    BY <1>t, <1>0 DEF TypeOK, Request
  <2>2. CASE Seats!Release(m.booking)
    <3>1. reservation[m.booking].status # "RELEASED"
      BY <2>2 DEF Seats!Release
    <3> QED BY <2>1, <2>2, <3>1 DEF Seats!Release
  <2>3. CASE Seats!Reserve(m.booking, create[m.booking].flight, create[m.booking].seats)
    <3>1. reservation[m.booking].status # "RELEASED"
      BY <2>3 DEF Seats!Reserve, Seats!CanReserve, Seats!NoReservation
    <3> QED BY <2>1, <2>3, <3>1 DEF Seats!Reserve
  <2> QED BY <1>2, <2>2, <2>3 DEF Effect
<1>4. WireMatches'
  BY <1>t, <1>1 DEF Answered, WireMatches
<1>5. AnswersMatch'
  BY <1>t, <1>1 DEF Answered, AnswersMatch, WireMatches, Won
<1>6. \A c \in Cancels : Won(c)' =>
          \/ Won(c)
          \/ /\ c = m.caller /\ cancel[c].booking = m.booking
             /\ reservation[m.booking].status = "ACTIVE"
             /\ reservation'[m.booking].status = "RELEASED"
  <2> SUFFICES ASSUME NEW c \in Cancels, Won(c)', ~Won(c)
               PROVE  /\ c = m.caller /\ cancel[c].booking = m.booking
                      /\ reservation[m.booking].status = "ACTIVE"
                      /\ reservation'[m.booking].status = "RELEASED"
    OBVIOUS
  <2>1. c = m.caller /\ ok = TRUE
    BY <1>1 DEF Answered, Won
  <2>2. m.op = "ReleaseReservation" /\ cancel[c].booking = m.booking
    BY <1>t, <2>1 DEF WireMatches
  <2>3. Seats!Release(m.booking)
    BY <1>1, <2>1, <2>2 DEF Effect
  <2>4. m.booking \in Bookings /\ reservation[m.booking] \in Seats!Reservation
    BY <1>t, <1>0, <2>3 DEF TypeOK, Request, Seats!Release, Seats!NoReservation
  <2>5. reservation'[m.booking].status = "RELEASED"
    BY <2>3, <2>4 DEF TypeOK, Seats!Release, Seats!Reservation
  <2> QED BY <2>1, <2>2, <2>3, <2>4, <2>5 DEF Seats!Release
<1>7. cancel' = cancel /\ bookings' = bookings /\ create' = create
  BY <1>1 DEF Answered
<1>b. \A c \in Cancels : cancel[c].at # "start" => cancel[c].booking \in Bookings
  BY <1>t DEF TypeOK
<1>8. WinnerReleased'
  BY <1>t, <1>b, <1>3, <1>5, <1>6, <1>7 DEF WinnerReleased, AnswersMatch
<1>9. OneWinner'
  BY <1>t, <1>6, <1>7 DEF OneWinner, WinnerReleased
<1>10. RowsMatch' /\ CancelledIsReleased'
  BY <1>t, <1>3, <1>7 DEF RowsMatch, CancelledIsReleased
<1> QED BY <1>4, <1>5, <1>8, <1>9, <1>10 DEF IInv

LEMMA CrashKeeps == ASSUME IInv, Crash, TypeOK' PROVE IInv'
<1>t. TypeOK /\ WireMatches /\ AnswersMatch /\ WinnerReleased /\ OneWinner
      /\ RowsMatch /\ CancelledIsReleased
  BY DEF IInv
<1>1. /\ UNCHANGED <<reservation, bookings, wire, answers>>
      /\ \A b \in Bookings : create'[b].at \in {create[b].at, "failed"}
      /\ \A c \in Cancels : /\ cancel'[c].at \in {cancel[c].at, "failed"}
                            /\ cancel[c].at = "start" => cancel'[c].at = "start"
                            /\ cancel'[c].booking = cancel[c].booking
  BY DEF Crash, seatVars, TypeOK, Ended
<1>2. \A c \in Cancels : Won(c)' => Won(c)
  BY <1>1 DEF Won
<1>3. WireMatches'
  BY <1>t, <1>1 DEF WireMatches
<1>4. AnswersMatch' /\ WinnerReleased' /\ OneWinner'
  BY <1>t, <1>1, <1>2 DEF AnswersMatch, WinnerReleased, OneWinner
<1>5. RowsMatch' /\ CancelledIsReleased'
  BY <1>t, <1>1 DEF RowsMatch, CancelledIsReleased
<1> QED BY <1>3, <1>4, <1>5 DEF IInv

LEMMA Inductive == Spec => []IInv
<1>1. Init => IInv
  <2> SUFFICES ASSUME Init PROVE IInv
    OBVIOUS
  <2>1. TypeOK
    BY SeatsAssumption, CallersAssumption
    DEF Init, TypeOK, Seats!Init, CreatePlaces, CancelPlaces, Seats!NoReservation
  <2> QED BY <2>1 DEF Init, IInv, Won, WireMatches, AnswersMatch, WinnerReleased,
             OneWinner, RowsMatch, CancelledIsReleased
<1>2. IInv /\ [Next]_vars => IInv'
  <2> SUFFICES ASSUME IInv, [Next]_vars PROVE IInv'
    OBVIOUS
  <2>1. TypeOK'
    BY TypeStep DEF IInv
  <2>2. CASE UNCHANGED vars
    BY <2>1, <2>2 DEF vars, seatVars, IInv, Won, WireMatches, AnswersMatch,
       WinnerReleased, OneWinner, RowsMatch, CancelledIsReleased
  <2> QED BY <2>1, <2>2, CreateStepKeeps, CancelStepKeeps, ServiceKeeps, CrashKeeps
          DEF Next
<1> QED BY <1>1, <1>2, PTL DEF Spec

(* A booking is marked CANCELLED only after its seats went back, whatever   *)
(* call or step of the booking service fails.                               *)
THEOREM SeatsOfCancelledReturn == Spec => []CancelledIsReleased
<1>1. IInv => CancelledIsReleased
  BY DEF IInv
<1> QED BY <1>1, Inductive, PTL

(* What clients are told is true, for any number of concurrent calls: a     *)
(* booking they were given exists, and a booking is cancelled for one       *)
(* client only.                                                             *)
THEOREM ClientsToldTheTruth == Spec => []AnswersAreTrue
<1>1. IInv => AnswersAreTrue
  BY DEF IInv, RowsMatch, OneWinner, Won, AnswersAreTrue
<1> QED BY <1>1, Inductive, PTL
-----------------------------------------------------------------------------
(* Bookings and seats.  What is claimed of a call holds until it is torn.   *)

Asks(x) == \E m \in wire : m.caller = x
Told(x, ok) == [caller |-> x, ok |-> ok] \in answers
Waits(x) ==
    IF x \in Bookings THEN create[x].at \in {"reserving", "compensating"}
                      ELSE cancel[x].at = "releasing"

(* A call has at most one request on the wire or one answer to receive, and *)
(* it waits for it.                                                         *)
OneMessage(x) ==
    /\ Asks(x) \/ Told(x, TRUE) \/ Told(x, FALSE) => Waits(x)
    /\ Asks(x) => ~Told(x, TRUE) /\ ~Told(x, FALSE)
    /\ ~(Told(x, TRUE) /\ Told(x, FALSE))

RequestsMatch ==
    /\ \A m \in wire : m.caller \in Bookings => m.booking = m.caller
    /\ \A m \in wire : m.caller \in Cancels => bookings[m.booking] # "NONE"
    /\ \A c \in Cancels : c \in torn => cancel[c].at # "start"

(* The seats of a booking as its CreateBooking goes on.                     *)
SeatsFollow(b) ==
    LET at == create[b].at
        seats == reservation[b].status
    IN /\ at \in {"start", "reserve"} => seats = "NONE"
       /\ at = "reserving" =>
            /\ \A m \in wire : m.caller = b => m.op = "ReserveSeats"
            /\ Asks(b) \/ Told(b, FALSE) => seats = "NONE"
            /\ Told(b, TRUE) => seats = "ACTIVE"
       /\ at = "insert" => seats = "ACTIVE"
       /\ at = "compensate" => seats = "ACTIVE" /\ bookings[b] = "NONE"
       /\ at = "compensating" =>
            /\ \A m \in wire : m.caller = b => m.op = "ReleaseReservation"
            /\ bookings[b] = "NONE"
            /\ Asks(b) => seats = "ACTIVE"
            /\ Told(b, TRUE) => seats = "RELEASED"
            /\ ~Told(b, FALSE)
       /\ at = "failed" /\ bookings[b] = "NONE" => seats # "ACTIVE"

(* No call for b was torn.                                                  *)
Whole(b) ==
    b \notin torn /\ \A c \in Cancels : cancel[c].booking = b => c \notin torn

(* Seats of a confirmed booking are gone only while the winner is about to  *)
(* mark it.                                                                 *)
WinnerMarks(b) ==
    bookings[b] = "CONFIRMED" /\ Whole(b) =>
        \/ reservation[b].status = "ACTIVE"
        \/ \E c \in Cancels : /\ cancel[c].booking = b /\ Won(c)
                              /\ cancel[c].at \in {"releasing", "update"}

SagaInv ==
    /\ \A x \in Callers \ torn : OneMessage(x)
    /\ RequestsMatch
    /\ \A b \in Bookings \ torn : SeatsFollow(b)
    /\ \A b \in Bookings : WinnerMarks(b)

LEMMA SendFacts ==
    ASSUME NEW op, NEW b, NEW x, Send(op, b, x)
    PROVE  /\ \A y : Asks(y)' <=> Asks(y) \/ y = x
           /\ answers' = answers
           /\ \A m \in wire' : \/ m \in wire
                               \/ m.op = op /\ m.booking = b /\ m.caller = x
<1>1. /\ wire' = wire \cup {[op |-> op, booking |-> b, caller |-> x]}
      /\ answers' = answers
  BY DEF Send
<1>2. ASSUME NEW y PROVE Asks(y)' <=> Asks(y) \/ y = x
  <2>1. [op |-> op, booking |-> b, caller |-> x].caller = x
    OBVIOUS
  <2>2. CASE y = x
    BY <1>1, <2>1, <2>2 DEF Asks
  <2>3. CASE y # x
    BY <1>1, <2>1, <2>3 DEF Asks
  <2>. QED BY <2>2, <2>3
<1>. QED BY <1>1, <1>2

LEMMA ReceivedFacts ==
    ASSUME NEW x, NEW ok, Received(x, ok)
    PROVE  /\ Told(x, ok)
           /\ \A y, o : Told(y, o)' <=> Told(y, o) /\ ~(y = x /\ o = ok)
           /\ wire' = wire
<1>1. /\ [caller |-> x, ok |-> ok] \in answers /\ wire' = wire
      /\ answers' = answers \ {[caller |-> x, ok |-> ok]}
  BY DEF Received
<1>2. ASSUME NEW y, NEW o
      PROVE  Told(y, o)' <=> Told(y, o) /\ ~(y = x /\ o = ok)
  <2>1. [caller |-> y, ok |-> o] = [caller |-> x, ok |-> ok] <=> y = x /\ o = ok
    <3>1. /\ [caller |-> y, ok |-> o].caller = y /\ [caller |-> y, ok |-> o].ok = o
          /\ [caller |-> x, ok |-> ok].caller = x
          /\ [caller |-> x, ok |-> ok].ok = ok
      OBVIOUS
    <3>. QED BY <3>1
  <2>. QED BY <1>1, <2>1 DEF Told
<1>. QED BY <1>1, <1>2 DEF Told

LEMMA AnsweredFacts ==
    ASSUME NEW m \in wire, NEW ok, Answered(m, ok)
    PROVE  /\ \A y : y # m.caller => (Asks(y)' <=> Asks(y))
           /\ \A y, o : Told(y, o)' <=> Told(y, o) \/ (y = m.caller /\ o = ok)
           /\ wire' = wire \ {m}
           /\ UNCHANGED <<bookings, create, cancel>>
<1>1. /\ wire' = wire \ {m} /\ UNCHANGED <<bookings, create, cancel>>
      /\ answers' = answers \cup {[caller |-> m.caller, ok |-> ok]}
  BY DEF Answered
<1>2. ASSUME NEW y, NEW o
      PROVE  Told(y, o)' <=> Told(y, o) \/ (y = m.caller /\ o = ok)
  <2>1. [caller |-> y, ok |-> o] = [caller |-> m.caller, ok |-> ok]
           <=> y = m.caller /\ o = ok
    <3>1. /\ [caller |-> y, ok |-> o].caller = y /\ [caller |-> y, ok |-> o].ok = o
          /\ [caller |-> m.caller, ok |-> ok].caller = m.caller
          /\ [caller |-> m.caller, ok |-> ok].ok = ok
      OBVIOUS
    <3>. QED BY <3>1
  <2>. QED BY <1>1, <2>1 DEF Told
<1>3. ASSUME NEW y, y # m.caller PROVE Asks(y)' <=> Asks(y)
  BY <1>1, <1>3 DEF Asks
<1>. QED BY <1>1, <1>2, <1>3

LEMMA SagaInitially == Init => SagaInv
<1>. SUFFICES ASSUME Init PROVE SagaInv
  OBVIOUS
<1>1. \A x : ~Asks(x) /\ \A ok : ~Told(x, ok)
  BY DEF Init, Asks, Told
<1>2. \A b \in Bookings : create[b].at = "start" /\ bookings[b] = "NONE"
                          /\ reservation[b].status = "NONE"
  BY DEF Init, Seats!Init, Seats!NoReservation
<1>3. \A x : OneMessage(x)
  BY <1>1 DEF OneMessage
<1>4. RequestsMatch
  BY DEF Init, RequestsMatch
<1>5. \A b \in Bookings : SeatsFollow(b) /\ WinnerMarks(b)
  BY <1>2 DEF SeatsFollow, WinnerMarks
<1>. QED BY <1>3, <1>4, <1>5 DEF SagaInv

(* What a step of a call leaves as it is, for the calls and bookings it is  *)
(* not about.                                                               *)
LEMMA OthersKeepMessages ==
    ASSUME SagaInv, torn \subseteq torn',
           NEW y \in Callers \ torn',
           Asks(y)' <=> Asks(y),
           \A ok \in BOOLEAN : Told(y, ok)' <=> Told(y, ok),
           Waits(y)' <=> Waits(y)
    PROVE  OneMessage(y)'
<1>1. OneMessage(y)
  BY DEF SagaInv
<1>2. (Told(y, TRUE)' <=> Told(y, TRUE)) /\ (Told(y, FALSE)' <=> Told(y, FALSE))
  OBVIOUS
<1>. QED BY <1>1, <1>2 DEF OneMessage

LEMMA OthersKeepSeats ==
    ASSUME SagaInv, torn \subseteq torn',
           NEW a \in Bookings \ torn',
           create'[a].at = create[a].at,
           reservation'[a].status = reservation[a].status,
           bookings'[a] = "NONE" <=> bookings[a] = "NONE",
           Asks(a)' <=> Asks(a),
           \A ok \in BOOLEAN : Told(a, ok)' <=> Told(a, ok),
           \A m \in wire' : m.caller = a => m \in wire
    PROVE  SeatsFollow(a)'
<1>1. SeatsFollow(a)
  BY DEF SagaInv
<1>2. (Told(a, TRUE)' <=> Told(a, TRUE)) /\ (Told(a, FALSE)' <=> Told(a, FALSE))
  OBVIOUS
<1>. QED BY <1>1, <1>2 DEF SeatsFollow

LEMMA OthersKeepMarks ==
    ASSUME SagaInv, torn \subseteq torn',
           NEW a \in Bookings,
           bookings'[a] = bookings[a],
           reservation'[a].status = reservation[a].status,
           cancel' = cancel,
           \A c \in Cancels : Won(c) => Won(c)'
    PROVE  WinnerMarks(a)'
<1>1. WinnerMarks(a)
  BY DEF SagaInv
<1>. QED BY <1>1 DEF WinnerMarks, Whole

LEMMA CreateStepSettles ==
    ASSUME IInv, SagaInv, NEW b \in Bookings, CreateStep(b), TypeOK'
    PROVE  SagaInv'
<1>t. TypeOK /\ RowsMatch
  BY DEF IInv
<1>i. /\ RequestsMatch
      /\ \A x \in Callers \ torn : OneMessage(x)
      /\ \A a \in Bookings \ torn : SeatsFollow(a)
      /\ \A a \in Bookings : WinnerMarks(a)
  BY DEF SagaInv
<1>0. b \in Callers /\ b \notin Cancels
  BY CallersAssumption DEF Callers
<1>1. /\ cancel' = cancel /\ reservation' = reservation
      /\ torn' \in {torn, torn \cup {b}}
  <2>1. cancel' = cancel /\ reservation' = reservation
    BY DEF CreateStep, GetFlight, CallReserveSeats, ReserveReturns, InsertBooking,
       CallCompensation, CompensationReturns, FetchCreated, seatVars
  <2>2. torn' \in {torn, torn \cup {b}}
    BY DEF CreateStep, GetFlight, CallReserveSeats, ReserveReturns, InsertBooking,
       CallCompensation, CompensationReturns, FetchCreated, NoFault, Fault,
       CleanFault
  <2>. QED BY <2>1, <2>2
<1>2. \/ UNCHANGED <<wire, answers>>
      \/ \E ok \in BOOLEAN : Received(b, ok)
      \/ \E op \in {"ReserveSeats", "ReleaseReservation"} : Send(op, b, b)
  BY DEF CreateStep, GetFlight, CallReserveSeats, ReserveReturns, InsertBooking,
     CallCompensation, CompensationReturns, FetchCreated
<1>3. /\ \A y : y # b => (Asks(y)' <=> Asks(y))
      /\ \A y : y # b => \A ok \in BOOLEAN : Told(y, ok)' <=> Told(y, ok)
      /\ \A m \in wire' : m \in wire \/ (m.caller = b /\ m.booking = b)
  <2>1. CASE UNCHANGED <<wire, answers>>
    BY <2>1 DEF Asks, Told
  <2>2. ASSUME NEW ok \in BOOLEAN, Received(b, ok)
        PROVE  <1>3
    BY <2>2, ReceivedFacts DEF Asks
  <2>3. ASSUME NEW op, Send(op, b, b)
        PROVE  <1>3
    BY <2>3, SendFacts DEF Told
  <2>. QED BY <1>2, <2>1, <2>2, <2>3
<1>4. /\ \A a \in Bookings \ {b} : create'[a] = create[a] /\ bookings'[a] = bookings[a]
      /\ bookings'[b] # bookings[b] =>
            create[b].at = "insert" /\ bookings'[b] = "CONFIRMED"
  <2>1. \E l \in CreatePlaces : CreateAt(b, l)
    BY DEF CreateStep, GetFlight, CallReserveSeats, ReserveReturns, InsertBooking,
       CallCompensation, CompensationReturns, FetchCreated, CreatePlaces
  <2>2. \/ bookings' = bookings
        \/ /\ create[b].at = "insert"
           /\ bookings' = [bookings EXCEPT ![b] = "CONFIRMED"]
    BY DEF CreateStep, GetFlight, CallReserveSeats, ReserveReturns, InsertBooking,
       CallCompensation, CompensationReturns, FetchCreated
  <2>3. \A a \in Bookings \ {b} : create'[a] = create[a]
    BY <1>t, <2>1, Moves
  <2>. QED BY <1>t, <2>2, <2>3 DEF TypeOK
<1>5. RequestsMatch'
  <2>1. \A a \in Bookings : bookings[a] # "NONE" => bookings'[a] # "NONE"
    BY <1>t, <1>4 DEF RowsMatch
  <2>2. \A m \in wire : m.booking \in Bookings
    BY <1>t DEF TypeOK, Request
  <2>. QED BY <1>0, <1>1, <1>3, <1>i, <2>1, <2>2 DEF RequestsMatch
<1>6. ASSUME NEW y \in Callers \ torn', y # b
      PROVE  OneMessage(y)'
  <2>1. Waits(y)' <=> Waits(y)
    BY <1>1, <1>4, <1>6 DEF Waits
  <2>. QED BY <1>1, <1>3, <1>6, <2>1, OthersKeepMessages
<1>7. ASSUME NEW a \in Bookings \ torn', a # b
      PROVE  SeatsFollow(a)'
  BY <1>1, <1>3, <1>4, <1>7, OthersKeepSeats
<1>8. \A c \in Cancels : Won(c) => Won(c)'
  BY <1>0, <1>1, <1>3 DEF Won, Told
<1>9. ASSUME NEW a \in Bookings
      PROVE  WinnerMarks(a)'
  <2>1. CASE bookings'[a] = bookings[a]
    BY <1>1, <1>8, <2>1, OthersKeepMarks
  <2>2. CASE bookings'[a] # bookings[a]
    <3>1. a = b /\ create[b].at = "insert"
      BY <1>4, <2>2
    <3>2. b \notin torn => reservation[b].status = "ACTIVE"
      BY <1>i, <3>1 DEF SeatsFollow
    <3>. QED BY <1>1, <3>1, <3>2 DEF WinnerMarks, Whole
  <2>. QED BY <2>1, <2>2
<1>m. \A l \in CreatePlaces : CreateAt(b, l) => create'[b].at = l
  BY <1>t, Moves
<1>10. ASSUME b \notin torn'
       PROVE  OneMessage(b)' /\ SeatsFollow(b)'
  <2>0. OneMessage(b) /\ SeatsFollow(b)
    BY <1>0, <1>1, <1>10, <1>i
  <2>u. ASSUME UNCHANGED <<wire, answers>>
        PROVE  /\ Asks(b)' <=> Asks(b)
               /\ \A ok : Told(b, ok)' <=> Told(b, ok)
    BY <2>u DEF Asks, Told
  <2>f. ~Fault(b)
    BY <1>10 DEF Fault
  <2>1. CASE GetFlight(b)
    <3>1. /\ create[b].at = "start" /\ UNCHANGED <<wire, answers, bookings>>
          /\ create'[b].at \in {"reserve", "failed"}
      BY <2>1, <1>m DEF GetFlight, CreatePlaces
    <3>. QED BY <3>1, <2>0, <2>u, <1>1 DEF OneMessage, SeatsFollow, Waits
  <2>2. CASE CallReserveSeats(b)
    <3>1. /\ create[b].at = "reserve" /\ UNCHANGED bookings
          /\ create'[b].at = "reserving" /\ Send("ReserveSeats", b, b)
      BY <2>2, <1>m DEF CallReserveSeats, CreatePlaces
    <3>2. ~Asks(b) /\ ~Told(b, TRUE) /\ ~Told(b, FALSE)
      BY <2>0, <3>1 DEF OneMessage, Waits
    <3>3. /\ ~Told(b, TRUE)' /\ ~Told(b, FALSE)'
          /\ \A m \in wire' : m.caller = b => m.op = "ReserveSeats"
      BY <3>1, <3>2, SendFacts DEF Told, Asks
    <3>4. reservation'[b].status = "NONE"
      BY <2>0, <3>1, <1>1 DEF SeatsFollow
    <3>. QED BY <3>1, <3>3, <3>4 DEF OneMessage, SeatsFollow, Waits
  <2>3. CASE ReserveReturns(b)
    <3>1. /\ create[b].at = "reserving" /\ UNCHANGED bookings
          /\ \/ Received(b, TRUE) /\ create'[b].at = "insert"
             \/ Received(b, FALSE) /\ create'[b].at = "failed"
      BY <2>3, <2>f, <1>m DEF ReserveReturns, CreatePlaces
    <3>2. PICK ok \in BOOLEAN :
             /\ Received(b, ok)
             /\ create'[b].at = IF ok THEN "insert" ELSE "failed"
      BY <3>1
    <3>3. /\ Told(b, ok) /\ wire' = wire
          /\ \A o : Told(b, o)' <=> Told(b, o) /\ o # ok
      BY <3>2, ReceivedFacts
    <3>4. ~Asks(b)' /\ ~Told(b, TRUE)' /\ ~Told(b, FALSE)'
      BY <2>0, <3>3 DEF OneMessage, Asks
    <3>5. reservation'[b].status = IF ok THEN "ACTIVE" ELSE "NONE"
      BY <2>0, <3>1, <3>3, <1>1 DEF SeatsFollow
    <3>. QED BY <3>2, <3>4, <3>5 DEF OneMessage, SeatsFollow
  <2>4. CASE InsertBooking(b)
    <3>1. /\ create[b].at = "insert" /\ UNCHANGED <<wire, answers>>
          /\ \/ create'[b].at = "fetch"
             \/ create'[b].at = "compensate" /\ bookings' = bookings
      BY <2>4, <2>f, <1>m DEF InsertBooking, CreatePlaces
    <3>2. bookings[b] = "NONE"
      BY <1>t, <3>1 DEF RowsMatch
    <3>. QED BY <3>1, <3>2, <2>0, <2>u, <1>1 DEF OneMessage, SeatsFollow, Waits
  <2>5. CASE CallCompensation(b)
    <3>1. /\ create[b].at = "compensate" /\ UNCHANGED bookings
          /\ create'[b].at = "compensating" /\ Send("ReleaseReservation", b, b)
      BY <2>5, <2>f, <1>m DEF CallCompensation, CreatePlaces
    <3>2. ~Asks(b) /\ ~Told(b, TRUE) /\ ~Told(b, FALSE)
      BY <2>0, <3>1 DEF OneMessage, Waits
    <3>3. /\ ~Told(b, TRUE)' /\ ~Told(b, FALSE)'
          /\ \A m \in wire' : m.caller = b => m.op = "ReleaseReservation"
      BY <3>1, <3>2, SendFacts DEF Told, Asks
    <3>4. reservation'[b].status = "ACTIVE" /\ bookings'[b] = "NONE"
      BY <2>0, <3>1, <1>1 DEF SeatsFollow
    <3>. QED BY <3>1, <3>3, <3>4 DEF OneMessage, SeatsFollow, Waits
  <2>6. CASE CompensationReturns(b)
    <3>1. PICK ok \in BOOLEAN :
             /\ create[b].at = "compensating" /\ UNCHANGED bookings
             /\ create'[b].at = "failed" /\ Received(b, ok)
      BY <2>6, <2>f, <1>m DEF CompensationReturns, CreatePlaces
    <3>3. /\ Told(b, ok) /\ wire' = wire
          /\ \A o : Told(b, o)' <=> Told(b, o) /\ o # ok
      BY <3>1, ReceivedFacts
    <3>4. ~Asks(b)' /\ ~Told(b, TRUE)' /\ ~Told(b, FALSE)'
      BY <2>0, <3>3 DEF OneMessage, Asks
    <3>5. reservation'[b].status = "RELEASED"
      BY <2>0, <3>1, <3>3, <1>1 DEF SeatsFollow
    <3>. QED BY <3>1, <3>4, <3>5 DEF OneMessage, SeatsFollow
  <2>7. CASE FetchCreated(b)
    <3>1. /\ create[b].at = "fetch" /\ UNCHANGED <<wire, answers, bookings>>
          /\ create'[b].at \in {"ok", "failed"}
      BY <2>7, <1>m DEF FetchCreated, CreatePlaces
    <3>2. bookings[b] # "NONE"
      BY <1>t, <3>1 DEF RowsMatch
    <3>. QED BY <3>1, <3>2, <2>0, <2>u, <1>1 DEF OneMessage, SeatsFollow, Waits
  <2>. QED BY <2>1, <2>2, <2>3, <2>4, <2>5, <2>6, <2>7 DEF CreateStep
<1>11. \A x \in Callers \ torn' : OneMessage(x)'
  BY <1>6, <1>10 DEF Callers
<1>12. \A a \in Bookings \ torn' : SeatsFollow(a)'
  BY <1>7, <1>10
<1>. QED BY <1>5, <1>9, <1>11, <1>12 DEF SagaInv

LEMMA CancelStepSettles ==
    ASSUME IInv, SagaInv, NEW c \in Cancels, CancelStep(c), TypeOK'
    PROVE  SagaInv'
<1>t. TypeOK /\ RowsMatch
  BY DEF IInv
<1>i. /\ RequestsMatch
      /\ \A x \in Callers \ torn : OneMessage(x)
      /\ \A a \in Bookings \ torn : SeatsFollow(a)
      /\ \A a \in Bookings : WinnerMarks(a)
  BY DEF SagaInv
<1>0. c \in Callers /\ c \notin Bookings
  BY CallersAssumption DEF Callers
<1>1. /\ create' = create /\ reservation' = reservation
      /\ torn' \in {torn, torn \cup {c}}
  <2>1. create' = create /\ reservation' = reservation
    BY DEF CancelStep, GetBooking, CallRelease, ReleaseReturns, UpdateStatus,
       seatVars
  <2>2. torn' \in {torn, torn \cup {c}}
    BY DEF CancelStep, GetBooking, CallRelease, ReleaseReturns, UpdateStatus,
       NoFault, Fault, CleanFault
  <2>. QED BY <2>1, <2>2
<1>m. \A l \in CancelPlaces : CancelAt(c, l) =>
          /\ cancel'[c].at = l
          /\ cancel'[c].booking = cancel[c].booking
          /\ \A d \in Cancels \ {c} : cancel'[d] = cancel[d]
  BY <1>t, Moves
(* The four steps in short.                                                 *)
<1>2. \/ /\ cancel[c].at = "start" /\ UNCHANGED <<wire, answers, bookings, torn>>
         /\ cancel'[c].at \in {"release", "failed"}
      \/ /\ cancel[c].at = "release" /\ UNCHANGED <<bookings, torn>>
         /\ Send("ReleaseReservation", cancel[c].booking, c)
         /\ cancel'[c].at = "releasing"
         /\ cancel'[c].booking = cancel[c].booking
      \/ /\ cancel[c].at = "releasing" /\ UNCHANGED bookings
         /\ cancel'[c].booking = cancel[c].booking
         /\ \/ \E ok \in BOOLEAN :
                  /\ Received(c, ok) /\ UNCHANGED torn
                  /\ cancel'[c].at = IF ok THEN "update" ELSE "failed"
            \/ /\ c \in torn' /\ UNCHANGED <<wire, answers>>
               /\ cancel'[c].at = "failed"
      \/ /\ cancel[c].at = "update" /\ UNCHANGED <<wire, answers>>
         /\ cancel'[c].at \in {"ok", "failed"}
         /\ cancel'[c].booking = cancel[c].booking
         /\ \/ bookings' = [bookings EXCEPT ![cancel[c].booking] = "CANCELLED"]
            \/ bookings' = bookings /\ c \in torn'
  <2>1. CASE GetBooking(c)
    <3>1. PICK b \in Bookings, l \in {"release", "failed"} :
            cancel' = [cancel EXCEPT ![c] = [at |-> l, booking |-> b]]
      BY <2>1 DEF GetBooking
    <3>2. cancel'[c].at = l
      BY <3>1, <1>t DEF TypeOK
    <3>. QED BY <2>1, <3>2 DEF GetBooking, NoFault
  <2>2. CASE CallRelease(c)
    BY <2>2, <1>m DEF CallRelease, CancelPlaces, NoFault
  <2>3. CASE ReleaseReturns(c)
    <3>1. CASE Received(c, TRUE) /\ CancelAt(c, "update") /\ NoFault
      <4>1. cancel'[c].at = "update" /\ cancel'[c].booking = cancel[c].booking
        BY <3>1, <1>m DEF CancelPlaces
      <4>. QED BY <2>3, <3>1, <4>1 DEF ReleaseReturns, NoFault
    <3>2. CASE Received(c, FALSE) /\ CancelAt(c, "failed") /\ NoFault
      <4>1. cancel'[c].at = "failed" /\ cancel'[c].booking = cancel[c].booking
        BY <3>2, <1>m DEF CancelPlaces
      <4>. QED BY <2>3, <3>2, <4>1 DEF ReleaseReturns, NoFault
    <3>3. CASE Fault(c) /\ CancelAt(c, "failed") /\ UNCHANGED <<wire, answers>>
      <4>1. cancel'[c].at = "failed" /\ cancel'[c].booking = cancel[c].booking
        BY <3>3, <1>m DEF CancelPlaces
      <4>. QED BY <2>3, <3>3, <4>1 DEF ReleaseReturns, Fault
    <3>. QED BY <2>3, <3>1, <3>2, <3>3 DEF ReleaseReturns
  <2>4. CASE UpdateStatus(c)
    BY <2>4, <1>m DEF UpdateStatus, CancelPlaces, Fault
  <2>. QED BY <2>1, <2>2, <2>3, <2>4 DEF CancelStep
<1>3. \A d \in Cancels \ {c} : cancel'[d] = cancel[d]
  <2>1. \/ \E l \in CancelPlaces : CancelAt(c, l)
        \/ \E b \in Bookings, l \in CancelPlaces :
              cancel' = [cancel EXCEPT ![c] = [at |-> l, booking |-> b]]
    BY DEF CancelStep, GetBooking, CallRelease, ReleaseReturns, UpdateStatus,
       CancelPlaces
  <2>. QED BY <1>t, <1>m, <2>1 DEF TypeOK
<1>4. /\ \A y : y # c => (Asks(y)' <=> Asks(y))
      /\ \A y : y # c => \A ok \in BOOLEAN : Told(y, ok)' <=> Told(y, ok)
      /\ \A m \in wire' :
            \/ m \in wire
            \/ /\ m.caller = c /\ m.booking = cancel[c].booking
               /\ cancel[c].at = "release"
  <2>1. CASE UNCHANGED <<wire, answers>>
    BY <2>1 DEF Asks, Told
  <2>2. ASSUME NEW ok \in BOOLEAN, Received(c, ok)
        PROVE  <1>4
    BY <2>2, ReceivedFacts DEF Asks
  <2>3. ASSUME Send("ReleaseReservation", cancel[c].booking, c),
               cancel[c].at = "release"
        PROVE  <1>4
    BY <2>3, SendFacts DEF Told
  <2>. QED BY <1>2, <2>1, <2>2, <2>3
<1>5. \A a \in Bookings : /\ bookings'[a] = "NONE" <=> bookings[a] = "NONE"
                          /\ bookings'[a] \in {bookings[a], "CANCELLED"}
  <2>1. CASE bookings' = bookings
    BY <2>1
  <2>2. CASE /\ cancel[c].at = "update"
             /\ bookings' = [bookings EXCEPT ![cancel[c].booking] = "CANCELLED"]
    <3>1. cancel[c].booking \in Bookings /\ bookings[cancel[c].booking] # "NONE"
      BY <1>t, <2>2 DEF TypeOK, RowsMatch
    <3>. QED BY <1>t, <2>2, <3>1 DEF TypeOK
  <2>. QED BY <1>2, <2>1, <2>2
<1>6. RequestsMatch'
  <2>1. \A m \in wire' : m.booking \in Bookings
    BY DEF TypeOK, Request
  <2>2. ASSUME NEW m \in wire', m.caller \in Cancels
        PROVE  bookings'[m.booking] # "NONE"
    <3>1. CASE m \in wire
      BY <1>5, <1>i, <2>1, <2>2, <3>1 DEF RequestsMatch
    <3>2. CASE m \notin wire
      <4>1. m.booking = cancel[c].booking /\ bookings[m.booking] # "NONE"
        BY <1>t, <1>4, <3>2 DEF RowsMatch
      <4>. QED BY <1>5, <2>1, <4>1
    <3>. QED BY <3>1, <3>2
  <2>3. ASSUME NEW m \in wire', m.caller \in Bookings
        PROVE  m.booking = m.caller
    BY <1>0, <1>4, <1>i, <2>3 DEF RequestsMatch
  <2>4. ASSUME NEW d \in Cancels, d \in torn'
        PROVE  cancel'[d].at # "start"
    BY <1>1, <1>2, <1>3, <1>i, <2>4 DEF RequestsMatch
  <2>. QED BY <2>2, <2>3, <2>4 DEF RequestsMatch
<1>7. ASSUME NEW y \in Callers \ torn', y # c
      PROVE  OneMessage(y)'
  <2>1. Waits(y)' <=> Waits(y)
    BY <1>1, <1>3, <1>7 DEF Waits, Callers
  <2>. QED BY <1>1, <1>4, <1>7, <2>1, OthersKeepMessages
<1>8. ASSUME NEW a \in Bookings \ torn'
      PROVE  SeatsFollow(a)'
  BY <1>0, <1>1, <1>4, <1>5, <1>8, OthersKeepSeats
<1>9. ASSUME c \notin torn'
      PROVE  OneMessage(c)'
  <2>0. OneMessage(c)
    BY <1>0, <1>1, <1>9, <1>i
  <2>u. ASSUME UNCHANGED <<wire, answers>>
        PROVE  /\ Asks(c)' <=> Asks(c)
               /\ \A ok : Told(c, ok)' <=> Told(c, ok)
    BY <2>u DEF Asks, Told
  <2>1. CASE UNCHANGED <<wire, answers>> /\ cancel[c].at # "releasing"
    BY <2>0, <2>1, <2>u, <1>0 DEF OneMessage, Waits
  <2>2. ASSUME NEW ok \in BOOLEAN, Received(c, ok)
        PROVE  OneMessage(c)'
    <3>1. /\ Told(c, ok) /\ wire' = wire
          /\ \A o : Told(c, o)' <=> Told(c, o) /\ o # ok
      BY <2>2, ReceivedFacts
    <3>2. ~Asks(c)' /\ ~Told(c, TRUE)' /\ ~Told(c, FALSE)'
      BY <2>0, <3>1 DEF OneMessage, Asks
    <3>. QED BY <3>2 DEF OneMessage
  <2>3. CASE /\ cancel[c].at = "release" /\ cancel'[c].at = "releasing"
             /\ Send("ReleaseReservation", cancel[c].booking, c)
    <3>1. ~Asks(c) /\ ~Told(c, TRUE) /\ ~Told(c, FALSE)
      BY <1>0, <2>0, <2>3 DEF OneMessage, Waits
    <3>2. ~Told(c, TRUE)' /\ ~Told(c, FALSE)'
      BY <2>3, <3>1, SendFacts DEF Told
    <3>. QED BY <1>0, <2>3, <3>2 DEF OneMessage, Waits
  <2>. QED BY <1>2, <1>9, <2>1, <2>2, <2>3
<1>10. ASSUME NEW a \in Bookings
       PROVE  WinnerMarks(a)'
  <2>. SUFFICES ASSUME bookings'[a] = "CONFIRMED", Whole(a)',
                       reservation[a].status # "ACTIVE"
                PROVE  \E d \in Cancels :
                          /\ cancel'[d].booking = a /\ Won(d)'
                          /\ cancel'[d].at \in {"releasing", "update"}
    BY <1>1 DEF WinnerMarks
  <2>1. bookings[a] = "CONFIRMED"
    BY <1>5
  <2>2. Whole(a)
    <3>1. cancel[c].booking = a => c \notin torn
      <4>1. CASE cancel[c].at = "start"
        BY <1>i, <4>1 DEF RequestsMatch
      <4>2. CASE cancel[c].at # "start"
        BY <1>1, <1>2, <4>2 DEF Whole
      <4>. QED BY <4>1, <4>2
    <3>. QED BY <1>1, <1>3, <3>1 DEF Whole
  <2>3. PICK d \in Cancels : /\ cancel[d].booking = a /\ Won(d)
                             /\ cancel[d].at \in {"releasing", "update"}
    BY <1>i, <2>1, <2>2 DEF WinnerMarks
  <2>4. CASE d # c
    <3>1. Won(d)'
      BY <1>3, <1>4, <2>3, <2>4 DEF Won, Told
    <3>. QED BY <1>3, <2>3, <2>4, <3>1
  <2>5. CASE d = c
    <3>1. cancel'[c].booking = a
      BY <1>2, <2>3, <2>5
    <3>2. c \notin torn'
      BY <3>1 DEF Whole
    <3>3. CASE cancel[c].at = "releasing"
      <4>1. PICK ok \in BOOLEAN :
               /\ Received(c, ok)
               /\ cancel'[c].at = IF ok THEN "update" ELSE "failed"
        BY <1>2, <3>2, <3>3
      <4>2. Told(c, TRUE) /\ Told(c, ok)
        BY <2>3, <2>5, <3>3, <4>1, ReceivedFacts DEF Won, Told
      <4>3. ok = TRUE
        BY <1>0, <1>1, <1>i, <3>2, <4>2 DEF OneMessage
      <4>4. cancel'[c].at = "update" /\ Won(c)'
        BY <4>1, <4>3 DEF Won
      <4>. QED BY <3>1, <4>4
    <3>4. CASE cancel[c].at = "update"
      <4>1. bookings' = [bookings EXCEPT ![a] = "CANCELLED"]
        BY <1>2, <2>3, <2>5, <3>2, <3>4
      <4>. QED BY <1>t, <4>1 DEF TypeOK
    <3>. QED BY <2>3, <2>5, <3>3, <3>4
  <2>. QED BY <2>4, <2>5
<1>11. \A x \in Callers \ torn' : OneMessage(x)'
  BY <1>7, <1>9
<1>. QED BY <1>6, <1>8, <1>10, <1>11 DEF SagaInv

(* What serving or refusing m does to the seats and to the caller.          *)
LEMMA Served ==
    ASSUME TypeOK, NEW m \in wire, Serve(m) \/ Refuse(m)
    PROVE  \E ok \in BOOLEAN :
              /\ Answered(m, ok)
              /\ torn' \in {torn, torn \cup {m.caller}}
              /\ \A a \in Bookings : a # m.booking => reservation'[a] = reservation[a]
              /\ \/ /\ reservation' = reservation /\ ~ok
                    /\ \/ m.caller \in torn'
                       \/ m.op = "ReserveSeats"
                       \/ m.caller \notin Bookings
                       \/ reservation[m.booking].status # "ACTIVE"
                 \/ /\ m.op = "ReserveSeats"
                    /\ reservation[m.booking].status = "NONE"
                    /\ reservation'[m.booking].status = "ACTIVE"
                    /\ ok \/ m.caller \in torn'
                 \/ /\ m.op = "ReleaseReservation"
                    /\ reservation[m.booking].status = "ACTIVE"
                    /\ reservation'[m.booking].status = "RELEASED"
                    /\ ok \/ m.caller \in torn'
<1>0. /\ m.op \in {"ReserveSeats", "ReleaseReservation"} /\ m.booking \in Bookings
      /\ reservation \in [Bookings -> Seats!Reservation \cup {Seats!NoReservation}]
  BY DEF TypeOK, Request
<1>1. ASSUME Effect(m)
      PROVE  /\ \A a \in Bookings : a # m.booking => reservation'[a] = reservation[a]
             /\ \/ /\ m.op = "ReserveSeats"
                   /\ reservation[m.booking].status = "NONE"
                   /\ reservation'[m.booking].status = "ACTIVE"
                \/ /\ m.op = "ReleaseReservation"
                   /\ reservation[m.booking].status = "ACTIVE"
                   /\ reservation'[m.booking].status = "RELEASED"
  <2>1. CASE /\ m.op = "ReserveSeats"
             /\ Seats!Reserve(m.booking, create[m.booking].flight,
                              create[m.booking].seats)
    BY <1>0, <2>1 DEF Seats!Reserve, Seats!CanReserve, Seats!NoReservation
  <2>2. CASE m.op = "ReleaseReservation" /\ Seats!Release(m.booking)
    <3>1. reservation[m.booking].status = "ACTIVE"
      BY <2>2 DEF Seats!Release
    <3>2. reservation[m.booking] \in Seats!Reservation
      BY <1>0, <3>1 DEF Seats!NoReservation
    <3>3. reservation'[m.booking] = [reservation[m.booking] EXCEPT !.status = "RELEASED"]
      BY <1>0, <2>2 DEF Seats!Release
    <3>4. reservation'[m.booking].status = "RELEASED"
      BY <3>2, <3>3 DEF Seats!Reservation
    <3>. QED BY <1>0, <2>2, <3>1, <3>4 DEF Seats!Release
  <2>. QED BY <1>1, <2>1, <2>2 DEF Effect
<1>2. CASE Effect(m) /\ Answered(m, TRUE) /\ NoFault
  BY <1>1, <1>2 DEF NoFault
<1>3. CASE Effect(m) /\ Answered(m, FALSE) /\ Fault(m.caller)
  BY <1>1, <1>3 DEF Fault
<1>4. CASE ~Possible(m) /\ UNCHANGED seatVars /\ Answered(m, FALSE) /\ NoFault
  <2>1. m.op = "ReserveSeats" \/ reservation[m.booking].status # "ACTIVE"
    BY <1>4 DEF Possible
  <2>. QED BY <1>4, <2>1 DEF seatVars, NoFault
<1>5. CASE Refuse(m)
  <2>1. /\ Answered(m, FALSE) /\ reservation' = reservation
        /\ IF m.caller \in Bookings /\ m.op = "ReleaseReservation"
           THEN Fault(m.caller) ELSE CleanFault
    BY <1>5 DEF Refuse, seatVars
  <2>2. CASE m.caller \in Bookings /\ m.op = "ReleaseReservation"
    BY <2>1, <2>2 DEF Fault
  <2>3. CASE ~(m.caller \in Bookings /\ m.op = "ReleaseReservation")
    BY <1>0, <2>1, <2>3 DEF CleanFault
  <2>. QED BY <2>2, <2>3
<1>. QED BY <1>2, <1>3, <1>4, <1>5 DEF Serve

LEMMA ServiceSettles ==
    ASSUME IInv, SagaInv, NEW m \in wire, Serve(m) \/ Refuse(m), TypeOK'
    PROVE  SagaInv'
<1>t. TypeOK /\ RowsMatch /\ WireMatches
  BY DEF IInv
<1>i. /\ RequestsMatch
      /\ \A y \in Callers \ torn : OneMessage(y)
      /\ \A a \in Bookings \ torn : SeatsFollow(a)
      /\ \A a \in Bookings : WinnerMarks(a)
  BY DEF SagaInv
<1>. DEFINE x == m.caller
            b == m.booking
<1>0. /\ wire \subseteq Request /\ b \in Bookings /\ x \in Callers
      /\ m.op \in {"ReserveSeats", "ReleaseReservation"}
  BY <1>t DEF TypeOK, Request
<1>1. PICK ok \in BOOLEAN :
         /\ Answered(m, ok)
         /\ torn' \in {torn, torn \cup {x}}
         /\ \A a \in Bookings : a # b => reservation'[a] = reservation[a]
         /\ \/ /\ reservation' = reservation /\ ~ok
               /\ \/ x \in torn' \/ m.op = "ReserveSeats" \/ x \notin Bookings
                  \/ reservation[b].status # "ACTIVE"
            \/ /\ m.op = "ReserveSeats"
               /\ reservation[b].status = "NONE" /\ reservation'[b].status = "ACTIVE"
               /\ ok \/ x \in torn'
            \/ /\ m.op = "ReleaseReservation"
               /\ reservation[b].status = "ACTIVE"
               /\ reservation'[b].status = "RELEASED"
               /\ ok \/ x \in torn'
  BY <1>t, Served
<1>2. /\ \A y : y # x => (Asks(y)' <=> Asks(y))
      /\ \A y, o : Told(y, o)' <=> Told(y, o) \/ (y = x /\ o = ok)
      /\ wire' = wire \ {m}
      /\ UNCHANGED <<bookings, create, cancel>>
  BY <1>1, AnsweredFacts
<1>3. Asks(x)
  BY DEF Asks
<1>4. x \in Bookings => b = x
  BY <1>i DEF RequestsMatch
<1>5. x \in Cancels => /\ m.op = "ReleaseReservation" /\ cancel[x].booking = b
                       /\ bookings[b] # "NONE"
  BY <1>t, <1>i DEF WireMatches, RequestsMatch
<1>6. x \notin Bookings => x \in Cancels
  BY <1>0 DEF Callers
<1>7. ASSUME x \notin torn'
      PROVE  /\ Waits(x) /\ ~Told(x, TRUE) /\ ~Told(x, FALSE)
             /\ ~Asks(x)'
             /\ OneMessage(x)'
  <2>1. OneMessage(x)
    BY <1>0, <1>1, <1>7, <1>i
  <2>2. Waits(x) /\ ~Told(x, TRUE) /\ ~Told(x, FALSE)
    BY <1>3, <2>1 DEF OneMessage
  <2>3. ASSUME NEW n \in wire, n.caller = x
        PROVE  n = m
    <3>1. CASE x \in Bookings
      <4>1. n.booking = m.booking
        BY <1>4, <1>i, <2>3, <3>1 DEF RequestsMatch
      <4>2. SeatsFollow(x)
        BY <1>1, <1>7, <1>i, <3>1
      <4>3. n.op = m.op
        <5>1. CASE create[x].at = "reserving"
          BY <2>3, <4>2, <5>1 DEF SeatsFollow
        <5>2. CASE create[x].at = "compensating"
          BY <2>3, <4>2, <5>2 DEF SeatsFollow
        <5>. QED BY <2>2, <3>1, <5>1, <5>2 DEF Waits
      <4>. QED BY <1>0, <2>3, <4>1, <4>3 DEF Request
    <3>2. CASE x \notin Bookings
      <4>1. n.op = m.op /\ n.booking = m.booking
        BY <1>5, <1>6, <1>t, <2>3, <3>2 DEF WireMatches
      <4>. QED BY <1>0, <2>3, <4>1 DEF Request
    <3>. QED BY <3>1, <3>2
  <2>4. ~Asks(x)'
    BY <1>2, <2>3 DEF Asks
  <2>5. Waits(x)'
    BY <1>2, <2>2 DEF Waits
  <2>6. ~(Told(x, TRUE)' /\ Told(x, FALSE)')
    BY <1>2, <2>2
  <2>. QED BY <2>2, <2>4, <2>5, <2>6 DEF OneMessage
<1>8. ASSUME NEW y \in Callers \ torn', y # x
      PROVE  OneMessage(y)'
  <2>1. Waits(y)' <=> Waits(y)
    BY <1>2 DEF Waits
  <2>. QED BY <1>1, <1>2, <1>8, <2>1, OthersKeepMessages
<1>9. RequestsMatch'
  <2>1. ASSUME NEW c \in Cancels, c \in torn'
        PROVE  cancel'[c].at # "start"
    <3>1. CASE c \in torn
      BY <1>2, <1>i, <3>1 DEF RequestsMatch
    <3>2. CASE c = x
      BY <1>2, <1>t, <3>2 DEF WireMatches
    <3>. QED BY <1>1, <2>1, <3>1, <3>2
  <2>. QED BY <1>2, <1>i, <2>1 DEF RequestsMatch
<1>10. ASSUME NEW a \in Bookings \ torn'
       PROVE  SeatsFollow(a)'
  <2>0. SeatsFollow(a)
    BY <1>1, <1>i
  <2>1. CASE a # b
    <3>1. a # x
      BY <1>4, <2>1
    <3>. QED BY <1>1, <1>2, <2>1, <3>1, OthersKeepSeats
  <2>2. CASE a = b /\ x = a
    <3>1. /\ create[a].at \in {"reserving", "compensating"}
          /\ ~Told(a, TRUE) /\ ~Told(a, FALSE) /\ ~Asks(a)'
          /\ a \notin torn'
      BY <1>7, <2>2 DEF Waits
    <3>2. \A o : Told(a, o)' => o = ok \/ Told(a, o)
      BY <1>2
    <3>3. (Told(a, TRUE)' => ok) /\ (Told(a, FALSE)' => ~ok)
      BY <3>1, <3>2
    <3>4. \A n \in wire' : n \in wire
      BY <1>2
    <3>5. CASE create[a].at = "reserving"
      <4>1. m.op = "ReserveSeats" /\ reservation[a].status = "NONE"
        BY <1>3, <2>0, <2>2, <3>5 DEF SeatsFollow
      <4>2. reservation'[a].status = IF ok THEN "ACTIVE" ELSE "NONE"
        BY <1>1, <2>2, <3>1, <4>1
      <4>. QED BY <1>2, <2>0, <3>1, <3>3, <3>4, <3>5, <4>2 DEF SeatsFollow
    <3>6. CASE create[a].at = "compensating"
      <4>1. /\ m.op = "ReleaseReservation" /\ reservation[a].status = "ACTIVE"
            /\ bookings[a] = "NONE"
        BY <1>3, <2>0, <2>2, <3>6 DEF SeatsFollow
      <4>2. ok /\ reservation'[a].status = "RELEASED"
        BY <1>1, <2>2, <3>1, <4>1
      <4>. QED BY <1>2, <2>0, <3>1, <3>3, <3>4, <3>6, <4>1, <4>2 DEF SeatsFollow
    <3>. QED BY <3>1, <3>5, <3>6
  <2>3. CASE a = b /\ x # a
    <3>1. bookings[a] # "NONE"
      BY <1>4, <1>5, <1>6, <2>3
    <3>2. create[a].at \in {"fetch", "ok", "failed"}
      <4>1. create[a].at \in CreatePlaces
        BY <1>t DEF TypeOK
      <4>. QED BY <1>t, <2>0, <3>1, <4>1 DEF RowsMatch, SeatsFollow, CreatePlaces
    <3>. QED BY <1>2, <3>1, <3>2 DEF SeatsFollow
  <2>. QED BY <2>1, <2>2, <2>3
<1>11. \A c \in Cancels : Won(c) => Won(c)'
  BY <1>2 DEF Won, Told
<1>12. ASSUME NEW a \in Bookings
       PROVE  WinnerMarks(a)'
  <2>1. CASE reservation'[a].status = reservation[a].status
    BY <1>1, <1>2, <1>11, <2>1, OthersKeepMarks
  <2>2. CASE reservation'[a].status = "ACTIVE"
    BY <2>2 DEF WinnerMarks
  <2>3. CASE /\ a = b /\ m.op = "ReleaseReservation"
             /\ reservation[a].status = "ACTIVE"
             /\ ok \/ x \in torn'
    <3>. SUFFICES ASSUME bookings[a] = "CONFIRMED", Whole(a)'
                  PROVE  \E d \in Cancels :
                            /\ cancel[d].booking = a /\ Won(d)'
                            /\ cancel[d].at \in {"releasing", "update"}
      BY <1>2 DEF WinnerMarks
    <3>1. x \notin Bookings
      <4>. SUFFICES ASSUME x \in Bookings PROVE FALSE
        OBVIOUS
      <4>1. x = a /\ a \notin torn'
        BY <1>4, <2>3 DEF Whole
      <4>2. create[a].at \in {"reserving", "compensating"} /\ SeatsFollow(a)
        BY <1>1, <1>7, <1>i, <4>1 DEF Waits
      <4>. QED BY <1>t, <4>2 DEF RowsMatch, SeatsFollow
    <3>2. x \in Cancels /\ cancel[x].booking = a
      BY <1>5, <1>6, <2>3, <3>1
    <3>3. x \notin torn' /\ ok
      BY <1>2, <2>3, <3>2 DEF Whole
    <3>4. cancel[x].at = "releasing"
      BY <1>7, <3>1, <3>3 DEF Waits
    <3>5. Won(x)'
      BY <1>2, <3>3 DEF Won, Told
    <3>. QED BY <3>2, <3>4, <3>5
  <2>. QED BY <1>1, <2>1, <2>2, <2>3
<1>13. \A y \in Callers \ torn' : OneMessage(y)'
  BY <1>7, <1>8
<1>. QED BY <1>9, <1>10, <1>12, <1>13 DEF SagaInv

LEMMA CrashSettles ==
    ASSUME IInv, SagaInv, Crash, TypeOK'
    PROVE  SagaInv'
<1>t. TypeOK /\ RowsMatch
  BY DEF IInv
<1>i. /\ RequestsMatch
      /\ \A y \in Callers \ torn : OneMessage(y)
      /\ \A a \in Bookings \ torn : SeatsFollow(a)
      /\ \A a \in Bookings : WinnerMarks(a)
  BY DEF SagaInv
<1>1. /\ UNCHANGED <<reservation, bookings, wire, answers>>
      /\ \A a \in Bookings : create'[a].at =
            IF create[a].at \in Ended THEN create[a].at ELSE "failed"
      /\ \A c \in Cancels :
            /\ cancel'[c].at = IF cancel[c].at \in Ended THEN cancel[c].at
                               ELSE "failed"
            /\ cancel'[c].booking = cancel[c].booking
      /\ torn' = torn
            \cup {a \in Bookings : create[a].at \in
                     {"reserving", "insert", "compensate", "compensating"}}
            \cup {c \in Cancels : cancel[c].at \in {"releasing", "update"}}
  BY <1>t DEF Crash, seatVars, TypeOK
<1>2. \A y : /\ Asks(y)' <=> Asks(y)
             /\ \A o : Told(y, o)' <=> Told(y, o)
  BY <1>1 DEF Asks, Told
<1>3. ASSUME NEW y \in Callers \ torn'
      PROVE  OneMessage(y)'
  <2>1. OneMessage(y)
    BY <1>1, <1>i
  <2>2. ~Waits(y)
    BY <1>1, <1>3 DEF Waits, Callers
  <2>. QED BY <1>2, <2>1, <2>2 DEF OneMessage
<1>4. RequestsMatch'
  <2>1. ASSUME NEW c \in Cancels, c \in torn'
        PROVE  cancel[c].at # "start" /\ cancel'[c].at # "start"
    <3>1. c \in torn \/ cancel[c].at \in {"releasing", "update"}
      BY <1>1, <2>1, CallersAssumption
    <3>2. cancel[c].at # "start"
      BY <1>i, <3>1 DEF RequestsMatch
    <3>. QED BY <1>1, <3>2
  <2>. QED BY <1>1, <1>i, <2>1 DEF RequestsMatch
<1>5. ASSUME NEW a \in Bookings \ torn'
      PROVE  SeatsFollow(a)'
  <2>1. SeatsFollow(a)
    BY <1>1, <1>i
  <2>2. create[a].at \in CreatePlaces
    BY <1>t DEF TypeOK
  <2>3. create[a].at \in {"start", "reserve", "fetch", "ok", "failed"}
    BY <1>1, <1>5, <2>2 DEF CreatePlaces
  <2>4. create[a].at = "fetch" => bookings[a] # "NONE"
    BY <1>t DEF RowsMatch
  <2>. QED BY <1>1, <2>1, <2>3, <2>4 DEF SeatsFollow, Ended
<1>6. ASSUME NEW a \in Bookings
      PROVE  WinnerMarks(a)'
  <2>. SUFFICES ASSUME bookings[a] = "CONFIRMED", Whole(a)',
                       reservation[a].status # "ACTIVE"
                PROVE  FALSE
    BY <1>1 DEF WinnerMarks
  <2>1. Whole(a)
    BY <1>1 DEF Whole
  <2>2. PICK d \in Cancels : /\ cancel[d].booking = a
                             /\ cancel[d].at \in {"releasing", "update"}
    BY <1>i, <2>1 DEF WinnerMarks
  <2>. QED BY <1>1, <2>2 DEF Whole
<1>. QED BY <1>3, <1>4, <1>5, <1>6 DEF SagaInv

LEMMA SagaInductive == Spec => [](IInv /\ SagaInv)
<1>1. ASSUME IInv, SagaInv, IInv', [Next]_vars
      PROVE  SagaInv'
  <2>1. TypeOK'
    BY <1>1 DEF IInv
  <2>2. CASE UNCHANGED vars
    <3>1. UNCHANGED <<reservation, bookings, create, cancel, wire, answers, torn>>
      BY <2>2 DEF vars, seatVars
    <3>. QED BY <1>1, <3>1 DEF SagaInv, OneMessage, RequestsMatch, SeatsFollow,
                WinnerMarks, Whole, Won, Asks, Told, Waits
  <2>. QED BY <1>1, <2>1, <2>2, CreateStepSettles, CancelStepSettles,
              ServiceSettles, CrashSettles DEF Next
<1>. QED BY <1>1, Inductive, SagaInitially, PTL DEF Spec

(* When no call for a booking is under way and none was torn, its row and   *)
(* its seats agree.                                                         *)
THEOREM SettledAgree == Spec => []SettledBookingsAgree
<1>1. ASSUME IInv, SagaInv
      PROVE  SettledBookingsAgree
  <2>. SUFFICES ASSUME NEW b \in Bookings, Settled(b),
                       CallersFor(b) \cap torn = {}
                PROVE  bookings[b] = "CONFIRMED" <=> reservation[b].status = "ACTIVE"
    BY DEF SettledBookingsAgree
  <2>1. Whole(b)
    BY DEF CallersFor, Whole
  <2>2. \A c \in Cancels : cancel[c].booking = b => cancel[c].at \in Ended
    BY DEF Settled, CallersFor
  <2>3. bookings[b] = "CONFIRMED" => reservation[b].status = "ACTIVE"
    BY <1>1, <2>1, <2>2 DEF SagaInv, WinnerMarks, Ended
  <2>4. bookings[b] = "CANCELLED" => reservation[b].status # "ACTIVE"
    BY <1>1 DEF IInv, CancelledIsReleased
  <2>5. bookings[b] = "NONE" => reservation[b].status # "ACTIVE"
    <3>1. create[b].at \in Ended /\ SeatsFollow(b)
      BY <1>1, <2>1 DEF Settled, Whole, SagaInv
    <3>2. create[b].at = "ok" => bookings[b] # "NONE"
      BY <1>1 DEF IInv, RowsMatch
    <3>. QED BY <3>1, <3>2 DEF SeatsFollow, Ended
  <2>6. bookings[b] \in {"NONE", "CONFIRMED", "CANCELLED"}
    BY <1>1 DEF IInv, TypeOK
  <2>. QED BY <2>3, <2>4, <2>5, <2>6
<1>. QED BY <1>1, SagaInductive, PTL
=============================================================================
