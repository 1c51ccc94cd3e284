----------------------------- MODULE FlightProofs -----------------------------
(***************************************************************************)
(* Proofs about FlightService for all flights, bookings, routes and        *)
(* numbers of concurrent calls: the row locks make the transactions atomic *)
(* reservations and releases, every seat is accounted for, no calls wait   *)
(* for each other in a circle, and a cached value is stale only while its  *)
(* deletion is due or was missed.                                          *)
(***************************************************************************)
EXTENDS FlightService, SumTheorems

InTransaction == {"begin", "select", "insert", "update", "commit"}
Deleting == {"delFlight", "delSearch"}
Reading == {"lookup", "query", "set"}

Reserves(g) == req[g].op = "ReserveSeats"

LEMMA RequestKinds ==
    ASSUME NEW r \in Requests
    PROVE  /\ r \in Mutations => /\ r.op \in {"ReserveSeats", "ReleaseReservation"}
                                 /\ r.booking \in Bookings
                                 /\ r.op = "ReserveSeats" => /\ r.flight \in Flights
                                                             /\ r.seats \in SeatCounts
                                                             /\ r.seats \in Nat \ {0}
           /\ r \notin Mutations => r.key \in Keys
<1>1. CASE r \in Mutations
  BY <1>1, SeatCountsAssumption DEF Mutations
<1>2. CASE r \notin Mutations
  BY <1>2 DEF Requests, Reads
<1> QED BY <1>1, <1>2

LEMMA RowsAre ==
    /\ \A f \in Flights : FlightRow(f) \in Rows
    /\ \A b \in Bookings : ReservationRow(b) \in Rows
    /\ \A f \in Flights, b \in Bookings : FlightRow(f) # ReservationRow(b)
    /\ \A f, h \in Flights : FlightRow(f) = FlightRow(h) => f = h
    /\ \A b, d \in Bookings : ReservationRow(b) = ReservationRow(d) => b = d
BY DEF Rows, FlightRow, ReservationRow

LEMMA KeysAre ==
    /\ \A f \in Flights : FlightKey(f) \in Keys /\ Shown(FlightKey(f)) = {f}
    /\ \A f \in Flights : SearchKey(RouteOf[f]) \in Keys
    /\ \A k \in Keys : Shown(k) \subseteq Flights
    /\ \A k \in Keys : \A f \in Shown(k) : k = FlightKey(f) \/ k = SearchKey(RouteOf[f])
BY SeatsAssumption, RoutesAssumption DEF Keys, FlightKey, SearchKey, Shown
-----------------------------------------------------------------------------
(* Types, and what a call knows at each place: the rows its transaction has *)
(* locked and what it has found in them.                                    *)

DbTyped ==
    /\ available \in [Flights -> Nat]
    /\ reservation \in [Bookings -> Seats!Reservation \cup {Seats!NoReservation}]
    /\ pc \in [Calls -> Places]
    /\ req \in [Calls -> Requests \cup {NoRequest}]
    /\ stale \in [Calls -> SUBSET Rows]
    /\ holder \in [Rows -> Calls \cup {Free}]

HoldsFlight(g) ==
    /\ holder[FlightRow(req[g].flight)] = g
    /\ req[g].flight \in Scheduled
    /\ available[req[g].flight] >= req[g].seats

HoldsReservation(g) ==
    /\ holder[ReservationRow(req[g].booking)] = g
    /\ reservation[req[g].booking].status = "ACTIVE"

Found(g) == reservation[req[g].booking] # Seats!NoReservation

Claim(g) ==
    /\ pc[g] \in InTransaction \cup Deleting => req[g] \in Mutations
    /\ pc[g] \in Reading => req[g] \in Requests \ Mutations
    /\ pc[g] = "insert" => Reserves(g) /\ HoldsFlight(g)
    /\ pc[g] = "update" => ~Reserves(g) /\ HoldsReservation(g)
    /\ pc[g] = "commit" /\ Reserves(g) =>
         /\ HoldsFlight(g)
         /\ holder[ReservationRow(req[g].booking)] = g /\ ~Found(g)
    /\ pc[g] = "commit" /\ ~Reserves(g) => HoldsReservation(g)
    /\ pc[g] \in {"select"} \cup Deleting /\ ~Reserves(g) => Found(g)

Claims == \A g \in Calls : Claim(g)

LEMMA ReservationIs ==
    ASSUME DbTyped, NEW b \in Bookings
    PROVE  /\ reservation[b].status = "ACTIVE" => reservation[b] # Seats!NoReservation
           /\ reservation[b] # Seats!NoReservation =>
                /\ reservation[b] \in Seats!Reservation
                /\ reservation[b].flight \in Flights /\ reservation[b].seats \in Nat \ {0}
                /\ [reservation[b] EXCEPT !.status = "RELEASED"] \in Seats!Reservation
                /\ [reservation[b] EXCEPT !.status = "RELEASED"].flight
                     = reservation[b].flight
           /\ Seats!NoReservation.status = "NONE"
           /\ Seats!NoReservation \notin Seats!Reservation
BY DEF DbTyped, Seats!Reservation, Seats!NoReservation

(* What the request of a call that has got past Arrive looks like.          *)
LEMMA CallIs ==
    ASSUME DbTyped, Claims, NEW g \in Calls
    PROVE  /\ pc[g] \in InTransaction \cup Deleting =>
                /\ req[g] \in Mutations
                /\ req[g].op \in {"ReserveSeats", "ReleaseReservation"}
                /\ req[g].booking \in Bookings
                /\ Reserves(g) => /\ req[g].flight \in Flights
                                  /\ req[g].seats \in SeatCounts
                                  /\ req[g].seats \in Nat \ {0}
           /\ pc[g] \in Reading => req[g].key \in Keys
<1>1. Claim(g)
  BY DEF Claims
<1>2. CASE pc[g] \in InTransaction \cup Deleting
  <2>1. req[g] \in Mutations
    BY <1>1, <1>2 DEF Claim
  <2>2. req[g] \in Requests
    BY <2>1 DEF Requests
  <2>3. pc[g] \notin Reading
    BY <1>2 DEF InTransaction, Deleting, Reading
  <2> QED BY <2>1, <2>2, <2>3, RequestKinds DEF Reserves
<1>3. CASE pc[g] \in Reading
  <2>1. req[g] \in Requests /\ req[g] \notin Mutations
    BY <1>1, <1>3 DEF Claim
  <2>2. pc[g] \notin InTransaction \cup Deleting
    BY <1>3 DEF InTransaction, Deleting, Reading
  <2> QED BY <2>1, <2>2, RequestKinds
<1> QED BY <1>2, <1>3
-----------------------------------------------------------------------------
(* What a step of one call leaves to the others.                            *)

Quiet(g) ==
    /\ UNCHANGED <<available, reservation>>
    /\ \A h \in Calls \ {g} : pc'[h] = pc[h] /\ req'[h] = req[h]
    /\ \A r \in Rows : \A h \in Calls \ {g} : holder[r] = h => holder'[r] = h

LEMMA RollbackIs ==
    ASSUME DbTyped, NEW g \in Calls, Rollback(g)
    PROVE  DbTyped' /\ Quiet(g) /\ pc'[g] = "idle"
<1>1. /\ pc' = [pc EXCEPT ![g] = "idle"] /\ req' = [req EXCEPT ![g] = NoRequest]
      /\ stale' = [stale EXCEPT ![g] = {}]
      /\ holder' = [r \in Rows |-> IF holder[r] = g THEN Free ELSE holder[r]]
      /\ UNCHANGED <<available, reservation>>
  BY DEF Rollback, Return, Goto, Unlocked
<1> QED BY <1>1 DEF DbTyped, Quiet, Places

LEMMA ReturnIs ==
    ASSUME DbTyped, NEW g \in Calls, Return(g), UNCHANGED dbVars
    PROVE  DbTyped' /\ Quiet(g) /\ pc'[g] = "idle"
<1>1. /\ pc' = [pc EXCEPT ![g] = "idle"] /\ req' = [req EXCEPT ![g] = NoRequest]
      /\ stale' = [stale EXCEPT ![g] = {}]
      /\ UNCHANGED <<available, reservation, holder>>
  BY DEF Return, Goto, dbVars
<1> QED BY <1>1 DEF DbTyped, Quiet, Places

LEMMA LockIs ==
    ASSUME DbTyped, NEW g \in Calls, NEW r \in Rows, holder[r] = Free,
           NEW l \in Places, Lock(g, r, l)
    PROVE  /\ DbTyped' /\ Quiet(g) /\ pc'[g] = l /\ req' = req
           /\ holder' = [holder EXCEPT ![r] = g]
<1>1. /\ pc' = [pc EXCEPT ![g] = l] /\ holder' = [holder EXCEPT ![r] = g]
      /\ UNCHANGED <<available, reservation, req, stale>>
  BY DEF Lock, Goto
<1>2. \A q \in Rows : holder'[q] = IF q = r THEN g ELSE holder[q]
  BY <1>1 DEF DbTyped
<1>3. Quiet(g)
  BY <1>1, <1>2, FreeAssumption DEF DbTyped, Quiet
<1> QED BY <1>1, <1>3 DEF DbTyped

LEMMA MovesIs ==
    ASSUME DbTyped, NEW g \in Calls, NEW l \in Places, Goto(g, l),
           UNCHANGED <<available, reservation, holder, req>>,
           stale' \in [Calls -> SUBSET Rows]
    PROVE  DbTyped' /\ Quiet(g) /\ pc'[g] = l
BY DEF DbTyped, Quiet, Goto

LEMMA OthersKeep ==
    ASSUME DbTyped, Claims, NEW g \in Calls, Quiet(g), NEW h \in Calls, g # h
    PROVE  Claim(h)'
<1>1. /\ pc'[h] = pc[h] /\ req'[h] = req[h] /\ UNCHANGED <<available, reservation>>
      /\ \A r \in Rows : holder[r] = h => holder'[r] = h
  BY DEF Quiet
<1>2. Claim(h)
  BY DEF Claims
<1>3. pc[h] \in InTransaction \cup Deleting =>
         /\ ReservationRow(req[h].booking) \in Rows
         /\ Reserves(h) => FlightRow(req[h].flight) \in Rows
  BY CallIs, RowsAre
<1>4. pc[h] \in {"insert", "update", "commit"} => pc[h] \in InTransaction
  BY DEF InTransaction
<1> QED BY <1>1, <1>2, <1>3, <1>4
        DEF Claim, HoldsFlight, HoldsReservation, Found, Reserves

(* After a quiet step only the call that made it is left to look at.        *)
LEMMA QuietKeeps ==
    ASSUME DbTyped, Claims, NEW g \in Calls, Quiet(g), Claim(g)'
    PROVE  Claims'
BY OthersKeep DEF Claims

LEMMA IdleClaims ==
    ASSUME NEW g \in Calls, pc'[g] = "idle"
    PROVE  Claim(g)'
BY DEF Claim, InTransaction, Deleting, Reading
-----------------------------------------------------------------------------
(* The steps of one call, but for its commit.                               *)

Tx(g) == Begin(g) \/ LockFlight(g) \/ InsertReservation(g) \/ LockReservation(g)
           \/ UpdateFlight(g) \/ Fail(g)

Rest(g) == Arrive(g) \/ InvalidateFlight(g) \/ InvalidateSearch(g) \/ LookUp(g)
             \/ QueryFlights(g) \/ FillCache(g)

LEMMA TxStep ==
    ASSUME DbTyped, Claims, NEW g \in Calls, Tx(g)
    PROVE  DbTyped' /\ Quiet(g) /\ Claim(g)'
<1>0. ASSUME Rollback(g) PROVE DbTyped' /\ Quiet(g) /\ Claim(g)'
  BY <1>0, RollbackIs, IdleClaims
<1>c. /\ Claim(g)
      /\ pc[g] \in InTransaction =>
           /\ req[g] \in Mutations /\ req[g].booking \in Bookings
           /\ Reserves(g) => req[g].flight \in Flights
  BY CallIs DEF Claims
<1>1. CASE Begin(g)
  <2>1. CASE /\ Goto(g, "select") /\ stale' = [stale EXCEPT ![g] = {}]
             /\ UNCHANGED <<req, got, dbVars, cacheVars>>
             /\ Reserves(g) \/ Found(g)
    <3>1. stale' \in [Calls -> SUBSET Rows] /\ "select" \in Places
      BY <2>1 DEF DbTyped, Places
    <3>2. DbTyped' /\ Quiet(g) /\ pc'[g] = "select"
      BY <2>1, <3>1, MovesIs DEF dbVars
    <3>3. pc[g] \in InTransaction
      BY <1>1 DEF Begin, InTransaction
    <3>4. req' = req /\ reservation' = reservation
      BY <2>1 DEF dbVars
    <3> QED BY <1>c, <2>1, <3>2, <3>3, <3>4
            DEF Claim, Reserves, Found, InTransaction, Deleting, Reading
  <2> QED BY <1>0, <1>1, <2>1 DEF Begin, Reserves, Found
<1>2. CASE LockFlight(g)
  <2> DEFINE r == FlightRow(req[g].flight)
  <2>0. pc[g] = "select" /\ Reserves(g) /\ holder[r] = Free
    BY <1>2 DEF LockFlight, Reserves
  <2>1. r \in Rows /\ req[g].flight \in Flights /\ req[g] \in Mutations
        /\ req[g].seats \in Nat
    BY <2>0, CallIs, RowsAre DEF InTransaction
  <2>2. CASE /\ Lock(g, r, "insert") /\ req[g].flight \in Scheduled
             /\ ~(available[req[g].flight] < req[g].seats)
    <3>1. /\ DbTyped' /\ Quiet(g) /\ pc'[g] = "insert" /\ req' = req
          /\ holder' = [holder EXCEPT ![r] = g]
      BY <2>0, <2>1, <2>2, LockIs DEF Places
    <3>2. available' = available /\ available[req[g].flight] \in Nat
      BY <2>1, <3>1 DEF Quiet, DbTyped
    <3>3. available[req[g].flight] >= req[g].seats
      BY <2>1, <2>2, <3>2
    <3>4. holder'[r] = g
      BY <2>1, <3>1 DEF DbTyped
    <3> QED BY <2>0, <2>1, <2>2, <3>1, <3>2, <3>3, <3>4
            DEF Claim, HoldsFlight, Reserves, InTransaction, Deleting, Reading
  <2> QED BY <1>0, <1>2, <2>2 DEF LockFlight
<1>3. CASE InsertReservation(g)
  <2> DEFINE r == ReservationRow(req[g].booking)
  <2>0. pc[g] = "insert" /\ Reserves(g) /\ HoldsFlight(g)
    BY <1>c, <1>3 DEF InsertReservation, Claim
  <2>1. /\ r \in Rows /\ FlightRow(req[g].flight) \in Rows
        /\ r # FlightRow(req[g].flight) /\ req[g] \in Mutations
    BY <2>0, CallIs, RowsAre DEF InTransaction
  <2>2. CASE Lock(g, r, "commit") /\ ~Found(g) /\ holder[r] = Free
    <3>1. /\ DbTyped' /\ Quiet(g) /\ pc'[g] = "commit" /\ req' = req
          /\ holder' = [holder EXCEPT ![r] = g]
      BY <2>1, <2>2, LockIs DEF Places
    <3>2. UNCHANGED <<available, reservation>>
      BY <3>1 DEF Quiet
    <3>4. /\ holder'[r] = g
          /\ holder'[FlightRow(req[g].flight)] = holder[FlightRow(req[g].flight)]
      BY <2>1, <3>1 DEF DbTyped
    <3> QED BY <2>0, <2>1, <2>2, <3>1, <3>2, <3>4
            DEF Claim, HoldsFlight, Found, Reserves, InTransaction, Deleting, Reading
  <2> QED BY <1>0, <1>3, <2>2 DEF InsertReservation, Found
<1>4. CASE LockReservation(g)
  <2> DEFINE r == ReservationRow(req[g].booking)
  <2>0. pc[g] = "select" /\ ~Reserves(g) /\ holder[r] = Free
    BY <1>4 DEF LockReservation, Reserves
  <2>1. r \in Rows /\ req[g] \in Mutations
    BY <2>0, CallIs, RowsAre DEF InTransaction
  <2>2. CASE Lock(g, r, "update") /\ reservation[req[g].booking].status = "ACTIVE"
    <3>1. /\ DbTyped' /\ Quiet(g) /\ pc'[g] = "update" /\ req' = req
          /\ holder' = [holder EXCEPT ![r] = g]
      BY <2>0, <2>1, <2>2, LockIs DEF Places
    <3>2. reservation' = reservation /\ holder'[r] = g
      BY <2>1, <3>1 DEF Quiet, DbTyped
    <3> QED BY <2>0, <2>1, <2>2, <3>1, <3>2
            DEF Claim, HoldsReservation, Reserves, InTransaction, Deleting, Reading
  <2> QED BY <1>0, <1>4, <2>2 DEF LockReservation
<1>5. CASE UpdateFlight(g)
  <2> DEFINE b == req[g].booking
             r == FlightRow(reservation[b].flight)
  <2>0. pc[g] = "update" /\ ~Reserves(g) /\ HoldsReservation(g) /\ holder[r] = Free
    BY <1>c, <1>5 DEF UpdateFlight, Claim
  <2>1. b \in Bookings /\ req[g] \in Mutations
    BY <2>0, CallIs DEF InTransaction
  <2>2. reservation[b].flight \in Flights
    BY <2>0, <2>1, ReservationIs DEF HoldsReservation
  <2>3. r \in Rows /\ ReservationRow(b) \in Rows /\ r # ReservationRow(b)
    BY <2>1, <2>2, RowsAre
  <2>4. CASE Lock(g, r, "commit")
    <3>1. /\ DbTyped' /\ Quiet(g) /\ pc'[g] = "commit" /\ req' = req
          /\ holder' = [holder EXCEPT ![r] = g]
      BY <2>0, <2>3, <2>4, LockIs DEF Places
    <3>2. /\ reservation' = reservation
          /\ holder'[ReservationRow(b)] = holder[ReservationRow(b)]
      BY <2>3, <3>1 DEF Quiet, DbTyped
    <3> QED BY <2>0, <2>1, <3>1, <3>2
            DEF Claim, HoldsReservation, Reserves, InTransaction, Deleting, Reading
  <2> QED BY <1>0, <1>5, <2>4 DEF UpdateFlight
<1>6. CASE Fail(g)
  BY <1>0, <1>6 DEF Fail
<1> QED BY <1>1, <1>2, <1>3, <1>4, <1>5, <1>6 DEF Tx

LEMMA RestStep ==
    ASSUME DbTyped, Claims, NEW g \in Calls, Rest(g)
    PROVE  DbTyped' /\ Quiet(g) /\ Claim(g)'
<1>0. ASSUME Return(g), UNCHANGED dbVars PROVE DbTyped' /\ Quiet(g) /\ Claim(g)'
  BY <1>0, ReturnIs, IdleClaims
<1>c. Claim(g)
  BY DEF Claims
<1>1. CASE Arrive(g)
  <2>1. PICK r \in Requests :
           /\ req' = [req EXCEPT ![g] = r]
           /\ Goto(g, IF r \in Mutations THEN "begin" ELSE "lookup")
           /\ UNCHANGED <<stale, dbVars>>
    BY <1>1, AskedAssumption DEF Arrive
  <2> DEFINE l == IF r \in Mutations THEN "begin" ELSE "lookup"
  <2>2. pc' = [pc EXCEPT ![g] = l] /\ l \in Places
    BY <2>1 DEF Goto, Places
  <2>3. DbTyped' /\ Quiet(g) /\ pc'[g] = l /\ req'[g] = r
    BY <2>1, <2>2 DEF DbTyped, Quiet, dbVars
  <2> QED BY <2>3 DEF Claim, InTransaction, Deleting, Reading
<1>2. CASE InvalidateFlight(g)
  <2>1. pc[g] = "delFlight" /\ Goto(g, "delSearch")
        /\ UNCHANGED <<req, stale, available, reservation, holder>>
    BY <1>2 DEF InvalidateFlight, dbVars
  <2>2. DbTyped' /\ Quiet(g) /\ pc'[g] = "delSearch"
    BY <2>1, MovesIs DEF DbTyped, Places
  <2> QED BY <1>c, <2>1, <2>2
          DEF Claim, Found, Reserves, InTransaction, Deleting, Reading
<1>3. CASE InvalidateSearch(g) \/ FillCache(g)
  BY <1>0, <1>3 DEF InvalidateSearch, FillCache
<1>4. ASSUME NEW l \in {"query", "set"}, pc[g] \in Reading, Goto(g, l),
             UNCHANGED <<req, stale, dbVars>>
      PROVE  DbTyped' /\ Quiet(g) /\ Claim(g)'
  <2>1. DbTyped' /\ Quiet(g) /\ pc'[g] = l
    BY <1>4, MovesIs DEF DbTyped, Places, dbVars
  <2> QED BY <1>c, <1>4, <2>1 DEF Claim, InTransaction, Deleting, Reading
<1>5. CASE LookUp(g) \/ QueryFlights(g)
  BY <1>0, <1>4, <1>5 DEF LookUp, QueryFlights, Reading
<1> QED BY <1>1, <1>2, <1>3, <1>5 DEF Rest
-----------------------------------------------------------------------------
(* The commit, where the transaction takes effect.  It changes only what    *)
(* its call has locked.                                                     *)

LEMMA CommitIs ==
    ASSUME DbTyped, Claims, NEW g \in Calls, Commit(g)
    PROVE  LET b == req[g].booking
               f == IF Reserves(g) THEN req[g].flight ELSE reservation[b].flight
           IN  /\ pc[g] = "commit" /\ b \in Bookings /\ f \in Flights
               /\ req[g] \in Mutations
               /\ holder[ReservationRow(b)] = g
               /\ Reserves(g) => Seats!Reserve(b, f, req[g].seats) /\ HoldsFlight(g)
               /\ ~Reserves(g) => Seats!Release(b) /\ HoldsReservation(g)
<1>1. /\ pc[g] = "commit" /\ Claim(g) /\ req[g].booking \in Bookings
      /\ req[g] \in Mutations
      /\ Reserves(g) => req[g].flight \in Flights /\ req[g].seats \in Nat \ {0}
  BY CallIs DEF Commit, Claims, InTransaction
<1>2. CASE Reserves(g)
  <2>1. /\ HoldsFlight(g) /\ holder[ReservationRow(req[g].booking)] = g /\ ~Found(g)
    BY <1>1, <1>2 DEF Claim
  <2>2. Seats!CanReserve(req[g].booking, req[g].flight, req[g].seats)
    BY <1>1, <1>2, <2>1 DEF Seats!CanReserve, HoldsFlight, Found
  <2>3. Seats!Reserve(req[g].booking, req[g].flight, req[g].seats)
    BY <1>2, <2>2 DEF Commit, Seats!Reserve, Reserves
  <2> QED BY <1>1, <1>2, <2>1, <2>3
<1>3. CASE ~Reserves(g)
  <2>1. HoldsReservation(g)
    BY <1>1, <1>3 DEF Claim
  <2>2. Seats!Release(req[g].booking)
    BY <1>3, <2>1 DEF Commit, Seats!Release, HoldsReservation, Reserves
  <2>3. reservation[req[g].booking].flight \in Flights
    BY <1>1, <2>1, ReservationIs DEF HoldsReservation
  <2> QED BY <1>1, <1>3, <2>1, <2>2, <2>3 DEF HoldsReservation
<1> QED BY <1>2, <1>3

LEMMA CommitTyped ==
    ASSUME DbTyped, Claims, NEW g \in Calls, Commit(g)
    PROVE  DbTyped' /\ pc'[g] = "delFlight" /\ req' = req
<1> DEFINE b == req[g].booking
           f == IF Reserves(g) THEN req[g].flight ELSE reservation[b].flight
<1>1. /\ b \in Bookings /\ f \in Flights /\ req[g] \in Mutations
      /\ Reserves(g) => Seats!Reserve(b, f, req[g].seats) /\ HoldsFlight(g)
      /\ ~Reserves(g) => Seats!Release(b) /\ HoldsReservation(g)
  BY CommitIs
<1>2. /\ holder' = Unlocked(g) /\ pc' = [pc EXCEPT ![g] = "delFlight"] /\ req' = req
      /\ stale' = [h \in Calls |-> IF pc[h] \in {"select", "insert", "update", "commit"}
                                   THEN stale[h] \cup ChangedBy(g) ELSE stale[h]]
      /\ pc[g] = "commit"
  BY DEF Commit, Goto
<1>3. ChangedBy(g) \subseteq Rows
  BY <1>1, RowsAre DEF ChangedBy, Reserves
<1>4. /\ stale' \in [Calls -> SUBSET Rows] /\ pc' \in [Calls -> Places]
      /\ pc'[g] = "delFlight" /\ holder' \in [Rows -> Calls \cup {Free}]
  BY <1>2, <1>3 DEF DbTyped, Unlocked, Places
<1>5. /\ available' \in [Flights -> Nat]
      /\ reservation' \in [Bookings -> Seats!Reservation \cup {Seats!NoReservation}]
  <2>1. CASE Reserves(g)
    <3> DEFINE n == req[g].seats
    <3>1. n \in Nat \ {0} /\ available[f] \in Nat /\ available[f] >= n
      BY <1>1, <1>2, <2>1, CallIs DEF DbTyped, HoldsFlight, InTransaction
    <3>2. /\ available' = [available EXCEPT ![f] = @ - n]
          /\ reservation' = [reservation EXCEPT ![b] =
                               [flight |-> f, seats |-> n, status |-> "ACTIVE"]]
      BY <1>1, <2>1 DEF Seats!Reserve
    <3> HIDE DEF n, f, b
    <3>3. [flight |-> f, seats |-> n, status |-> "ACTIVE"] \in Seats!Reservation
      BY <1>1, <3>1 DEF Seats!Reservation
    <3>4. available[f] - n \in Nat
      BY <3>1
    <3> QED BY <1>1, <3>2, <3>3, <3>4 DEF DbTyped
  <2>2. CASE ~Reserves(g)
    <3>1. /\ reservation[b].seats \in Nat
          /\ [reservation[b] EXCEPT !.status = "RELEASED"] \in Seats!Reservation
      BY <1>1, <2>2, ReservationIs DEF HoldsReservation
    <3>2. /\ available' = [available EXCEPT ![f] = @ + reservation[b].seats]
          /\ reservation' = [reservation EXCEPT ![b] =
                               [reservation[b] EXCEPT !.status = "RELEASED"]]
      BY <1>1, <2>2 DEF Seats!Release, DbTyped
    <3> HIDE DEF f, b
    <3> QED BY <1>1, <3>1, <3>2 DEF DbTyped
  <2> QED BY <2>1, <2>2
<1> QED BY <1>2, <1>4, <1>5 DEF DbTyped

LEMMA CommitClaims ==
    ASSUME DbTyped, Claims, NEW g \in Calls, Commit(g)
    PROVE  Claims'
<1> DEFINE b == req[g].booking
           f == IF Reserves(g) THEN req[g].flight ELSE reservation[b].flight
<1>1. /\ b \in Bookings /\ f \in Flights /\ req[g] \in Mutations
      /\ holder[ReservationRow(b)] = g /\ pc[g] = "commit"
      /\ Reserves(g) => Seats!Reserve(b, f, req[g].seats) /\ HoldsFlight(g)
      /\ ~Reserves(g) => Seats!Release(b) /\ HoldsReservation(g)
  BY CommitIs
<1>2. /\ \A r \in Rows : \A h \in Calls \ {g} : holder[r] = h => holder'[r] = h
      /\ \A h \in Calls \ {g} : pc'[h] = pc[h]
      /\ pc'[g] = "delFlight" /\ req' = req
  BY CommitTyped DEF Commit, Goto, Unlocked, DbTyped
(* Bookings other than b keep their reservation, and b has one now.         *)
<1>3. /\ \A d \in Bookings \ {b} : reservation'[d] = reservation[d]
      /\ reservation'[b] # Seats!NoReservation
  <2>1. CASE Reserves(g)
    <3>1. [flight |-> f, seats |-> req[g].seats, status |-> "ACTIVE"]
             # Seats!NoReservation
      BY DEF Seats!NoReservation
    <3> HIDE DEF b, f
    <3> QED BY <1>1, <2>1, <3>1 DEF Seats!Reserve, DbTyped
  <2>2. CASE ~Reserves(g)
    <3>1. [reservation[b] EXCEPT !.status = "RELEASED"] # Seats!NoReservation
      BY <1>1, <2>2, ReservationIs DEF HoldsReservation
    <3> HIDE DEF b, f
    <3> QED BY <1>1, <2>2, <3>1 DEF Seats!Release, DbTyped
  <2> QED BY <2>1, <2>2
(* The seats of a flight that another call has locked do not get fewer.     *)
<1>4. ASSUME NEW h \in Calls, h # g, NEW e \in Flights, holder[FlightRow(e)] = h
      PROVE  available'[e] >= available[e]
  <2>0. \A x \in Flights : available[x] \in Nat
    BY DEF DbTyped
  <2>1. CASE Reserves(g)
    <3>1. holder[FlightRow(f)] = g
      BY <1>1, <2>1 DEF HoldsFlight
    <3>2. e # f
      BY <1>4, <3>1
    <3>3. available' = [available EXCEPT ![f] = @ - req[g].seats]
      BY <1>1, <2>1 DEF Seats!Reserve
    <3> HIDE DEF b, f
    <3> QED BY <2>0, <3>2, <3>3 DEF DbTyped
  <2>2. CASE ~Reserves(g)
    <3>1. available' = [available EXCEPT ![f] = @ + reservation[b].seats]
      BY <1>1, <2>2 DEF Seats!Release
    <3>2. reservation[b].seats \in Nat
      BY <1>1, <2>2, ReservationIs DEF HoldsReservation
    <3> HIDE DEF b, f
    <3> QED BY <1>1, <2>0, <3>1, <3>2 DEF DbTyped
  <2> QED BY <2>1, <2>2
<1> HIDE DEF b, f
<1>5. ASSUME NEW h \in Calls, h # g PROVE Claim(h)'
  <2>1. /\ pc'[h] = pc[h] /\ req'[h] = req[h]
        /\ \A r \in Rows : holder[r] = h => holder'[r] = h
    BY <1>2, <1>5
  <2>2. Claim(h)
    BY DEF Claims
  <2>3. CASE pc[h] \in InTransaction \cup Deleting
    <3>1. /\ req[h].booking \in Bookings
          /\ Reserves(h) => req[h].flight \in Flights /\ req[h].seats \in Nat
      BY <2>3, CallIs
    <3>2. ReservationRow(req[h].booking) \in Rows
      BY <3>1, RowsAre
    <3>3. holder[ReservationRow(req[h].booking)] = h => req[h].booking # b
      BY <1>1, <1>5
    <3>4. HoldsReservation(h) => HoldsReservation(h)'
      BY <1>3, <2>1, <3>1, <3>2, <3>3 DEF HoldsReservation
    <3>5. holder[ReservationRow(req[h].booking)] = h /\ ~Found(h) => ~Found(h)'
      BY <1>3, <2>1, <3>1, <3>3 DEF Found
    <3>6. Found(h) => Found(h)'
      BY <1>3, <2>1, <3>1 DEF Found
    <3>7. Reserves(h) /\ HoldsFlight(h) => HoldsFlight(h)'
      <4> SUFFICES ASSUME Reserves(h), HoldsFlight(h) PROVE HoldsFlight(h)'
        OBVIOUS
      <4>1. available'[req[h].flight] >= available[req[h].flight]
        BY <1>4, <1>5, <3>1 DEF HoldsFlight
      <4>2. /\ available'[req[h].flight] \in Nat /\ available[req[h].flight] \in Nat
            /\ req[h].seats \in Nat
        BY <3>1, CommitTyped DEF DbTyped
      <4>3. available'[req[h].flight] >= req[h].seats
        BY <4>1, <4>2 DEF HoldsFlight
      <4> QED BY <2>1, <3>1, <4>3, RowsAre DEF HoldsFlight
    <3>8. Reserves(h)' = Reserves(h)
      BY <2>1 DEF Reserves
    <3> HIDE DEF HoldsFlight, HoldsReservation, Found, Reserves
    <3> QED BY <2>1, <2>2, <3>2, <3>4, <3>5, <3>6, <3>7, <3>8 DEF Claim
  <2>4. CASE pc[h] \notin InTransaction \cup Deleting
    BY <2>1, <2>2, <2>4 DEF Claim, InTransaction, Deleting
  <2> QED BY <2>3, <2>4
<1>6. Claim(g)'
  BY <1>1, <1>2, <1>3 DEF Claim, Found, Reserves, InTransaction, Deleting, Reading, b
<1> QED BY <1>5, <1>6 DEF Claims

FlightInv == DbTyped /\ Claims

LEMMA FlightStep == FlightInv /\ [Next]_vars => FlightInv'
<1> SUFFICES ASSUME DbTyped, Claims, [Next]_vars PROVE DbTyped' /\ Claims'
  BY DEF FlightInv
<1>1. ASSUME NEW g \in Calls, Tx(g) \/ Rest(g) PROVE DbTyped' /\ Claims'
  BY <1>1, TxStep, RestStep, QuietKeeps
<1>2. ASSUME NEW g \in Calls, Commit(g) PROVE DbTyped' /\ Claims'
  BY <1>2, CommitTyped, CommitClaims
<1>3. ASSUME UNCHANGED <<dbVars, callVars>> PROVE DbTyped' /\ Claims'
  BY <1>3 DEF dbVars, callVars, DbTyped, Claims, Claim, HoldsFlight, HoldsReservation,
              Found, Reserves
<1>4. CASE \E k \in Keys : Expire(k)
  BY <1>3, <1>4 DEF Expire
<1>5. CASE UNCHANGED vars
  BY <1>3, <1>5 DEF vars
<1> QED BY <1>1, <1>2, <1>4, <1>5 DEF Next, Waits, Runs, Tx, Rest

LEMMA FlightAlways == Spec => []FlightInv
<1>1. Init => FlightInv
  <2> SUFFICES ASSUME Init PROVE DbTyped /\ Claims
    BY DEF FlightInv
  <2>1. DbTyped
    BY SeatsAssumption DEF Init, Seats!Init, DbTyped, Places
  <2>2. Claims
    BY DEF Init, Claims, Claim, InTransaction, Deleting, Reading
  <2> QED BY <2>1, <2>2
<1> QED BY <1>1, FlightStep, PTL DEF Spec

(* The service implements the inventory: whatever the calls do in between,  *)
(* seats are reserved and released in one step, never more than available,  *)
(* and never twice for a booking.                                           *)
THEOREM ReservationsAtomic == Spec => ReservesAtomically
<1>1. Init => Seats!Init
  BY DEF Init
<1>2. ASSUME FlightInv, [Next]_vars PROVE [Seats!Next]_(Seats!vars)
  <2> USE <1>2 DEF FlightInv
  <2>1. ASSUME NEW g \in Calls, Commit(g) PROVE Seats!Next
    <3> DEFINE b == req[g].booking
               f == IF Reserves(g) THEN req[g].flight ELSE reservation[b].flight
    <3>1. /\ b \in Bookings /\ f \in Flights /\ pc[g] = "commit"
          /\ Reserves(g) => Seats!Reserve(b, f, req[g].seats)
          /\ ~Reserves(g) => Seats!Release(b)
      BY <2>1, CommitIs
    <3>2. Reserves(g) => req[g].seats \in 1 .. available[f]
      <4>1. Reserves(g) => /\ req[g].seats \in Nat \ {0}
                           /\ available[f] \in Nat /\ available[f] >= req[g].seats
        BY <3>1, CallIs DEF InTransaction, DbTyped, Seats!Reserve, Seats!CanReserve
      <4> QED BY <4>1
    <3> HIDE DEF b, f
    <3> QED BY <3>1, <3>2 DEF Seats!Next
  <2>2. ASSUME NEW g \in Calls, Tx(g) \/ Rest(g) PROVE UNCHANGED Seats!vars
    BY <2>2, TxStep, RestStep DEF Quiet, Seats!vars
  <2>3. CASE (\E k \in Keys : Expire(k)) \/ UNCHANGED vars
    BY <2>3 DEF Expire, vars, dbVars, Seats!vars
  <2> QED BY <1>2, <2>1, <2>2, <2>3 DEF Next, Waits, Runs, Tx, Rest
<1> QED BY <1>1, <1>2, FlightAlways, PTL DEF Spec, ReservesAtomically, Seats!Spec
-----------------------------------------------------------------------------
(* No seat is lost or counted twice.  The sum over the active reservations  *)
(* of a flight is finite although the set of bookings need not be, since    *)
(* each step adds or removes one.                                           *)

SeatsTyped ==
    /\ available \in [Flights -> Nat]
    /\ reservation \in [Bookings -> Seats!Reservation \cup {Seats!NoReservation}]

Booked(f) == [b \in Seats!ActiveFor(f) |-> reservation[b].seats]

Accounted ==
    \A f \in Flights : /\ IsFiniteSet(Seats!ActiveFor(f))
                       /\ available[f] + SumFunction(Booked(f)) = Capacity[f]

LEMMA BookedSums ==
    ASSUME SeatsTyped, Accounted, NEW f \in Flights
    PROVE  Summable(Booked(f)) /\ SumFunction(Booked(f)) \in Int
<1>1. \A b \in Seats!ActiveFor(f) : reservation[b].seats \in Int
  BY DEF SeatsTyped, Seats!ActiveFor, Seats!Reservation, Seats!NoReservation
<1>2. Summable(Booked(f))
  BY <1>1 DEF Summable, Booked, Accounted
<1> QED BY <1>2, SumFunctionInt

(* The active reservations and the available seats of the flights that a    *)
(* step does not concern stay as they are.                                  *)
LEMMA OtherFlights ==
    ASSUME SeatsTyped, Accounted, NEW f \in Flights,
           Seats!ActiveFor(f)' = Seats!ActiveFor(f),
           \A b \in Seats!ActiveFor(f) : reservation'[b].seats = reservation[b].seats
    PROVE  /\ IsFiniteSet(Seats!ActiveFor(f)')
           /\ SumFunction(Booked(f)') = SumFunction(Booked(f))
<1>1. DOMAIN Booked(f) = Seats!ActiveFor(f) /\ DOMAIN (Booked(f)') = Seats!ActiveFor(f)'
  BY DEF Booked
<1>2. \A b \in DOMAIN Booked(f) : (Booked(f)')[b] = Booked(f)[b]
  BY <1>1 DEF Booked
<1> HIDE DEF Booked
<1> QED BY <1>1, <1>2, BookedSums, SumFunctionSame DEF Accounted

LEMMA ReserveAccounted ==
    ASSUME SeatsTyped, Accounted, NEW b \in Bookings, NEW f \in Flights,
           NEW n \in Nat, Seats!Reserve(b, f, n)
    PROVE  Accounted'
<1>1. /\ reservation[b] = Seats!NoReservation
      /\ available' = [available EXCEPT ![f] = @ - n]
      /\ reservation' = [reservation EXCEPT ![b] =
                             [flight |-> f, seats |-> n, status |-> "ACTIVE"]]
  BY DEF Seats!Reserve, Seats!CanReserve
<1>2. b \notin Seats!ActiveFor(f)
  BY <1>1 DEF Seats!ActiveFor, Seats!NoReservation
<1>3. Seats!ActiveFor(f)' = Seats!ActiveFor(f) \cup {b}
  BY <1>1 DEF SeatsTyped, Seats!ActiveFor
<1>4. /\ IsFiniteSet(Seats!ActiveFor(f)')
      /\ SumFunction(Booked(f)') = SumFunction(Booked(f)) + n
  <2>1. /\ DOMAIN Booked(f) = Seats!ActiveFor(f)
        /\ DOMAIN (Booked(f)') = Seats!ActiveFor(f) \cup {b}
    BY <1>3 DEF Booked
  <2>2. (Booked(f)')[b] = n
    BY <1>1, <1>3 DEF Booked, SeatsTyped
  <2>3. \A c \in DOMAIN Booked(f) : (Booked(f)')[c] = Booked(f)[c]
    BY <1>1, <1>2, <1>3, <2>1 DEF Booked, SeatsTyped
  <2> HIDE DEF Booked
  <2>4. Summable(Booked(f)') /\ SumFunction(Booked(f)') = SumFunction(Booked(f)) + n
    BY <1>2, <2>1, <2>2, <2>3, BookedSums, SumFunctionExtend
  <2> QED BY <1>3, <2>1, <2>4 DEF Summable
<1>5. ASSUME NEW h \in Flights, h # f
      PROVE  /\ IsFiniteSet(Seats!ActiveFor(h)')
             /\ available'[h] + SumFunction(Booked(h)') = Capacity[h]
  <2>1. b \notin Seats!ActiveFor(h)
    BY <1>1 DEF Seats!ActiveFor, Seats!NoReservation
  <2>2. Seats!ActiveFor(h)' = Seats!ActiveFor(h)
    BY <1>1, <1>5, <2>1 DEF SeatsTyped, Seats!ActiveFor
  <2>3. \A c \in Seats!ActiveFor(h) : reservation'[c].seats = reservation[c].seats
    BY <1>1, <2>1 DEF SeatsTyped
  <2>4. available'[h] = available[h]
    BY <1>1, <1>5 DEF SeatsTyped
  <2> QED BY <2>2, <2>3, <2>4, OtherFlights DEF Accounted
<1>6. available'[f] + SumFunction(Booked(f)') = Capacity[f]
  <2>1. available'[f] = available[f] - n /\ available[f] \in Int
    BY <1>1 DEF SeatsTyped
  <2>2. available[f] + SumFunction(Booked(f)) = Capacity[f]
    BY DEF Accounted
  <2> QED BY <1>4, <2>1, <2>2, BookedSums
<1> QED BY <1>4, <1>5, <1>6 DEF Accounted

LEMMA ReleaseAccounted ==
    ASSUME SeatsTyped, Accounted, NEW b \in Bookings, Seats!Release(b)
    PROVE  Accounted'
<1>0. reservation[b].flight \in Flights /\ reservation[b].seats \in Int
  BY DEF SeatsTyped, Seats!Release, Seats!Reservation, Seats!NoReservation
<1> PICK f \in Flights, n \in Int :
       reservation[b].flight = f /\ reservation[b].seats = n
  BY <1>0
<1>1. /\ reservation[b].status = "ACTIVE"
      /\ available' = [available EXCEPT ![f] = @ + n]
      /\ reservation' = [reservation EXCEPT ![b].status = "RELEASED"]
  BY DEF Seats!Release
<1>3. /\ reservation'[b].status = "RELEASED"
      /\ \A c \in Bookings : /\ c # b => reservation'[c] = reservation[c]
  BY <1>1 DEF SeatsTyped, Seats!Reservation
<1>4. Seats!ActiveFor(f)' = Seats!ActiveFor(f) \ {b} /\ b \in Seats!ActiveFor(f)
  BY <1>1, <1>3 DEF SeatsTyped, Seats!ActiveFor
<1>5. /\ IsFiniteSet(Seats!ActiveFor(f)')
      /\ SumFunction(Booked(f)) = SumFunction(Booked(f)') + n
  <2>1. /\ DOMAIN Booked(f) = Seats!ActiveFor(f)
        /\ DOMAIN (Booked(f)') = Seats!ActiveFor(f) \ {b}
    BY <1>4 DEF Booked
  <2>2. Booked(f)[b] = n
    BY <1>4 DEF Booked
  <2>3. \A c \in DOMAIN (Booked(f)') : Booked(f)[c] = (Booked(f)')[c]
    BY <1>3, <1>4, <2>1 DEF Booked, Seats!ActiveFor
  <2> HIDE DEF Booked
  <2>4. Summable(Booked(f))
    BY BookedSums
  <2>5. Summable(Booked(f)')
    BY <2>1, <2>3, <2>4, FS_RemoveElement DEF Summable
  <2>6. DOMAIN Booked(f) = DOMAIN (Booked(f)') \cup {b} /\ b \notin DOMAIN (Booked(f)')
    BY <1>4, <2>1
  <2>7. SumFunction(Booked(f)) = SumFunction(Booked(f)') + n
    BY <2>2, <2>3, <2>5, <2>6, SumFunctionExtend
  <2> QED BY <1>4, <2>1, <2>5, <2>7 DEF Summable
<1>6. ASSUME NEW h \in Flights, h # f
      PROVE  /\ IsFiniteSet(Seats!ActiveFor(h)')
             /\ available'[h] + SumFunction(Booked(h)') = Capacity[h]
  <2>1. b \notin Seats!ActiveFor(h)
    BY <1>6 DEF Seats!ActiveFor
  <2>2. Seats!ActiveFor(h)' = Seats!ActiveFor(h)
    BY <1>3, <2>1 DEF Seats!ActiveFor
  <2>3. \A c \in Seats!ActiveFor(h) : reservation'[c].seats = reservation[c].seats
    BY <1>3, <2>1 DEF Seats!ActiveFor
  <2>4. available'[h] = available[h]
    BY <1>1, <1>6 DEF SeatsTyped
  <2> QED BY <2>2, <2>3, <2>4, OtherFlights DEF Accounted
<1>7. available'[f] + SumFunction(Booked(f)') = Capacity[f]
  <2>1. available'[f] = available[f] + n /\ available[f] \in Int
    BY <1>1 DEF SeatsTyped
  <2>2. available[f] + SumFunction(Booked(f)) = Capacity[f]
    BY DEF Accounted
  <2>3. SumFunction(Booked(f)') \in Int
    <3>1. Summable(Booked(f)')
      <4>1. \A c \in Seats!ActiveFor(f)' : reservation'[c].seats \in Int
        <5>1. \A c \in Seats!ActiveFor(f)' : c \in Seats!ActiveFor(f) /\ c # b
          BY <1>4
        <5> QED BY <1>3, <5>1 DEF SeatsTyped, Seats!ActiveFor, Seats!Reservation, Seats!NoReservation
      <4> QED BY <1>5, <4>1 DEF Summable, Booked
    <3> QED BY <3>1, SumFunctionInt
  <2> QED BY <1>5, <2>1, <2>2, <2>3
<1>8. ASSUME NEW h \in Flights
      PROVE  /\ IsFiniteSet(Seats!ActiveFor(h)')
             /\ available'[h] + SumFunction(Booked(h)') = Capacity[h]
  BY <1>5, <1>6, <1>7
<1> QED BY <1>8 DEF Accounted

(* However the calls interleave and fail, every seat is available or in one *)
(* active reservation: the inventory keeps that, and the service implements *)
(* the inventory.                                                           *)
THEOREM SeatsKept == Spec => []SeatsAccountedFor
<1>1. Init => Accounted
  <2> SUFFICES ASSUME Init, NEW f \in Flights
               PROVE  /\ IsFiniteSet(Seats!ActiveFor(f))
                      /\ available[f] + SumFunction(Booked(f)) = Capacity[f]
    BY DEF Accounted
  <2>1. Seats!ActiveFor(f) = {}
    BY DEF Init, Seats!Init, Seats!ActiveFor, Seats!NoReservation
  <2>2. DOMAIN Booked(f) = {}
    BY <2>1 DEF Booked
  <2>3. SumFunction(Booked(f)) = 0
    BY <2>2, SumFunctionEmpty
  <2> QED BY <2>1, <2>3, FS_EmptySet, SeatsAssumption DEF Init, Seats!Init
<1>2. SeatsTyped /\ Accounted /\ [Seats!Next]_(Seats!vars) => Accounted'
  <2> SUFFICES ASSUME SeatsTyped, Accounted, [Seats!Next]_(Seats!vars)
               PROVE  Accounted'
    OBVIOUS
  <2>1. ASSUME NEW b \in Bookings, NEW f \in Flights, NEW n \in 1 .. available[f],
               Seats!Reserve(b, f, n)
        PROVE  Accounted'
    <3>1. available[f] \in Nat
      BY DEF SeatsTyped
    <3>2. n \in Nat
      BY <3>1
    <3> QED BY <2>1, <3>2, ReserveAccounted
  <2>2. CASE UNCHANGED Seats!vars
    BY <2>2 DEF Seats!vars, Accounted, Booked, Seats!ActiveFor
  <2> QED BY <2>1, <2>2, ReleaseAccounted DEF Seats!Next
<1>3. FlightInv => SeatsTyped
  BY DEF FlightInv, DbTyped, SeatsTyped
<1>4. Accounted => SeatsAccountedFor
  <2>1. \A f : Seats!ActiveSeats(f) = SumFunction(Booked(f))
    BY DEF Seats!ActiveSeats, Booked, SumFunction, Seats!SumFunction,
           SumFunctionOnSet, Seats!SumFunctionOnSet, FoldFunctionOnSet,
           Seats!FoldFunctionOnSet, MapThenFoldSet, Seats!MapThenFoldSet
  <2> QED BY <2>1 DEF Accounted, SeatsAccountedFor, Seats!Conserved
<1> QED BY <1>1, <1>2, <1>3, <1>4, FlightAlways, ReservationsAtomic, PTL
        DEF ReservesAtomically, Seats!Spec, Spec
-----------------------------------------------------------------------------
(* The cache.                                                               *)

CacheTyped ==
    /\ cache = [k \in Keys |-> cache[k]]
    /\ got = [g \in Calls |-> got[g]]
    /\ \A k \in Keys : cache[k] # Empty => cache[k] \in [Shown(k) -> Nat]
    /\ \A g \in Calls : pc[g] = "set" => got[g] \in [Shown(req[g].key) -> Nat]
    /\ skipped \in Nat /\ excused \subseteq Keys

(* Which step touches the cache, and what it takes from the reader.         *)
LEMMA CacheSteps ==
    ASSUME FlightInv, [Next]_vars
    PROVE  \/ UNCHANGED cacheVars
           \/ \E g \in Calls : InvalidateFlight(g) \/ InvalidateSearch(g) \/ FillCache(g)
           \/ \E k \in Keys : Expire(k)
<1>1. ASSUME NEW g \in Calls,
             Arrive(g) \/ Commit(g) \/ LookUp(g) \/ QueryFlights(g)
      PROVE  UNCHANGED cacheVars
  BY <1>1 DEF Arrive, Commit, LookUp, QueryFlights
<1>2. ASSUME NEW g \in Calls, Tx(g) PROVE UNCHANGED cacheVars
  BY <1>2 DEF Tx, Begin, LockFlight, InsertReservation, LockReservation, UpdateFlight,
              Fail, Rollback, Lock
<1>3. CASE UNCHANGED vars
  BY <1>3 DEF vars
<1> QED BY <1>1, <1>2, <1>3 DEF Next, Waits, Runs, Tx

(* A call that is about to write the cache holds what it has just read.     *)
GotKept ==
    /\ got' = [g \in Calls |-> got'[g]]
    /\ \A g \in Calls : pc'[g] = "set" =>
         /\ pc[g] \in {"set", "query"} /\ req'[g] = req[g]
         /\ pc[g] = "set" => got'[g] = got[g]
         /\ pc[g] = "query" => got'[g] = Current(req[g].key)

LEMMA GotSteps ==
    ASSUME FlightInv, CacheTyped, [Next]_vars
    PROVE  GotKept
<1>0. /\ got = [g \in Calls |-> got[g]]
      /\ pc = [g \in Calls |-> pc[g]] /\ req = [g \in Calls |-> req[g]]
  BY DEF CacheTyped, FlightInv, DbTyped
<1>1. ASSUME NEW g \in Calls, NEW l, l # "set", pc' = [pc EXCEPT ![g] = l],
             got' = got \/ got' = [got EXCEPT ![g] = Empty],
             req' = req \/ \E r : req' = [req EXCEPT ![g] = r]
      PROVE  GotKept
  BY <1>0, <1>1 DEF GotKept
<1>2. ASSUME NEW g \in Calls, Return(g) PROVE GotKept
  BY <1>1, <1>2 DEF Return, Goto
<1>3. ASSUME NEW g \in Calls, NEW r, NEW l, l # "set", Lock(g, r, l) PROVE GotKept
  BY <1>1, <1>3 DEF Lock, Goto
<1>4. ASSUME NEW g \in Calls, Tx(g) PROVE GotKept
  <2>1. CASE Begin(g)
    BY <1>1, <1>2, <2>1 DEF Begin, Rollback, Goto
  <2>2. CASE LockFlight(g) \/ InsertReservation(g) \/ LockReservation(g)
             \/ UpdateFlight(g) \/ Fail(g)
    BY <1>2, <1>3, <2>2 DEF LockFlight, InsertReservation, LockReservation,
       UpdateFlight, Fail, Rollback
  <2> QED BY <1>4, <2>1, <2>2 DEF Tx
<1>5. ASSUME NEW g \in Calls, Arrive(g) \/ Commit(g) \/ InvalidateFlight(g) PROVE GotKept
  <2>1. PICK l : l # "set" /\ pc' = [pc EXCEPT ![g] = l]
    <3>1. \A r : (IF r \in Mutations THEN "begin" ELSE "lookup") # "set"
      OBVIOUS
    <3> QED BY <1>5, <3>1 DEF Arrive, Commit, InvalidateFlight, Goto
  <2>2. got' = got /\ (req' = req \/ \E r : req' = [req EXCEPT ![g] = r])
    BY <1>5 DEF Arrive, Commit, InvalidateFlight
  <2> QED BY <1>1, <2>1, <2>2
<1>6. ASSUME NEW g \in Calls, InvalidateSearch(g) \/ FillCache(g) PROVE GotKept
  BY <1>2, <1>6 DEF InvalidateSearch, FillCache
<1>7. ASSUME NEW g \in Calls, LookUp(g) PROVE GotKept
  BY <1>1, <1>2, <1>7 DEF LookUp, Goto
<1>8. ASSUME NEW g \in Calls, QueryFlights(g) PROVE GotKept
  BY <1>0, <1>8 DEF QueryFlights, Goto, GotKept
<1>9. ASSUME UNCHANGED callVars PROVE GotKept
  BY <1>0, <1>9 DEF callVars, GotKept
<1>10. CASE (\E k \in Keys : Expire(k)) \/ UNCHANGED vars
  BY <1>9, <1>10 DEF Expire, vars
<1>11. ASSUME NEW g \in Calls, Arrive(g) \/ Waits(g) \/ Runs(g) \/ Fail(g)
       PROVE  GotKept
  BY <1>4, <1>5, <1>6, <1>7, <1>8, <1>11 DEF Waits, Runs, Tx
<1> QED BY <1>10, <1>11 DEF Next

(* A step writes the cache by deleting, by missing a deletion, or by        *)
(* filling in what was read.                                                *)
LEMMA DeleteIs ==
    ASSUME CacheTyped, NEW k \in Keys, Delete(k) \/ SkipDelete(k)
    PROVE  /\ cache' = [j \in Keys |-> cache'[j]]
           /\ \A j \in Keys \ {k} : cache'[j] = cache[j] /\ (j \in excused' <=> j \in excused)
           /\ k \in excused' \/ cache'[k] = Empty
           /\ cache'[k] \in {cache[k], Empty}
           /\ skipped' \in Nat /\ excused' \subseteq Keys
BY DEF CacheTyped, Delete, SkipDelete

LEMMA FillIs ==
    ASSUME FlightInv, CacheTyped, NEW g \in Calls, FillCache(g)
    PROVE  LET k == req[g].key
           IN  /\ k \in Keys /\ UNCHANGED skipped
               /\ \/ UNCHANGED <<cache, excused>>
                  \/ /\ cache' = [cache EXCEPT ![k] = got[g]]
                     /\ got[g] \in [Shown(k) -> Nat]
                     /\ excused' = IF got[g] = Current(k) THEN excused \ {k}
                                   ELSE excused \cup {k}
<1>1. pc[g] = "set" /\ req[g].key \in Keys
  BY CallIs DEF FillCache, FlightInv, Reading
<1> QED BY <1>1 DEF FillCache, CacheTyped

LEMMA DeletedKeys ==
    ASSUME FlightInv, NEW g \in Calls, pc[g] \in Deleting
    PROVE  /\ ChangedFlight(g) \in Flights
           /\ FlightKey(ChangedFlight(g)) \in Keys
           /\ SearchKey(RouteOf[ChangedFlight(g)]) \in Keys
<1>1. ChangedFlight(g) \in Flights
  <2>1. /\ req[g].booking \in Bookings
        /\ Reserves(g) => req[g].flight \in Flights
        /\ ~Reserves(g) => Found(g)
    BY CallIs DEF FlightInv, Claims, Claim
  <2> QED BY <2>1, ReservationIs DEF FlightInv, ChangedFlight, Reserves, Found
<1> QED BY <1>1, KeysAre

LEMMA CacheStep ==
    ASSUME FlightInv, CacheTyped, [Next]_vars
    PROVE  CacheTyped'
<1>1. /\ got' = [g \in Calls |-> got'[g]]
      /\ \A g \in Calls : pc'[g] = "set" => got'[g] \in [Shown(req'[g].key) -> Nat]
  <2>1. \A k \in Keys : Current(k) \in [Shown(k) -> Nat]
    BY KeysAre DEF FlightInv, DbTyped, Current
  <2>2. \A g \in Calls : pc[g] = "query" => req[g].key \in Keys
    BY CallIs DEF FlightInv, Reading
  <2>3. \A g \in Calls : pc[g] = "set" => got[g] \in [Shown(req[g].key) -> Nat]
    BY DEF CacheTyped
  <2> HIDE DEF FlightInv, CacheTyped
  <2> QED BY <2>1, <2>2, <2>3, GotSteps DEF GotKept
<1>2. ASSUME /\ cache' = [k \in Keys |-> cache'[k]]
             /\ \A k \in Keys : \/ cache'[k] \in {cache[k], Empty}
                                \/ cache'[k] \in [Shown(k) -> Nat]
             /\ skipped' \in Nat /\ excused' \subseteq Keys
      PROVE  CacheTyped'
  BY <1>1, <1>2 DEF CacheTyped
<1>3. CASE UNCHANGED cacheVars
  BY <1>2, <1>3 DEF cacheVars, CacheTyped
<1>4. ASSUME NEW k \in Keys, Delete(k) \/ SkipDelete(k) PROVE CacheTyped'
  <2>1. \A j \in Keys : cache'[j] \in {cache[j], Empty}
    BY <1>4, DeleteIs
  <2> QED BY <1>2, <1>4, <2>1, DeleteIs
<1>5. ASSUME NEW g \in Calls, InvalidateFlight(g) \/ InvalidateSearch(g)
      PROVE  CacheTyped'
  BY <1>4, <1>5, DeletedKeys DEF InvalidateFlight, InvalidateSearch, Deleting
<1>6. ASSUME NEW g \in Calls, FillCache(g) PROVE CacheTyped'
  <2> DEFINE k == req[g].key
  <2>1. /\ k \in Keys /\ UNCHANGED skipped
        /\ \/ UNCHANGED <<cache, excused>>
           \/ /\ cache' = [cache EXCEPT ![k] = got[g]]
              /\ got[g] \in [Shown(k) -> Nat]
              /\ excused' \in {excused \ {k}, excused \cup {k}}
    BY <1>6, FillIs
  <2>2. /\ cache = [j \in Keys |-> cache[j]] /\ skipped \in Nat /\ excused \subseteq Keys
    BY DEF CacheTyped
  <2> HIDE DEF k
  <2> QED BY <1>2, <2>1, <2>2
<1>7. ASSUME NEW k \in Keys, Expire(k) PROVE CacheTyped'
  BY <1>4, <1>7 DEF Expire
<1> QED BY <1>3, <1>5, <1>6, <1>7, CacheSteps

(* Every variable keeps its type.                                           *)
THEOREM TypeCorrect == Spec => []TypeOK
<1>1. Init => CacheTyped
  BY DEF Init, CacheTyped
<1>2. FlightInv /\ CacheTyped => TypeOK
  BY DEF FlightInv, DbTyped, CacheTyped, TypeOK
<1> QED BY <1>1, <1>2, CacheStep, FlightAlways, PTL DEF Spec
-----------------------------------------------------------------------------
(* Freshness.  The difference a commit makes is covered by its call, which  *)
(* is about to delete both keys that show the flight.                       *)

Fresh(k) ==
    cache[k] # Empty /\ k \notin excused /\ ~AboutToDelete(k) => cache[k] = Current(k)

(* What a step of g leaves alone: the keys other calls are about to delete. *)
LEMMA DueOfOthers ==
    ASSUME FlightInv, NEW g \in Calls, NEW h \in Calls, h # g,
           Tx(g) \/ Rest(g) \/ Commit(g), pc[h] \in Deleting
    PROVE  pc'[h] = pc[h] /\ ChangedFlight(h)' = ChangedFlight(h)
<1>1. /\ Claim(h) /\ req[h].booking \in Bookings
      /\ ~Reserves(h) => Found(h)
  BY CallIs DEF FlightInv, Claims, Claim
<1>2. CASE Tx(g) \/ Rest(g)
  <2>1. Quiet(g)
    BY <1>2, TxStep, RestStep DEF FlightInv
  <2> QED BY <2>1 DEF Quiet, ChangedFlight
<1>3. CASE Commit(g)
  <2> DEFINE b == req[g].booking
             f == IF Reserves(g) THEN req[g].flight ELSE reservation[b].flight
  <2>1. /\ b \in Bookings
        /\ Reserves(g) => Seats!Reserve(b, f, req[g].seats)
        /\ ~Reserves(g) => Seats!Release(b) /\ HoldsReservation(g)
    BY <1>3, CommitIs DEF FlightInv
  <2>2. pc'[h] = pc[h] /\ req' = req
    BY <1>3 DEF Commit, Goto, FlightInv, DbTyped
  <2>3. ASSUME NEW d \in Bookings, reservation[d] # Seats!NoReservation
        PROVE  reservation'[d].flight = reservation[d].flight
    <3>1. CASE Reserves(g)
      <4>1. reservation[b] = Seats!NoReservation
        BY <2>1, <3>1 DEF Seats!Reserve, Seats!CanReserve
      <4> HIDE DEF b, f
      <4> QED BY <2>1, <2>3, <3>1, <4>1 DEF Seats!Reserve, FlightInv, DbTyped
    <3>2. CASE ~Reserves(g)
      <4>1. /\ [reservation[b] EXCEPT !.status = "RELEASED"].flight = reservation[b].flight
            /\ reservation' = [reservation EXCEPT ![b] =
                                 [reservation[b] EXCEPT !.status = "RELEASED"]]
        BY <2>1, <3>2, ReservationIs DEF HoldsReservation, Seats!Release, FlightInv, DbTyped
      <4> HIDE DEF b, f
      <4> QED BY <2>1, <4>1 DEF FlightInv, DbTyped
    <3> QED BY <3>1, <3>2
  <2>4. ~Reserves(h) => reservation'[req[h].booking].flight
                          = reservation[req[h].booking].flight
    BY <1>1, <2>3 DEF Found
  <2> QED BY <2>2, <2>4 DEF ChangedFlight, Reserves
<1> QED BY <1>2, <1>3

(* A key stays due unless the call that owes its deletion takes the step.   *)
LEMMA DueStays ==
    ASSUME FlightInv, NEW g \in Calls, Tx(g) \/ Rest(g) \/ Commit(g),
           NEW k \in Keys, AboutToDelete(k),
           pc[g] \in Deleting =>
             /\ pc[g] = "delFlight" => k # FlightKey(ChangedFlight(g))
             /\ pc[g] = "delSearch" => k # SearchKey(RouteOf[ChangedFlight(g)])
             /\ ChangedFlight(g)' = ChangedFlight(g)
             /\ pc[g] = "delFlight" => pc'[g] = "delSearch"
    PROVE  AboutToDelete(k)'
<1>1. PICK h \in Calls :
         \/ pc[h] \in Deleting /\ k = SearchKey(RouteOf[ChangedFlight(h)])
         \/ pc[h] = "delFlight" /\ k = FlightKey(ChangedFlight(h))
  BY DEF AboutToDelete, Deleting
<1>2. pc[h] \in Deleting
  BY <1>1 DEF Deleting
<1>3. CASE h # g
  <2>1. pc'[h] = pc[h] /\ ChangedFlight(h)' = ChangedFlight(h)
    BY <1>2, <1>3, DueOfOthers
  <2> QED BY <1>1, <2>1 DEF AboutToDelete, Deleting
<1>4. CASE h = g
  <2>1. /\ pc[g] = "delFlight" /\ pc'[g] = "delSearch"
        /\ k = SearchKey(RouteOf[ChangedFlight(g)])
        /\ ChangedFlight(g)' = ChangedFlight(g)
    BY <1>1, <1>2, <1>4 DEF Deleting
  <2> QED BY <2>1 DEF AboutToDelete
<1> QED BY <1>3, <1>4

LEMMA FreshStep ==
    ASSUME FlightInv, CacheTyped, FreshUnlessExcused, [Next]_vars
    PROVE  FreshUnlessExcused'
<1>0. \A k \in Keys : Fresh(k)
  BY DEF FreshUnlessExcused, Fresh
<1> SUFFICES ASSUME NEW k \in Keys PROVE Fresh(k)'
  BY DEF FreshUnlessExcused, Fresh
<1>1. ASSUME UNCHANGED <<available, cache, excused>>,
             AboutToDelete(k) => AboutToDelete(k)'
      PROVE  Fresh(k)'
  <2>1. Current(k)' = Current(k)
    BY <1>1 DEF Current, Shown
  <2> QED BY <1>0, <1>1, <2>1 DEF Fresh
<1>2. ASSUME NEW g \in Calls,
             Tx(g) \/ Arrive(g) \/ LookUp(g) \/ QueryFlights(g)
      PROVE  Fresh(k)'
  <2>1. UNCHANGED cacheVars /\ available' = available
    BY <1>2, TxStep, RestStep DEF Rest, Quiet, FlightInv, Tx, Begin, LockFlight,
       InsertReservation, LockReservation, UpdateFlight, Fail, Rollback, Lock,
       Arrive, LookUp, QueryFlights
  <2>2. pc[g] \notin Deleting
    BY <1>2 DEF Tx, Begin, LockFlight, InsertReservation, LockReservation, UpdateFlight,
       Fail, Arrive, LookUp, QueryFlights, Deleting
  <2>3. AboutToDelete(k) => AboutToDelete(k)'
    BY <1>2, <2>2, DueStays DEF Rest
  <2> QED BY <1>1, <2>1, <2>3, SMTT(30) DEF cacheVars
<1>3. ASSUME NEW g \in Calls, Commit(g) PROVE Fresh(k)'
  <2> DEFINE b == req[g].booking
             f == IF Reserves(g) THEN req[g].flight ELSE reservation[b].flight
  <2>1. /\ b \in Bookings /\ f \in Flights /\ pc[g] = "commit"
        /\ Reserves(g) => Seats!Reserve(b, f, req[g].seats)
        /\ ~Reserves(g) => Seats!Release(b) /\ HoldsReservation(g)
    BY <1>3, CommitIs DEF FlightInv
  <2>2. UNCHANGED <<cache, excused>>
    BY <1>3 DEF Commit, cacheVars
  <2>3. pc'[g] = "delFlight" /\ req' = req
    BY <1>3, CommitTyped DEF FlightInv
  <2>4. ChangedFlight(g)' = f
    <3>1. CASE Reserves(g)
      BY <2>3, <3>1 DEF ChangedFlight, Reserves
    <3>2. CASE ~Reserves(g)
      <4>1. /\ [reservation[b] EXCEPT !.status = "RELEASED"].flight = reservation[b].flight
            /\ reservation' = [reservation EXCEPT ![b] =
                                 [reservation[b] EXCEPT !.status = "RELEASED"]]
        BY <2>1, <3>2, ReservationIs DEF HoldsReservation, Seats!Release, FlightInv, DbTyped
      <4>2. reservation'[b].flight = reservation[b].flight
        <5> HIDE DEF b, f
        <5> QED BY <2>1, <4>1 DEF FlightInv, DbTyped
      <4> QED BY <2>3, <3>2, <4>2 DEF ChangedFlight, Reserves
    <3> QED BY <3>1, <3>2
  <2>5. \A e \in Flights \ {f} : available'[e] = available[e]
    <3> HIDE DEF b, f
    <3>1. \E n : available' = [available EXCEPT ![f] = n]
      BY <2>1 DEF Seats!Reserve, Seats!Release, f
    <3> QED BY <3>1 DEF FlightInv, DbTyped
  <2> HIDE DEF b, f
  <2>6. CASE f \in Shown(k)
    <3>1. k = FlightKey(f) \/ k = SearchKey(RouteOf[f])
      BY <2>6, KeysAre
    <3>2. AboutToDelete(k)'
      BY <2>3, <2>4, <3>1 DEF AboutToDelete
    <3> QED BY <3>2 DEF Fresh
  <2>7. CASE f \notin Shown(k)
    <3>1. \A e \in Shown(k) : available'[e] = available[e]
      BY <2>5, <2>7, KeysAre
    <3>2. Current(k)' = Current(k)
      BY <3>1 DEF Current, Shown
    <3>3. pc[g] \notin Deleting
      BY <2>1 DEF Deleting
    <3>4. AboutToDelete(k) => AboutToDelete(k)'
      BY <1>3, <3>3, DueStays
    <3> QED BY <1>0, <2>2, <3>2, <3>4 DEF Fresh
  <2> QED BY <2>6, <2>7
<1>4. ASSUME NEW g \in Calls, NEW j \in Keys, Delete(j) \/ SkipDelete(j),
             UNCHANGED <<available, reservation, req>>, Rest(g), pc[g] \in Deleting,
             pc[g] = "delFlight" => j = FlightKey(ChangedFlight(g)) /\ pc'[g] = "delSearch",
             pc[g] = "delSearch" => j = SearchKey(RouteOf[ChangedFlight(g)])
      PROVE  Fresh(k)'
  <2>1. Current(k)' = Current(k) /\ ChangedFlight(g)' = ChangedFlight(g)
    BY <1>4 DEF Current, Shown, ChangedFlight
  <2>2. CASE k = j
    BY <1>4, <2>2, DeleteIs DEF Fresh
  <2>3. CASE k # j
    <3>1. cache'[k] = cache[k] /\ (k \in excused' <=> k \in excused)
      BY <1>4, <2>3, DeleteIs
    <3>2. AboutToDelete(k) => AboutToDelete(k)'
      BY <1>4, <2>1, <2>3, DueStays
    <3> QED BY <1>0, <2>1, <3>1, <3>2 DEF Fresh
  <2> QED BY <2>2, <2>3
<1>5. ASSUME NEW g \in Calls, InvalidateFlight(g) PROVE Fresh(k)'
  <2> DEFINE j == FlightKey(ChangedFlight(g))
  <2>1. /\ pc[g] = "delFlight" /\ pc'[g] = "delSearch"
        /\ Delete(j) \/ SkipDelete(j)
        /\ UNCHANGED <<available, reservation, req>>
    BY <1>5 DEF InvalidateFlight, Goto, dbVars, FlightInv, DbTyped
  <2>2. j \in Keys
    BY <2>1, DeletedKeys DEF Deleting
  <2> QED BY <1>4, <1>5, <2>1, <2>2 DEF Deleting, Rest
<1>6. ASSUME NEW g \in Calls, InvalidateSearch(g) PROVE Fresh(k)'
  <2> DEFINE j == SearchKey(RouteOf[ChangedFlight(g)])
  <2>1. /\ pc[g] = "delSearch"
        /\ Delete(j) \/ SkipDelete(j)
        /\ UNCHANGED <<available, reservation>>
    BY <1>6 DEF InvalidateSearch, dbVars
  <2>2. j \in Keys
    BY <2>1, DeletedKeys DEF Deleting
  <2>3. Current(k)' = Current(k)
    BY <2>1 DEF Current, Shown
  <2>4. CASE k = j
    BY <2>1, <2>2, <2>4, DeleteIs DEF Fresh
  <2>5. CASE k # j
    <3>1. cache'[k] = cache[k] /\ (k \in excused' <=> k \in excused)
      BY <2>1, <2>2, <2>5, DeleteIs
    <3>2. AboutToDelete(k) => AboutToDelete(k)'
      <4> SUFFICES ASSUME AboutToDelete(k) PROVE AboutToDelete(k)'
        OBVIOUS
      <4>1. PICK h \in Calls :
               \/ pc[h] \in Deleting /\ k = SearchKey(RouteOf[ChangedFlight(h)])
               \/ pc[h] = "delFlight" /\ k = FlightKey(ChangedFlight(h))
        BY DEF AboutToDelete, Deleting
      <4>2. h # g
        BY <2>1, <2>5, <4>1
      <4>3. pc'[h] = pc[h] /\ ChangedFlight(h)' = ChangedFlight(h)
        BY <1>6, <4>1, <4>2, DueOfOthers DEF Rest, Deleting
      <4> QED BY <4>1, <4>3 DEF AboutToDelete, Deleting
    <3> QED BY <1>0, <2>3, <3>1, <3>2 DEF Fresh
  <2> QED BY <2>4, <2>5
<1>7. ASSUME NEW g \in Calls, FillCache(g) PROVE Fresh(k)'
  <2> DEFINE j == req[g].key
  <2>1. /\ j \in Keys /\ UNCHANGED dbVars /\ pc[g] = "set"
        /\ \/ UNCHANGED <<cache, excused>>
           \/ /\ cache' = [cache EXCEPT ![j] = got[g]]
              /\ excused' = IF got[g] = Current(j) THEN excused \ {j}
                            ELSE excused \cup {j}
    BY <1>7, FillIs DEF FillCache
  <2>2. \A q \in Keys : Current(q)' = Current(q)
    BY <2>1 DEF dbVars, Current, Shown
  <2>3. AboutToDelete(k) => AboutToDelete(k)'
    BY <1>7, <2>1, DueStays DEF Rest, Deleting
  <2> HIDE DEF j
  <2>4. CASE UNCHANGED <<cache, excused>>
    BY <1>1, <2>1, <2>3, <2>4 DEF dbVars
  <2>5. CASE cache' = [cache EXCEPT ![j] = got[g]] /\ k # j
    BY <1>0, <2>1, <2>2, <2>3, <2>5 DEF Fresh, CacheTyped
  <2>6. CASE cache' = [cache EXCEPT ![j] = got[g]] /\ k = j
             /\ excused' = IF got[g] = Current(j) THEN excused \ {j} ELSE excused \cup {j}
    <3>1. cache'[k] = got[g]
      BY <2>1, <2>6 DEF CacheTyped
    <3> QED BY <2>2, <2>6, <3>1 DEF Fresh
  <2> QED BY <2>1, <2>4, <2>5, <2>6
<1>8. ASSUME NEW j \in Keys, Expire(j) PROVE Fresh(k)'
  <2>1. Delete(j) /\ UNCHANGED <<dbVars, callVars>>
    BY <1>8 DEF Expire
  <2>2. Current(k)' = Current(k) /\ (AboutToDelete(k) <=> AboutToDelete(k)')
    BY <2>1 DEF dbVars, callVars, Current, Shown, AboutToDelete, ChangedFlight
  <2>3. CASE k = j
    BY <2>1, <2>3, DeleteIs DEF Fresh, Delete, CacheTyped
  <2>4. CASE k # j
    BY <1>0, <2>1, <2>2, <2>4, DeleteIs DEF Fresh
  <2> QED BY <2>3, <2>4
<1>9. CASE UNCHANGED vars
  <2>1. UNCHANGED <<available, cache, excused>> /\ (AboutToDelete(k) => AboutToDelete(k)')
    BY <1>9 DEF vars, dbVars, callVars, cacheVars, AboutToDelete, ChangedFlight
  <2> QED BY <1>1, <2>1
<1>10. ASSUME NEW g \in Calls, Arrive(g) \/ Waits(g) \/ Runs(g) \/ Fail(g)
       PROVE  Fresh(k)'
  BY <1>2, <1>3, <1>5, <1>6, <1>7, <1>10 DEF Waits, Runs, Tx
<1> QED BY <1>8, <1>9, <1>10 DEF Next

(* A cached value differs from the database only while the call that made   *)
(* the difference is about to delete it, or after a deletion that did not   *)
(* take place or a read that overlapped the change.                         *)
THEOREM CacheIsFresh == Spec => []FreshUnlessExcused
<1>1. Init => CacheTyped /\ FreshUnlessExcused
  BY DEF Init, CacheTyped, FreshUnlessExcused
<1> QED BY <1>1, CacheStep, FreshStep, FlightAlways, PTL DEF Spec
-----------------------------------------------------------------------------
(* No circle of calls.  A call holds a lock only at the places that its     *)
(* transaction has reached with it, and the places are ranked: at "insert"  *)
(* it waits only for a call at "commit", at "update" only for one at        *)
(* "insert" or "commit", and at "select" for any of the three.              *)

LockPlaces == {"insert", "update", "commit"}

Explained(h, r) ==
    \/ pc[h] = "commit"
    \/ pc[h] = "insert" /\ r = FlightRow(req[h].flight)
    \/ pc[h] = "update" /\ r = ReservationRow(req[h].booking)

LocksExplained == \A r \in Rows, h \in Calls : holder[r] = h => Explained(h, r)

LEMMA ExplainedBut ==
    ASSUME LocksExplained, NEW g \in Calls,
           \A h \in Calls \ {g} : pc'[h] = pc[h] /\ req'[h] = req[h],
           \A r \in Rows : \A h \in Calls \ {g} : holder'[r] = h => holder[r] = h,
           \A r \in Rows : holder'[r] = g => Explained(g, r)'
    PROVE  LocksExplained'
<1> SUFFICES ASSUME NEW r \in Rows, NEW h \in Calls, holder'[r] = h
             PROVE  Explained(h, r)'
  BY DEF LocksExplained
<1>1. CASE h = g
  BY <1>1
<1>2. CASE h # g
  BY <1>2 DEF LocksExplained, Explained
<1> QED BY <1>1, <1>2

LEMMA FreeingExplained ==
    ASSUME DbTyped, LocksExplained, NEW g \in Calls, holder' = Unlocked(g),
           \A h \in Calls \ {g} : pc'[h] = pc[h] /\ req'[h] = req[h]
    PROVE  LocksExplained'
<1>1. \A r \in Rows : holder'[r] # g /\ \A h \in Calls : holder'[r] = h => holder[r] = h
  BY FreeAssumption DEF Unlocked
<1> QED BY <1>1, ExplainedBut

(* A call that is at none of the lock places holds nothing.                 *)
LEMMA HoldsNothing ==
    ASSUME LocksExplained, NEW g \in Calls, pc[g] \notin LockPlaces
    PROVE  \A r \in Rows : holder[r] # g
BY DEF LocksExplained, Explained, LockPlaces

LEMMA LockExplained ==
    ASSUME DbTyped, LocksExplained, NEW g \in Calls, NEW r \in Rows, holder[r] = Free,
           NEW l \in Places, Lock(g, r, l),
           \/ l = "commit"
           \/ pc[g] = "select" /\ l = "insert" /\ r = FlightRow(req[g].flight)
           \/ pc[g] = "select" /\ l = "update" /\ r = ReservationRow(req[g].booking)
    PROVE  LocksExplained'
<1>1. /\ Quiet(g) /\ pc'[g] = l /\ req' = req
      /\ \A q \in Rows : holder'[q] = IF q = r THEN g ELSE holder[q]
  BY LockIs DEF DbTyped
<1>2. pc[g] = "select" => \A q \in Rows : holder[q] # g
  BY HoldsNothing DEF LockPlaces
<1>3. \A q \in Rows : holder'[q] = g => Explained(g, q)'
  BY <1>1, <1>2 DEF Explained
<1>4. \A q \in Rows : \A h \in Calls \ {g} : holder'[q] = h => holder[q] = h
  BY <1>1
<1> QED BY <1>1, <1>3, <1>4, ExplainedBut DEF Quiet

LEMMA ExplainedStep == FlightInv /\ LocksExplained /\ [Next]_vars => LocksExplained'
<1> SUFFICES ASSUME DbTyped, Claims, LocksExplained, [Next]_vars
             PROVE  LocksExplained'
  BY DEF FlightInv
<1>0. ASSUME NEW g \in Calls, Rollback(g) PROVE LocksExplained'
  BY <1>0, RollbackIs, FreeingExplained DEF Rollback, Quiet
(* A step that leaves the locks alone, of a call that has none.             *)
<1>1. ASSUME NEW g \in Calls, pc[g] \notin LockPlaces, holder' = holder, Quiet(g)
      PROVE  LocksExplained'
  BY <1>1, HoldsNothing, ExplainedBut DEF Quiet
<1>2. ASSUME NEW g \in Calls, Rest(g) PROVE LocksExplained'
  <2>1. Quiet(g)
    BY <1>2, RestStep
  <2>2. pc[g] \notin LockPlaces /\ holder' = holder
    BY <1>2 DEF Rest, Arrive, InvalidateFlight, InvalidateSearch, LookUp, QueryFlights,
                FillCache, dbVars, LockPlaces
  <2> QED BY <1>1, <2>1, <2>2
<1>3. ASSUME NEW g \in Calls, Tx(g) PROVE LocksExplained'
  <2>0. /\ Claim(g)
        /\ pc[g] \in InTransaction =>
             /\ req[g].booking \in Bookings
             /\ Reserves(g) => req[g].flight \in Flights
    BY CallIs DEF Claims
  <2>1. CASE Begin(g)
    <3>1. Quiet(g)
      BY <1>3, TxStep
    <3>2. pc[g] \notin LockPlaces
      BY <2>1 DEF Begin, LockPlaces
    <3> QED BY <1>0, <1>1, <2>1, <3>1, <3>2 DEF Begin, dbVars
  <2>2. CASE LockFlight(g)
    <3> DEFINE r == FlightRow(req[g].flight)
    <3>1. pc[g] = "select" /\ Reserves(g) /\ holder[r] = Free
      BY <2>2 DEF LockFlight, Reserves
    <3>2. r \in Rows /\ "insert" \in Places
      BY <2>0, <3>1, RowsAre DEF InTransaction, Places
    <3>3. CASE Lock(g, r, "insert")
      BY <3>1, <3>2, <3>3, LockExplained
    <3> QED BY <1>0, <2>2, <3>3 DEF LockFlight
  <2>3. CASE InsertReservation(g)
    <3> DEFINE r == ReservationRow(req[g].booking)
    <3>1. pc[g] = "insert" /\ r \in Rows /\ "commit" \in Places
      BY <2>0, <2>3, RowsAre DEF InsertReservation, InTransaction, Places
    <3>2. CASE holder[r] = Free /\ Lock(g, r, "commit")
      BY <3>1, <3>2, LockExplained
    <3> QED BY <1>0, <2>3, <3>2 DEF InsertReservation
  <2>4. CASE LockReservation(g)
    <3> DEFINE r == ReservationRow(req[g].booking)
    <3>1. pc[g] = "select" /\ holder[r] = Free
      BY <2>4 DEF LockReservation
    <3>2. r \in Rows /\ "update" \in Places
      BY <2>0, <3>1, RowsAre DEF InTransaction, Places
    <3>3. CASE Lock(g, r, "update")
      BY <3>1, <3>2, <3>3, LockExplained
    <3> QED BY <1>0, <2>4, <3>3 DEF LockReservation
  <2>5. CASE UpdateFlight(g)
    <3> DEFINE r == FlightRow(reservation[req[g].booking].flight)
    <3>1. pc[g] = "update" /\ holder[r] = Free
      BY <2>5 DEF UpdateFlight
    <3>2. reservation[req[g].booking].flight \in Flights
      BY <2>0, <3>1, ReservationIs DEF Claim, HoldsReservation, InTransaction
    <3>3. r \in Rows /\ "commit" \in Places
      BY <3>2, RowsAre DEF Places
    <3>4. CASE Lock(g, r, "commit")
      BY <3>1, <3>3, <3>4, LockExplained
    <3> QED BY <1>0, <2>5, <3>4 DEF UpdateFlight
  <2>6. CASE Fail(g)
    BY <1>0, <2>6 DEF Fail
  <2> QED BY <1>3, <2>1, <2>2, <2>3, <2>4, <2>5, <2>6 DEF Tx
<1>4. ASSUME NEW g \in Calls, Commit(g) PROVE LocksExplained'
  BY <1>4, CommitTyped, FreeingExplained DEF Commit, Goto, DbTyped
<1>5. ASSUME UNCHANGED <<dbVars, callVars>> PROVE LocksExplained'
  BY <1>5 DEF dbVars, callVars, LocksExplained, Explained
<1>6. CASE \E k \in Keys : Expire(k)
  BY <1>5, <1>6 DEF Expire
<1>7. CASE UNCHANGED vars
  BY <1>5, <1>7 DEF vars
<1> QED BY <1>2, <1>3, <1>4, <1>6, <1>7 DEF Next, Waits, Runs, Tx, Rest

(* The ranks: whom a call that waits can be waiting for.                    *)
LEMMA WaitsUpward ==
    ASSUME DbTyped, Claims, LocksExplained, NEW g \in Calls, NEW h \in Calls,
           WaitsFor(g, h)
    PROVE  /\ pc[g] \in {"select", "insert", "update"}
           /\ pc[h] \in LockPlaces
           /\ pc[g] = "insert" => pc[h] = "commit"
           /\ pc[g] = "update" => pc[h] \in {"insert", "commit"}
<1>1. pc[g] \in {"select", "insert", "update"}
  BY DEF WaitsFor
<1>2. /\ Claim(g) /\ Claim(h)
      /\ req[g].booking \in Bookings
      /\ req[g].op \in {"ReserveSeats", "ReleaseReservation"}
      /\ Reserves(g) => req[g].flight \in Flights
  BY <1>1, CallIs DEF Claims, InTransaction
<1>3. ReservationRow(req[g].booking) \in Rows
  BY <1>2, RowsAre
<1>4. CASE pc[g] = "select"
  <2>1. \E r \in Rows : holder[r] = h
    BY <1>2, <1>3, <1>4, RowsAre DEF WaitsFor, Reserves
  <2> QED BY <1>4, <2>1 DEF LocksExplained, Explained, LockPlaces
<1>5. CASE pc[g] = "insert" /\ pc[h] # "commit"
  <2> DEFINE r == ReservationRow(req[g].booking)
  <2>1. holder[r] = h /\ ~Found(g)
    BY <1>5 DEF WaitsFor, Found
  <2>2. Explained(h, r)
    BY <1>3, <2>1 DEF LocksExplained
  <2>3. pc[h] # "insert"
    <3> SUFFICES ASSUME pc[h] = "insert" PROVE FALSE
      OBVIOUS
    <3>1. r = FlightRow(req[h].flight) /\ Reserves(h)
      BY <1>2, <2>2 DEF Explained, Claim
    <3>2. req[h].flight \in Flights
      BY <3>1, CallIs DEF InTransaction
    <3> QED BY <1>2, <3>1, <3>2, RowsAre
  (* A release that has locked the row has found the reservation.           *)
  <2>4. pc[h] # "update"
    <3> SUFFICES ASSUME pc[h] = "update" PROVE FALSE
      OBVIOUS
    <3>1. r = ReservationRow(req[h].booking) /\ HoldsReservation(h)
      BY <1>2, <2>2 DEF Explained, Claim
    <3>2. req[h].booking \in Bookings
      BY CallIs DEF InTransaction
    <3>3. req[h].booking = req[g].booking
      BY <1>2, <3>1, <3>2, RowsAre
    <3> QED BY <1>2, <2>1, <3>1, <3>3, ReservationIs DEF Found, HoldsReservation
  <2> QED BY <1>5, <2>2, <2>3, <2>4 DEF Explained
<1>6. CASE pc[g] = "update"
  <2> DEFINE r == FlightRow(reservation[req[g].booking].flight)
  <2>1. reservation[req[g].booking].flight \in Flights
    BY <1>2, <1>6, ReservationIs DEF Claim, HoldsReservation
  <2>2. r \in Rows /\ Explained(h, r)
    BY <1>6, <2>1, RowsAre DEF LocksExplained, WaitsFor
  <2>3. pc[h] # "update"
    <3> SUFFICES ASSUME pc[h] = "update" PROVE FALSE
      OBVIOUS
    <3>1. r = ReservationRow(req[h].booking) /\ req[h].booking \in Bookings
      BY <2>2, CallIs DEF Explained, InTransaction
    <3> QED BY <2>1, <3>1, RowsAre
  <2> QED BY <1>6, <2>2, <2>3 DEF Explained, LockPlaces
<1> QED BY <1>1, <1>4, <1>5, <1>6 DEF LockPlaces

(* Although the two operations lock their rows in opposite orders, no calls *)
(* ever wait for each other in a circle, whatever their number.             *)
THEOREM NoCircle == Spec => []NoDeadlock
<1>1. Init => LocksExplained
  BY FreeAssumption DEF Init, LocksExplained
<1>2. FlightInv /\ LocksExplained => NoDeadlock
  <2> SUFFICES ASSUME DbTyped, Claims, LocksExplained,
                      NEW S \in (SUBSET Calls) \ {{}},
                      \A g \in S : \E h \in S : WaitsFor(g, h)
               PROVE  FALSE
    BY DEF FlightInv, NoDeadlock
  <2>1. \A g \in S : \E h \in S : WaitsFor(g, h) /\ g \in Calls /\ h \in Calls
    OBVIOUS
  <2>2. \A g \in S : pc[g] \in {"select", "insert", "update"}
    BY <2>1, WaitsUpward
  <2>3. \A g \in S : pc[g] # "insert"
    BY <2>1, <2>2, WaitsUpward
  <2>4. \A g \in S : pc[g] # "update"
    BY <2>1, <2>2, <2>3, WaitsUpward
  <2>5. \A g \in S : pc[g] # "select"
    BY <2>1, <2>2, <2>3, <2>4, WaitsUpward DEF LockPlaces
  <2> QED BY <2>2, <2>3, <2>4, <2>5
<1> QED BY <1>1, <1>2, ExplainedStep, FlightAlways, PTL DEF Spec
=============================================================================
