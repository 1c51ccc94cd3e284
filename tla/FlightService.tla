---------------------------- MODULE FlightService ----------------------------
(***************************************************************************)
(* The flight service (hm3/flight-service): gRPC calls handled             *)
(* concurrently, each a goroutine.  ReserveSeats and ReleaseReservation    *)
(* run a SERIALIZABLE Postgres transaction that locks rows with SELECT ... *)
(* FOR UPDATE and UPDATE, and delete cache entries after the commit;       *)
(* GetFlight and SearchFlights read through a cache-aside Redis cache.     *)
(*                                                                         *)
(* A transaction sees the rows as of its first statement; locking a row    *)
(* that another transaction has changed and committed since then fails     *)
(* (could not serialize access due to concurrent update).                  *)
(***************************************************************************)
EXTENDS Integers

CONSTANTS
    Flights, Bookings, Scheduled, Capacity,
    Routes, RouteOf,     \* origin, destination and date of each flight
    Calls,               \* the calls the server handles at one time
    SeatCounts,          \* the seat counts clients ask for
    Asked,               \* the requests clients make, some of Requests
    MaxSkipped,          \* bound on cache deletions that do not take place
    Free, Empty          \* no call holds the row, no value is cached

ASSUME SeatsAssumption ==
    Scheduled \subseteq Flights /\ Capacity \in [Flights -> Nat \ {0}]
ASSUME SeatCountsAssumption == SeatCounts \subseteq Nat \ {0}  \* grpc_server.go 77
ASSUME RoutesAssumption == RouteOf \in [Flights -> Routes]
ASSUME FreeAssumption == Free \notin Calls

VARIABLES
    available, reservation,   \* committed state of the database
    pc,         \* where each call stands
    req,        \* its request
    stale,      \* rows other calls committed since its transaction's snapshot
    holder,     \* the call whose transaction has locked a row
    cache,      \* Redis: the value of each key, or Empty
    got,        \* what a reading call got from the database
    skipped,    \* number of cache deletions that did not take place
    excused     \* history: keys that were set to an old value or not deleted

dbVars    == <<available, reservation, holder>>
callVars  == <<pc, req, stale, got>>
cacheVars == <<cache, skipped, excused>>
vars      == <<dbVars, callVars, cacheVars>>

Seats == INSTANCE SeatInventory
           WITH available <- available, reservation <- reservation

FlightRow(f) == <<"flights", f>>
ReservationRow(b) == <<"seat_reservations", b>>
Rows == {FlightRow(f) : f \in Flights} \cup {ReservationRow(b) : b \in Bookings}

(* Cache keys "flight:<id>" and "search:<origin>:<destination>:<date>", and *)
(* the seats a value shows.                                                 *)
FlightKey(f) == <<"flight", f>>
SearchKey(r) == <<"search", r>>
Keys == {FlightKey(f) : f \in Flights} \cup {SearchKey(r) : r \in Routes}

Shown(k) ==
    IF k[1] = "flight" THEN {k[2]}
    ELSE {f \in Scheduled : RouteOf[f] = k[2]}

Current(k) == [f \in Shown(k) |-> available[f]]

Mutations ==
    [op: {"ReserveSeats"}, booking: Bookings, flight: Flights, seats: SeatCounts]
        \cup [op: {"ReleaseReservation"}, booking: Bookings]
Reads == [op: {"GetFlight", "SearchFlights"}, key: Keys]
Requests ==
    Mutations \cup {r \in Reads : r.op = "GetFlight" <=> r.key[1] = "flight"}
NoRequest == [op |-> "NONE"]

ASSUME AskedAssumption == Asked \subseteq Requests

Init ==
    /\ Seats!Init
    /\ pc = [g \in Calls |-> "idle"]
    /\ req = [g \in Calls |-> NoRequest]
    /\ stale = [g \in Calls |-> {}]
    /\ holder = [r \in Rows |-> Free]
    /\ cache = [k \in Keys |-> Empty]
    /\ got = [g \in Calls |-> Empty]
    /\ skipped = 0
    /\ excused = {}

Goto(g, l) == pc' = [pc EXCEPT ![g] = l]

(* The call returns, with a result or an error.                             *)
Return(g) ==
    /\ Goto(g, "idle")
    /\ req' = [req EXCEPT ![g] = NoRequest]
    /\ stale' = [stale EXCEPT ![g] = {}]
    /\ got' = [got EXCEPT ![g] = Empty]

Unlocked(g) == [r \in Rows |-> IF holder[r] = g THEN Free ELSE holder[r]]

(* Mutant: an error leaves the transaction open.                            *)
MutRollbackForgotten(g) ==
    /\ Return(g)
    /\ UNCHANGED <<holder, available, reservation, cacheVars>>

(* defer tx.Rollback: every return before the commit rolls back.            *)
Rollback(g) ==
    /\ Return(g)
    /\ holder' = Unlocked(g)
    /\ UNCHANGED <<available, reservation, cacheVars>>

Lock(g, r, l) ==
    /\ holder' = [holder EXCEPT ![r] = g]
    /\ Goto(g, l)
    /\ UNCHANGED <<available, reservation, req, stale, got, cacheVars>>

Arrive(g) ==
    /\ pc[g] = "idle"
    /\ \E r \in Asked :
          /\ req' = [req EXCEPT ![g] = r]
          /\ Goto(g, IF r \in Mutations THEN "begin" ELSE "lookup")
    /\ UNCHANGED <<stale, got, dbVars, cacheVars>>
-----------------------------------------------------------------------------
(* Transactions.                                                            *)

(* The first statement takes the snapshot.  A reservation that is not in it *)
(* is not found.                                                            *)
Begin(g) ==
    /\ pc[g] = "begin"
    /\ \/ /\ \/ req[g].op = "ReserveSeats"
             \/ reservation[req[g].booking] # Seats!NoReservation
          /\ Goto(g, "select")
          /\ stale' = [stale EXCEPT ![g] = {}]
          /\ UNCHANGED <<req, got, dbVars, cacheVars>>
       \/ /\ req[g].op = "ReleaseReservation"
          /\ reservation[req[g].booking] = Seats!NoReservation
          /\ Rollback(g)

(* SELECT ... FROM flights ... FOR UPDATE: it waits for the lock, fails on  *)
(* a row changed since the snapshot, and the checks follow.                 *)
LockFlight(g) ==
    /\ pc[g] = "select" /\ req[g].op = "ReserveSeats"
    /\ LET f == req[g].flight
           fails == \/ FlightRow(f) \in stale[g]
                    \/ f \notin Scheduled
                    \/ available[f] < req[g].seats
       IN /\ holder[FlightRow(f)] = Free
          /\ \/ fails /\ Rollback(g)
             \/ ~fails /\ Lock(g, FlightRow(f), "insert")

(* Mutant: a released reservation is taken over.                            *)
MutInsertReopens(g) ==
    /\ pc[g] = "insert"
    /\ LET b == req[g].booking
       IN \/ reservation[b].status = "ACTIVE" /\ Rollback(g)
          \/ /\ reservation[b].status # "ACTIVE"
             /\ holder[ReservationRow(b)] = Free
             /\ Lock(g, ReservationRow(b), "commit")

(* INSERT INTO seat_reservations: booking_id is unique; it waits for an     *)
(* insertion of the same id that is not committed.                          *)
InsertReservation(g) ==
    /\ pc[g] = "insert"
    /\ LET b == req[g].booking
       IN \/ reservation[b] # Seats!NoReservation /\ Rollback(g)
          \/ /\ reservation[b] = Seats!NoReservation
             /\ holder[ReservationRow(b)] = Free
             /\ Lock(g, ReservationRow(b), "commit")

(* Mutant: the status of the reservation is not looked at.                  *)
MutLockReservationUnchecked(g) ==
    /\ pc[g] = "select" /\ req[g].op = "ReleaseReservation"
    /\ holder[ReservationRow(req[g].booking)] = Free
    /\ Lock(g, ReservationRow(req[g].booking), "update")

(* SELECT ... FROM seat_reservations ... FOR UPDATE.                        *)
LockReservation(g) ==
    /\ pc[g] = "select" /\ req[g].op = "ReleaseReservation"
    /\ LET b == req[g].booking
           fails == \/ ReservationRow(b) \in stale[g]
                    \/ reservation[b].status # "ACTIVE"
       IN /\ holder[ReservationRow(b)] = Free
          /\ \/ fails /\ Rollback(g)
             \/ ~fails /\ Lock(g, ReservationRow(b), "update")

(* UPDATE flights SET available_seats = available_seats + $1.               *)
UpdateFlight(g) ==
    /\ pc[g] = "update"
    /\ LET r == FlightRow(reservation[req[g].booking].flight)
       IN /\ holder[r] = Free
          /\ \/ r \in stale[g] /\ Rollback(g)
             \/ r \notin stale[g] /\ Lock(g, r, "commit")

ChangedBy(g) ==
    LET b == req[g].booking
    IN  {ReservationRow(b),
         FlightRow(IF req[g].op = "ReserveSeats" THEN req[g].flight
                   ELSE reservation[b].flight)}

Commit(g) ==
    /\ pc[g] = "commit"
    /\ LET b == req[g].booking
       IN \/ /\ req[g].op = "ReserveSeats"
             /\ available' = [available EXCEPT ![req[g].flight] = @ - req[g].seats]
             /\ reservation' = [reservation EXCEPT ![b] =
                    [flight |-> req[g].flight, seats |-> req[g].seats,
                     status |-> "ACTIVE"]]
          \/ /\ req[g].op = "ReleaseReservation"
             /\ available' = [available EXCEPT ![reservation[b].flight] =
                                 @ + reservation[b].seats]
             /\ reservation' = [reservation EXCEPT ![b].status = "RELEASED"]
    /\ holder' = Unlocked(g)
    /\ stale' = [h \in Calls |-> IF pc[h] \in {"select", "insert", "update", "commit"}
                                 THEN stale[h] \cup ChangedBy(g) ELSE stale[h]]
    /\ Goto(g, "delFlight")
    /\ UNCHANGED <<req, got, cacheVars>>

(* An error of the database, a serialization failure found at the commit,   *)
(* or a cancelled context ends the transaction.                             *)
Fail(g) ==
    /\ pc[g] \in {"begin", "select", "insert", "update", "commit"}
    /\ Rollback(g)
-----------------------------------------------------------------------------
(* invalidateFlightCache, after the commit.                                 *)

ChangedFlight(g) ==
    IF req[g].op = "ReserveSeats" THEN req[g].flight
    ELSE reservation[req[g].booking].flight

Delete(k) ==
    /\ cache' = [cache EXCEPT ![k] = Empty]
    /\ excused' = excused \ {k}
    /\ UNCHANGED skipped

(* Redis fails, the context is cancelled or the server dies.                *)
SkipDelete(k) ==
    /\ skipped < MaxSkipped
    /\ skipped' = skipped + 1
    /\ excused' = excused \cup {k}
    /\ UNCHANGED cache

(* Mutant: the search of the route is not deleted.                          *)
MutInvalidateFlightOnly(g) ==
    /\ pc[g] = "delFlight"
    /\ LET k == FlightKey(ChangedFlight(g)) IN Delete(k) \/ SkipDelete(k)
    /\ Return(g)
    /\ UNCHANGED dbVars

InvalidateFlight(g) ==
    /\ pc[g] = "delFlight"
    /\ LET k == FlightKey(ChangedFlight(g)) IN Delete(k) \/ SkipDelete(k)
    /\ Goto(g, "delSearch")
    /\ UNCHANGED <<req, stale, got, dbVars>>

InvalidateSearch(g) ==
    /\ pc[g] = "delSearch"
    /\ LET k == SearchKey(RouteOf[ChangedFlight(g)]) IN Delete(k) \/ SkipDelete(k)
    /\ Return(g)
    /\ UNCHANGED dbVars
-----------------------------------------------------------------------------
(* GetFlight and SearchFlights: cache-aside reads.                          *)

(* A cached search without flights is null and taken for a miss.            *)
Hit(k) == cache[k] # Empty /\ Shown(k) # {}

LookUp(g) ==
    /\ pc[g] = "lookup"
    /\ \/ Hit(req[g].key) /\ Return(g)
       \/ Goto(g, "query") /\ UNCHANGED <<req, stale, got>>
    /\ UNCHANGED <<dbVars, cacheVars>>

QueryFlights(g) ==
    /\ pc[g] = "query"
    /\ got' = [got EXCEPT ![g] = Current(req[g].key)]
    /\ Goto(g, "set")
    /\ UNCHANGED <<req, stale, dbVars, cacheVars>>

(* The value is written whatever happened since it was read; an error of    *)
(* Redis is only logged.                                                    *)
FillCache(g) ==
    /\ pc[g] = "set"
    /\ LET k == req[g].key
       IN \/ /\ cache' = [cache EXCEPT ![k] = got[g]]
             /\ excused' = IF got[g] = Current(k) THEN excused \ {k}
                           ELSE excused \cup {k}
          \/ UNCHANGED <<cache, excused>>
    /\ Return(g)
    /\ UNCHANGED <<skipped, dbVars>>

Expire(k) ==
    /\ cache[k] # Empty
    /\ Delete(k)
    /\ UNCHANGED <<dbVars, callVars>>
-----------------------------------------------------------------------------
Waits(g) ==
    LockFlight(g) \/ InsertReservation(g) \/ LockReservation(g) \/ UpdateFlight(g)

Runs(g) ==
    \/ Begin(g)
    \/ Commit(g)
    \/ InvalidateFlight(g)
    \/ InvalidateSearch(g)
    \/ LookUp(g)
    \/ QueryFlights(g)
    \/ FillCache(g)

Next ==
    \/ \E g \in Calls : Arrive(g) \/ Waits(g) \/ Runs(g) \/ Fail(g)
    \/ \E k \in Keys : Expire(k)

Spec == Init /\ [][Next]_vars

(* The server runs its goroutines; Postgres grants a row lock to a waiting  *)
(* transaction when the row is free again and again.                        *)
FairSpec == Spec /\ \A g \in Calls : WF_vars(Runs(g)) /\ SF_vars(Waits(g))
-----------------------------------------------------------------------------
Places == {"idle", "begin", "select", "insert", "update", "commit", "delFlight",
           "delSearch", "lookup", "query", "set"}

(* Every variable keeps its type.                                           *)
TypeOK ==
    /\ available \in [Flights -> Nat]
    /\ reservation \in [Bookings -> Seats!Reservation \cup {Seats!NoReservation}]
    /\ pc \in [Calls -> Places]
    /\ req \in [Calls -> Requests \cup {NoRequest}]
    /\ stale \in [Calls -> SUBSET Rows]
    /\ holder \in [Rows -> Calls \cup {Free}]
    /\ \A k \in Keys : cache[k] # Empty => cache[k] \in [Shown(k) -> Nat]
    /\ DOMAIN cache = Keys /\ DOMAIN got = Calls
    /\ skipped \in Nat /\ excused \subseteq Keys

(* However the calls interleave and fail, every seat of a flight is either  *)
(* available or in exactly one active reservation.                          *)
SeatsAccountedFor == Seats!Conserved

(* To its callers the service is an inventory with atomic operations: no    *)
(* overselling, no seat given back twice, no reservation reopened.          *)
ReservesAtomically == Seats!Spec

(* A cached value differs from the database only while the call that made   *)
(* the difference is about to delete it, after a deletion that did not take *)
(* place, or when a read that overlapped the change was written after it    *)
(* (flight_service.go 77, 89 "Invalidate cache after mutation").            *)
AboutToDelete(k) ==
    \E g \in Calls :
        \/ /\ pc[g] \in {"delFlight", "delSearch"}
           /\ k = SearchKey(RouteOf[ChangedFlight(g)])
        \/ pc[g] = "delFlight" /\ k = FlightKey(ChangedFlight(g))

FreshUnlessExcused ==
    \A k \in Keys :
        cache[k] # Empty /\ k \notin excused /\ ~AboutToDelete(k)
            => cache[k] = Current(k)

(* The next statement of one call needs a row that another has locked.  The *)
(* insertion of an id that exists fails at once, unless a release has an    *)
(* update of its row that is not committed.                                 *)
WaitsFor(g, h) ==
    LET b == req[g].booking
    IN  \/ /\ pc[g] = "select" /\ req[g].op = "ReserveSeats"
           /\ holder[FlightRow(req[g].flight)] = h
        \/ /\ pc[g] = "select" /\ req[g].op = "ReleaseReservation"
           /\ holder[ReservationRow(b)] = h
        \/ /\ pc[g] = "insert"
           /\ holder[ReservationRow(b)] = h
           /\ reservation[b] = Seats!NoReservation \/ pc[h] = "commit"
        \/ /\ pc[g] = "update"
           /\ holder[FlightRow(reservation[b].flight)] = h

(* A release locks the reservation and then the flight, a reservation the   *)
(* flight and then the new reservation (flight_repository.go 89-123,        *)
(* 151-180): even so no calls wait for each other in a circle, and none for *)
(* a lock that was left behind.                                             *)
NoDeadlock ==
    \A S \in (SUBSET Calls) \ {{}} :
        \E g \in S : \A h \in S : ~WaitsFor(g, h)

(* No call waits for ever: it gets its row locks, and every failure frees   *)
(* them.                                                                    *)
EveryCallReturns == \A g \in Calls : []<>(pc[g] = "idle")
=============================================================================
