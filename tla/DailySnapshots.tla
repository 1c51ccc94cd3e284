---------------------------- MODULE DailySnapshots ----------------------------
(***************************************************************************)
(* What the stores of the cinema analytics (hm5: movie_aggregates in       *)
(* Postgres, the Parquet objects in MinIO) promise their readers: what     *)
(* they show of a day is what the source of views held of that day at some *)
(* moment, and they never go back to an earlier moment.  The source only   *)
(* grows.                                                                  *)
(***************************************************************************)
EXTENDS Integers

CONSTANTS Stores, Days, Movies

VARIABLES
    source,         \* views of each movie, by day
    published       \* the same as each store has it

vars == <<source, published>>

Rows == [Movies -> Nat]
NoRows == [m \in Movies |-> 0]

(* r is of an earlier moment than q, or of the same.                        *)
AtMost(r, q) == \A m \in Movies : r[m] <= q[m]

Init ==
    /\ source = [d \in Days |-> NoRows]
    /\ published = [s \in Stores |-> [d \in Days |-> NoRows]]

View(d, m) ==
    /\ source' = [source EXCEPT ![d][m] = @ + 1]
    /\ UNCHANGED published

Publish(s, d) ==
    /\ AtMost(published[s][d], published'[s][d])
    /\ AtMost(published'[s][d], source[d])
    /\ published' = [published EXCEPT ![s][d] = published'[s][d]]
    /\ UNCHANGED source

Next ==
    \/ \E d \in Days, m \in Movies : View(d, m)
    \/ \E s \in Stores, d \in Days : Publish(s, d)

Spec == Init /\ [][Next]_vars
=============================================================================
