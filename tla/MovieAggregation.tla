--------------------------- MODULE MovieAggregation ---------------------------
(***************************************************************************)
(* The aggregation service of the cinema pipeline (hm5/aggregation): a run *)
(* reads the views of yesterday and today from ClickHouse, day by day,     *)
(* upserts them with their ranks into Postgres and exports them to MinIO,  *)
(* and keeps a row on itself in aggregation_runs; /export-parquet exports  *)
(* one day by hand.  Both are coroutines that never await, so at most one  *)
(* is under way; views go on arriving, days pass, calls fail with or       *)
(* without effect, and the process is killed and restarted.                *)
(***************************************************************************)
EXTENDS Integers, Sequences, FiniteSets

CONSTANTS
    Movies,         \* a set of integers: the order of movie ids breaks ties
    LastDay,        \* bound on the days that pass
    Attempts,       \* stop_after_attempt of the three retried calls
    ViewDays,       \* the days views arrive for
    MaxViews, MaxRuns                \* bounds for model checking

ASSUME ConstantsAssumption ==
    /\ Movies \subseteq Int /\ IsFiniteSet(Movies)
    /\ {MaxViews, MaxRuns} \subseteq Nat
    /\ {LastDay, Attempts} \subseteq Nat \ {0}
    /\ ViewDays \subseteq 0 .. LastDay

VARIABLES
    today,          \* the date
    views,          \* movie_events: VIEW_STARTED rows of each day and movie
    table,          \* movie_aggregates: views_count and rank_position
    objects,        \* the Parquet object of each day
    runs,           \* aggregation_runs
    pc, job,        \* the call under way and its local variables
    torn            \* history: runs that began or ended in a failing call to
                    \* Postgres, or in a crash; no action reads it

vars == <<today, views, table, objects, runs, pc, job, torn>>

Days == 0 .. LastDay

(* Rows of a query, by movie; GROUP BY returns no row with a count of zero. *)
Rows == [Movies -> Nat]
NoRows == [m \in Movies |-> 0]
InRows(r) == {m \in Movies : r[m] > 0}

Manual == 0         \* the job of /export-parquet has no run
NoJob == [run |-> Manual, today |-> 0, day |-> 0, rows |-> NoRows, tries |-> 0,
          paths |-> {}]

(* A row of aggregation_runs; started and day, which no action reads, record *)
(* the views there were when the run began and the date it took for today.  *)
NewRun == [status |-> "running", paths |-> {}, started |-> views, day |-> today]

Init ==
    /\ today = 1
    /\ views = [d \in Days |-> NoRows]
    /\ table = [d \in Days |-> [views |-> NoRows, rank |-> NoRows]]
    /\ objects = [d \in Days |-> NoRows]
    /\ runs = <<>>
    /\ pc = "idle"
    /\ job = NoJob
    /\ torn = {}
-----------------------------------------------------------------------------
(* The surroundings: the Kafka engine stores another view, of any day, as   *)
(* POST /events takes any timestamp; a day ends.                            *)

NumViews == Cardinality({t \in Days \X Movies \X (1 .. MaxViews) :
                            views[t[1]][t[2]] >= t[3]})

Ingest(d, m) ==
    /\ NumViews < MaxViews
    /\ views' = [views EXCEPT ![d][m] = @ + 1]
    /\ UNCHANGED <<today, table, objects, runs, pc, job, torn>>

DayEnds ==
    /\ today < LastDay
    /\ today' = today + 1
    /\ UNCHANGED <<views, table, objects, runs, pc, job, torn>>
-----------------------------------------------------------------------------
(* How a run and a manual export begin.                                     *)

(* The job is added with next_run_time=None: APScheduler keeps it paused.   *)
None == -1
NextRunTime == None

StartRun ==
    /\ pc = "idle"
    /\ Len(runs) < MaxRuns
    /\ runs' = Append(runs, NewRun)
    /\ pc' = "query"
    /\ job' = [NoJob EXCEPT !.run = Len(runs'), !.today = today,
                            !.day = today - 1]
    /\ UNCHANGED <<today, views, table, objects, torn>>

(* start_run raises, before its insertion or after it.                      *)
StartRunFails ==
    /\ pc = "idle"
    /\ Len(runs) < MaxRuns
    /\ runs' \in {runs, Append(runs, NewRun)}
    /\ torn' = torn \cup (DOMAIN runs' \ DOMAIN runs)
    /\ UNCHANGED <<today, views, table, objects, pc, job>>

ExportParquet(d) ==
    /\ pc = "idle"
    /\ pc' = "query"
    /\ job' = [NoJob EXCEPT !.today = today, !.day = d]
    /\ UNCHANGED <<today, views, table, objects, runs, torn>>
-----------------------------------------------------------------------------
(* The steps of both.                                                       *)

Return == pc' = "idle" /\ job' = NoJob

(* Mutant: a day that is finished ends the run.                             *)
MutDayDone(j) ==
    IF j.run = Manual THEN Return
    ELSE pc' = "close" /\ job' = [j EXCEPT !.rows = NoRows]

(* Mutant: the loop goes one day too far.                                   *)
MutDayDoneOneMore(j) ==
    IF j.run = Manual THEN Return
    ELSE /\ pc' = IF j.day <= j.today THEN "query" ELSE "close"
         /\ job' = [j EXCEPT !.rows = NoRows, !.tries = 0,
                             !.day = IF @ <= j.today THEN @ + 1 ELSE @]

(* The next day of the loop.                                                *)
DayDone(j) ==
    IF j.run = Manual THEN Return
    ELSE /\ pc' = IF j.day < j.today THEN "query" ELSE "close"
         /\ job' = [j EXCEPT !.rows = NoRows, !.tries = 0,
                             !.day = IF @ < j.today THEN @ + 1 ELSE @]

(* daily_aggregates; a day without rows is skipped.                         *)
Query ==
    /\ pc = "query"
    /\ IF views[job.day] = NoRows
       THEN DayDone(job)
       ELSE /\ pc' = IF job.run = Manual THEN "export" ELSE "upsert"
            /\ job' = [job EXCEPT !.rows = views[job.day], !.tries = 0]
    /\ UNCHANGED <<today, views, table, objects, runs, torn>>

(* rank_position: by views_count descending, then by movie_id.              *)
Before(r, n, m) == r[n] > r[m] \/ (r[n] = r[m] /\ n < m)
Rank(r, m) == 1 + Cardinality({n \in Movies : Before(r, n, m)})

(* Mutant: the rank is missing from DO UPDATE SET.                          *)
MutUpserted ==
    LET old == table[job.day]
        new == InRows(job.rows)
    IN [table EXCEPT ![job.day] =
          [views |-> [m \in Movies |-> IF m \in new THEN job.rows[m]
                                       ELSE old.views[m]],
           rank  |-> [m \in Movies |-> IF m \in new /\ old.rank[m] = 0
                                       THEN Rank(job.rows, m)
                                       ELSE old.rank[m]]]]

Upserted ==
    LET old == table[job.day]
        new == InRows(job.rows)
    IN [table EXCEPT ![job.day] =
          [views |-> [m \in Movies |-> IF m \in new THEN job.rows[m]
                                       ELSE old.views[m]],
           rank  |-> [m \in Movies |-> IF m \in new THEN Rank(job.rows, m)
                                       ELSE old.rank[m]]]]

Upsert ==
    /\ pc = "upsert"
    /\ table' = Upserted
    /\ pc' = "export"
    /\ job' = [job EXCEPT !.tries = 0]
    /\ UNCHANGED <<today, views, objects, runs, torn>>

(* Mutant: the key of the object is made from the date of the run.          *)
MutExported == [objects EXCEPT ![job.today] = job.rows]

Exported == [objects EXCEPT ![job.day] = job.rows]

Export ==
    /\ pc = "export"
    /\ objects' = Exported
    /\ DayDone([job EXCEPT !.paths = @ \cup {job.day}])
    /\ UNCHANGED <<today, views, table, runs, torn>>

(* Mutant: the next day is tried when a day fails.                          *)
MutGiveUp == DayDone(job)

(* Mutant: the exception passes by the except branch.                       *)
MutGiveUpWithoutTrace == Return

GiveUp ==
    IF job.run = Manual THEN Return
    ELSE pc' = "abort" /\ job' = [job EXCEPT !.rows = NoRows, !.tries = 0]

(* Mutant: @retry without stop; tenacity then never gives up (tries is      *)
(* counted modulo Attempts to keep it finite).                              *)
MutTryAgain == job' = [job EXCEPT !.tries = (@ + 1) % Attempts] /\ pc' = pc

(* @retry(stop=stop_after_attempt(...)), then the exception is passed on.   *)
TryAgain ==
    IF job.tries + 1 < Attempts
    THEN job' = [job EXCEPT !.tries = @ + 1] /\ pc' = pc
    ELSE GiveUp

(* A retried call raises, before it took effect or after it.                *)
CallFails ==
    /\ pc \in {"query", "upsert", "export"}
    /\ table' \in {table} \cup IF pc = "upsert" THEN {Upserted} ELSE {}
    /\ objects' \in {objects} \cup IF pc = "export" THEN {Exported} ELSE {}
    /\ TryAgain
    /\ UNCHANGED <<today, views, runs, torn>>
-----------------------------------------------------------------------------
(* finish_run, which nobody retries.                                        *)

Finished(status, paths) ==
    [runs EXCEPT ![job.run].status = status, ![job.run].paths = paths]

Close ==
    /\ pc = "close"
    /\ runs' = Finished("success", job.paths)
    /\ Return
    /\ UNCHANGED <<today, views, table, objects, torn>>

(* It is called inside the try block: the except branch calls it again.     *)
CloseFails ==
    /\ pc = "close"
    /\ runs' \in {runs, Finished("success", job.paths)}
    /\ pc' = "abort"
    /\ UNCHANGED <<today, views, table, objects, job, torn>>

Abort ==
    /\ pc = "abort"
    /\ runs' = Finished("failed", {})
    /\ Return
    /\ UNCHANGED <<today, views, table, objects, torn>>

AbortFails ==
    /\ pc = "abort"
    /\ runs' \in {runs, Finished("failed", {})}
    /\ torn' = torn \cup ({job.run} \ {Manual})
    /\ Return
    /\ UNCHANGED <<today, views, table, objects>>

Crash ==
    /\ pc # "down"
    /\ torn' = torn \cup ({job.run} \ {Manual})
    /\ pc' = "down"
    /\ job' = NoJob
    /\ UNCHANGED <<today, views, table, objects, runs>>

(* Nothing is resumed; the row of an interrupted run stays as it is.        *)
Restart ==
    /\ pc = "down"
    /\ pc' = "idle"
    /\ UNCHANGED <<today, views, table, objects, runs, job, torn>>
-----------------------------------------------------------------------------
Work == Query \/ Upsert \/ Export \/ Close \/ Abort

AttemptFails == CallFails \/ CloseFails \/ AbortFails

Failure == StartRunFails \/ AttemptFails \/ Crash

Next ==
    \/ \E d \in ViewDays, m \in Movies : Ingest(d, m)
    \/ DayEnds
    \/ StartRun
    \/ \E d \in Days : ExportParquet(d)
    \/ Work
    \/ Failure
    \/ Restart

Spec == Init /\ [][Next]_vars

(* The calls of a coroutine that was started come to an end, one way or the  *)
(* other (no call has to succeed, ever), the container is restarted          *)
(* (restart: unless-stopped), and a job that is due is run.  Nobody has to   *)
(* call the routes.                                                         *)
FairSpec ==
    /\ Spec
    /\ WF_vars(Work \/ AttemptFails) /\ WF_vars(Restart)
    /\ WF_vars(NextRunTime # None /\ StartRun)
-----------------------------------------------------------------------------
Jobs == [run : 0 .. MaxRuns, today : Days, day : Days, rows : Rows,
         tries : 0 .. Attempts - 1, paths : SUBSET Days]
Runs == [status : {"running", "success", "failed"}, paths : SUBSET Days,
         started : [Days -> Rows], day : Days]

(* Every variable keeps its type.                                           *)
TypeOK ==
    /\ today \in Days
    /\ views \in [Days -> Rows]
    /\ table \in [Days -> [views : Rows, rank : Rows]]
    /\ objects \in [Days -> Rows]
    /\ runs \in Seq(Runs)
    /\ pc \in {"idle", "query", "upsert", "export", "close", "abort", "down"}
    /\ job \in Jobs
    /\ job.run \in 0 .. Len(runs)
    /\ pc \in {"upsert", "close", "abort"} => job.run # Manual
    /\ torn \subseteq 1 .. Len(runs)

(* Both stores hold, for every day, what ClickHouse held of it at some      *)
(* moment, and never go back, whatever fails half-way, is retried after it  *)
(* took effect, or is exported by hand in between (README 60-63: the upsert *)
(* is idempotent).                                                          *)
Snapshots == INSTANCE DailySnapshots WITH
    Stores    <- {"postgres", "minio"},
    source    <- views,
    published <- [s \in {"postgres", "minio"} |->
                    IF s = "minio" THEN objects
                    ELSE [d \in Days |-> table[d].views]]
StoresFollowViews == Snapshots!Spec

(* The ranks of a day are those of the view counts beside them, although    *)
(* they are computed from the rows of one query and stored by an upsert     *)
(* that leaves other rows of the day alone (postgres_writer.py 33-66).      *)
RanksFollowCounts ==
    \A d \in Days, m \in Movies :
        table[d].rank[m] = IF table[d].views[m] = 0 THEN 0
                           ELSE Rank(table[d].views, m)

DaysOf(run) == {run.day - 1, run.day}

(* Of both its days, a run that ended in "success" has stored at least the  *)
(* views there were when it began, in Postgres as in MinIO, and names the   *)
(* objects it wrote (scheduler.py 46-62).                                   *)
SuccessCoversItsDays ==
    \A i \in 1 .. Len(runs) : runs[i].status = "success" =>
        \A d \in DaysOf(runs[i]) :
            LET begun == runs[i].started[d]
            IN /\ Snapshots!AtMost(begun, table[d].views)
               /\ Snapshots!AtMost(begun, objects[d])
               /\ begun # NoRows => d \in runs[i].paths

(* A run that is about to report success leaves the two stores with the     *)
(* same rows of its days, whatever an earlier run that failed between them  *)
(* or an export by hand left behind.                                        *)
StoresAgreeAfterRun ==
    pc = "close" => \A d \in {job.today - 1, job.today} :
                        table[d].views = objects[d]

(* A row of aggregation_runs that stays "running" though its run is not     *)
(* under way began or ended in a failing call to Postgres, or in a crash:   *)
(* the except branch closes all others (scheduler.py 66-71).                *)
OpenRunsWereInterrupted ==
    \A i \in 1 .. Len(runs) :
        runs[i].status = "running" => i = job.run \/ i \in torn

(* A run or an export that was begun comes to its end even if a store never *)
(* answers again: the attempts, whose waiting blocks the event loop and     *)
(* with it every other request, are bounded (clickhouse_queries.py 62,      *)
(* postgres_writer.py 29, s3_exporter.py 41), and so is the way out through *)
(* an except branch that calls the failing Postgres again (scheduler.py     *)
(* 66-72).                                                                  *)
CallsEnd == []<>(pc \in {"idle", "down"})
-----------------------------------------------------------------------------
(* README 46: every 60 seconds the service starts a calculation.            *)
AggregatesByItself == <>(Len(runs) > 0)
=============================================================================
