--------------------------- MODULE AggregationProofs ---------------------------
(***************************************************************************)
(* Proofs about MovieAggregation for all movies, days and attempts, with   *)
(* failures without end: types, ranks and their counts, that both stores   *)
(* implement monotone snapshots of the source, and what a run that ended   *)
(* in "success" or stayed "running" means.                                 *)
(***************************************************************************)
EXTENDS MovieAggregation, FiniteSetTheorems, SequenceTheorems, TLAPS

(* TypeOK with what makes it inductive: yesterday is a day, and no job is   *)
(* left over where none is under way.                                       *)
Types ==
    /\ TypeOK
    /\ today > 0
    /\ \A i \in 1 .. Len(runs) : runs[i].day > 0
    /\ pc \in {"idle", "down"} => job.run = Manual

LEMMA ViewDaysAreDays == ViewDays \subseteq Days
BY ConstantsAssumption DEF Days

LEMMA RankTypes == ASSUME NEW r, NEW m PROVE Rank(r, m) \in Nat \ {0}
<1>1. {n \in Movies : Before(r, n, m)} \in SUBSET Movies
  OBVIOUS
<1>2. Cardinality({n \in Movies : Before(r, n, m)}) \in Nat
  BY <1>1, FS_Subset, FS_CardinalityType, ConstantsAssumption
<1> QED BY <1>2 DEF Rank

LEMMA NoJobTypes == NoJob \in Jobs
BY ConstantsAssumption DEF NoJob, Jobs, Manual, Days, NoRows, Rows

LEMMA NewRunTypes == ASSUME Types PROVE NewRun \in Runs
BY DEF Types, TypeOK, NewRun, Runs

(* The row a run begins with is the last one.                               *)
LEMMA Appended ==
    ASSUME Types
    PROVE  /\ Append(runs, NewRun) \in Seq(Runs)
           /\ Len(Append(runs, NewRun)) = Len(runs) + 1
           /\ \A i \in 1 .. Len(runs) : Append(runs, NewRun)[i] = runs[i]
           /\ Append(runs, NewRun)[Len(runs) + 1] = NewRun
<1>1. runs \in Seq(Runs)
  BY DEF Types, TypeOK
<1> QED BY <1>1, NewRunTypes, AppendProperties

(* finish_run changes the row of its run and nothing else.                  *)
LEMMA FinishedIs ==
    ASSUME Types, job.run # Manual,
           NEW st \in {"running", "success", "failed"}, NEW ps \in SUBSET Days
    PROVE  /\ job.run \in 1 .. Len(runs)
           /\ Finished(st, ps) \in Seq(Runs)
           /\ Len(Finished(st, ps)) = Len(runs)
           /\ \A i \in 1 .. Len(runs) :
                 Finished(st, ps)[i] =
                    IF i = job.run
                    THEN [runs[i] EXCEPT !.status = st, !.paths = ps]
                    ELSE runs[i]
<1> DEFINE new == [runs[job.run] EXCEPT !.status = st, !.paths = ps]
<1>1. runs \in Seq(Runs) /\ job.run \in 1 .. Len(runs)
  BY DEF Types, TypeOK, Manual
<1>2. runs[job.run] \in Runs
  BY <1>1
<1>3. new \in Runs
  BY <1>2 DEF Runs
<1>4. Finished(st, ps) = [runs EXCEPT ![job.run] = new]
  BY <1>1 DEF Finished
<1> HIDE DEF new
<1>5. /\ [runs EXCEPT ![job.run] = new] \in Seq(Runs)
      /\ Len([runs EXCEPT ![job.run] = new]) = Len(runs)
      /\ \A i \in 1 .. Len(runs) : [runs EXCEPT ![job.run] = new][i]
                                      = IF i = job.run THEN new ELSE runs[i]
  BY <1>1, <1>3, ExceptSeq
<1> QED BY <1>1, <1>4, <1>5 DEF new

(* The next day of the loop, and the end of an export by hand.              *)
LEMMA DayDoneIs ==
    ASSUME NEW j \in Jobs, DayDone(j)
    PROVE  /\ job' \in Jobs
           /\ j.run = Manual => pc' = "idle" /\ job'.run = Manual
           /\ j.run # Manual =>
                /\ pc' = IF j.day < j.today THEN "query" ELSE "close"
                /\ job'.day = IF j.day < j.today THEN j.day + 1 ELSE j.day
                /\ job'.run = j.run /\ job'.today = j.today
                /\ job'.paths = j.paths
<1>1. CASE j.run = Manual
  BY <1>1, NoJobTypes DEF DayDone, Return, NoJob
<1>2. CASE j.run # Manual
  <2>1. 0 \in 0 .. Attempts - 1 /\ NoRows \in Rows
    BY ConstantsAssumption DEF NoRows, Rows
  <2>2. (IF j.day < j.today THEN j.day + 1 ELSE j.day) \in Days
    BY ConstantsAssumption DEF Jobs, Days
  <2> QED BY <1>2, <2>1, <2>2 DEF DayDone, Jobs
<1> QED BY <1>1, <1>2

LEMMA UpsertedTypes ==
    ASSUME Types
    PROVE  /\ Upserted \in [Days -> [views : Rows, rank : Rows]]
           /\ Exported \in [Days -> Rows]
<1>1. job.day \in Days /\ job.rows \in Rows
  BY DEF Types, TypeOK, Jobs
<1> DEFINE v == [m \in Movies |-> IF m \in InRows(job.rows) THEN job.rows[m]
                                  ELSE table[job.day].views[m]]
           k == [m \in Movies |-> IF m \in InRows(job.rows)
                                  THEN Rank(job.rows, m)
                                  ELSE table[job.day].rank[m]]
<1>2. table[job.day].views \in Rows /\ table[job.day].rank \in Rows
  BY <1>1 DEF Types, TypeOK
<1>a. v \in Rows
  <2> HIDE DEF Types, InRows
  <2> QED BY <1>1, <1>2 DEF Rows
<1>b. k \in Rows
  <2>1. \A m \in Movies : Rank(job.rows, m) \in Nat
    BY <1>1, RankTypes
  <2> HIDE DEF Types, InRows
  <2> QED BY <1>2, <2>1 DEF Rows
<1>3. Upserted = [table EXCEPT ![job.day] = [views |-> v, rank |-> k]]
  BY DEF Upserted
<1> HIDE DEF v, k
<1> QED BY <1>1, <1>a, <1>b, <1>3 DEF Types, TypeOK, Exported

LEMMA TypeStep == Types /\ [Next]_vars => Types'
<1> SUFFICES ASSUME Types, [Next]_vars PROVE Types'
  OBVIOUS
<1> USE DEF Types, TypeOK
<1>0. /\ job \in Jobs /\ job.run \in Nat /\ job.day \in Days
      /\ job.rows \in Rows /\ job.paths \subseteq Days
      /\ job.today \in Days /\ job.tries \in 0 .. Attempts - 1
  BY DEF Jobs
<1>a. 0 \in 0 .. Attempts - 1 /\ NoRows \in Rows /\ views[job.day] \in Rows
  BY <1>0, ConstantsAssumption DEF NoRows, Rows
<1>1. ASSUME NEW d \in Days, NEW m \in Movies, Ingest(d, m) PROVE Types'
  <2>1. views' \in [Days -> Rows]
    <3>1. [views[d] EXCEPT ![m] = @ + 1] \in Rows
      BY DEF Rows
    <3>2. views' = [views EXCEPT ![d] = [views[d] EXCEPT ![m] = @ + 1]]
      BY <1>1 DEF Ingest
    <3> QED BY <3>1, <3>2
  <2> QED BY <1>1, <2>1 DEF Ingest
<1>2. CASE DayEnds
  BY <1>2, ConstantsAssumption DEF DayEnds, Days
<1>3. CASE StartRun
  <2>1. /\ runs' = Append(runs, NewRun) /\ Len(runs) + 1 \in 0 .. MaxRuns
        /\ pc' = "query"
        /\ UNCHANGED <<today, views, table, objects, torn>>
    BY <1>3, ConstantsAssumption DEF StartRun
  <2>2. job' = [NoJob EXCEPT !.run = Len(runs) + 1, !.today = today,
                             !.day = today - 1]
    BY <1>3, <2>1, Appended DEF StartRun
  <2>3. today - 1 \in Days
    BY ConstantsAssumption DEF Days
  <2>4. job' \in Jobs /\ job'.run = Len(runs) + 1
    BY <2>1, <2>2, <2>3, NoJobTypes DEF Jobs, NoJob
  <2>5. NewRun.day > 0
    BY DEF NewRun
  <2> QED BY <2>1, <2>4, <2>5, Appended DEF Manual
<1>4. CASE StartRunFails
  <2>1. /\ runs' \in {runs, Append(runs, NewRun)}
        /\ torn' = torn \cup (DOMAIN runs' \ DOMAIN runs)
        /\ UNCHANGED <<today, views, table, objects, pc, job>>
    BY <1>4 DEF StartRunFails
  <2>2. /\ runs' \in Seq(Runs) /\ Len(runs') \in {Len(runs), Len(runs) + 1}
        /\ \A i \in 1 .. Len(runs') : runs'[i].day > 0
    <3>1. CASE runs' = runs
      BY <3>1
    <3>2. CASE runs' = Append(runs, NewRun)
      <4>1. NewRun.day > 0
        BY DEF NewRun
      <4> QED BY <3>2, <4>1, Appended
    <3> QED BY <2>1, <3>1, <3>2
  <2>3. torn' \subseteq 1 .. Len(runs')
    <3>1. DOMAIN runs' = 1 .. Len(runs') /\ Len(runs) \in Nat /\ Len(runs') \in Nat
      BY <2>2
    <3> HIDE DEF Types, TypeOK
    <3>2. 1 .. Len(runs) \subseteq 1 .. Len(runs')
      <4> DEFINE a == Len(runs)
                 b == Len(runs')
      <4>1. a \in Nat /\ b \in Nat /\ b \in {a, a + 1}
        BY <2>2, <3>1
      <4> HIDE DEF a, b
      <4>2. 1 .. a \subseteq 1 .. b
        BY <4>1
      <4> QED BY <4>2, ZenonT(60) DEF a, b
    <3>3. torn \subseteq 1 .. Len(runs) /\ torn' \subseteq torn \cup DOMAIN runs'
      BY <2>1 DEF Types, TypeOK
    <3> QED BY <3>1, <3>2, <3>3
  <2>4. job'.run \in 0 .. Len(runs')
    BY <1>0, <2>1, <2>2
  <2> QED BY <2>1, <2>2, <2>3, <2>4
<1>5. ASSUME NEW d \in Days, ExportParquet(d) PROVE Types'
  <2>1. job' \in Jobs /\ job'.run = Manual
    BY <1>5, NoJobTypes DEF ExportParquet, Jobs, NoJob
  <2> QED BY <1>5, <2>1 DEF ExportParquet, Manual
<1>6. CASE Query
  <2>1. CASE DayDone(job)
    <3>1. UNCHANGED <<today, views, table, objects, runs, torn>>
      BY <1>6 DEF Query
    <3> QED BY <1>0, <2>1, <3>1, DayDoneIs DEF Manual
  <2>2. CASE /\ pc' = IF job.run = Manual THEN "export" ELSE "upsert"
             /\ job' = [job EXCEPT !.rows = views[job.day], !.tries = 0]
    <3>1. job' \in Jobs /\ job'.run = job.run
      BY <1>0, <1>a, <2>2 DEF Jobs
    <3> QED BY <1>6, <2>2, <3>1 DEF Query
  <2> QED BY <1>6, <2>1, <2>2 DEF Query
<1>7. CASE Upsert
  <2>1. job' \in Jobs /\ job'.run = job.run
    BY <1>0, <1>7, <1>a DEF Upsert, Jobs
  <2> QED BY <1>7, <2>1, UpsertedTypes DEF Upsert
<1>8. CASE Export
  <2> DEFINE j == [job EXCEPT !.paths = @ \cup {job.day}]
  <2>1. j \in Jobs /\ j.run = job.run
    BY <1>0 DEF Jobs
  <2>2. /\ DayDone(j) /\ objects' = Exported
        /\ UNCHANGED <<today, views, table, runs, torn>>
    BY <1>8 DEF Export
  <2> HIDE DEF j
  <2> QED BY <2>1, <2>2, DayDoneIs, UpsertedTypes DEF Manual
<1>9. CASE CallFails
  <2>1. /\ table' \in {table, Upserted} /\ objects' \in {objects, Exported}
        /\ UNCHANGED <<today, views, runs, torn>>
        /\ pc \in {"query", "upsert", "export"}
    BY <1>9 DEF CallFails
  <2>2. /\ job' \in Jobs /\ job'.run \in {job.run, Manual}
        /\ pc' \in {pc, "idle", "abort"}
        /\ pc' \in {"upsert", "abort"} => job'.run # Manual
        /\ pc' = "idle" => job'.run = Manual
    <3>1. CASE job.tries + 1 < Attempts
      <4>1. job' = [job EXCEPT !.tries = @ + 1] /\ pc' = pc
        BY <1>9, <3>1 DEF CallFails, TryAgain
      <4>2. job.tries + 1 \in 0 .. Attempts - 1
        BY <1>0, <3>1, ConstantsAssumption
      <4>3. job' \in Jobs /\ job'.run = job.run
        BY <1>0, <4>1, <4>2 DEF Jobs
      <4> QED BY <2>1, <4>1, <4>3
    <3>2. CASE GiveUp
      <4>2. CASE job.run = Manual
        <5>1. job' = NoJob /\ pc' = "idle" /\ NoJob.run = Manual
          BY <3>2, <4>2 DEF GiveUp, Return, NoJob
        <5> QED BY <5>1, NoJobTypes
      <4>3. CASE job.run # Manual
        <5>1. /\ pc' = "abort"
              /\ job' = [job EXCEPT !.rows = NoRows, !.tries = 0]
          BY <3>2, <4>3 DEF GiveUp
        <5>2. job' \in Jobs /\ job'.run = job.run
          BY <1>0, <1>a, <5>1 DEF Jobs
        <5> QED BY <4>3, <5>1, <5>2
      <4> QED BY <4>2, <4>3
    <3> QED BY <1>9, <3>1, <3>2 DEF CallFails, TryAgain
  <2> QED BY <2>1, <2>2, UpsertedTypes DEF Manual
<1>10. CASE Close \/ CloseFails \/ Abort \/ AbortFails
  <2>1. /\ job.run # Manual
        /\ \/ runs' = runs
           \/ runs' = Finished("success", job.paths)
           \/ runs' = Finished("failed", {})
        /\ UNCHANGED <<today, views, table, objects>>
        /\ torn' \in {torn, torn \cup ({job.run} \ {Manual})}
    BY <1>10 DEF Close, CloseFails, Abort, AbortFails
  <2>2. /\ runs' \in Seq(Runs) /\ Len(runs') = Len(runs)
        /\ \A i \in 1 .. Len(runs) : runs'[i].day > 0
    <3>1. CASE runs' = runs
      BY <3>1
    <3>2. CASE runs' # runs
      <4>1. PICK st \in {"running", "success", "failed"}, ps \in SUBSET Days :
              runs' = Finished(st, ps)
        BY <1>0, <2>1, <3>2
      <4>2. \A i \in 1 .. Len(runs) : runs[i] \in Runs
        BY ElementOfSeq
      <4>3. /\ runs' \in Seq(Runs) /\ Len(runs') = Len(runs)
            /\ \A i \in 1 .. Len(runs) :
                  runs'[i] = IF i = job.run
                             THEN [runs[i] EXCEPT !.status = st, !.paths = ps]
                             ELSE runs[i]
        <5> HIDE DEF Types, TypeOK
        <5>1. \A i \in 1 .. Len(runs) : Finished(st, ps)[i] =
                 IF i = job.run THEN [runs[i] EXCEPT !.status = st, !.paths = ps]
                 ELSE runs[i]
          BY <2>1, FinishedIs
        <5>2. Finished(st, ps) \in Seq(Runs) /\ Len(Finished(st, ps)) = Len(runs)
          BY <2>1, FinishedIs, ZenonT(60)
        <5> QED BY <4>1, <5>1, <5>2, Zenon
      <4>4. \A i \in 1 .. Len(runs) : runs'[i].day = runs[i].day
        BY <4>2, <4>3 DEF Runs
      <4> QED BY <4>3, <4>4
    <3> QED BY <3>1, <3>2
  <2>3. \/ pc' = "idle" /\ job' = NoJob
        \/ pc' = "abort" /\ job' = job
    BY <1>10 DEF Close, CloseFails, Abort, AbortFails, Return
  <2>4. job' \in Jobs /\ (job'.run = Manual \/ job'.run = job.run)
    <3>1. NoJob.run = Manual
      BY DEF NoJob
    <3> QED BY <2>3, <3>1, NoJobTypes
  <2>5. pc' = "idle" => job'.run = Manual
    BY <2>3 DEF NoJob
  <2> QED BY <1>0, <2>1, <2>2, <2>3, <2>4, <2>5 DEF Manual
<1>11. CASE Crash
  <2>1. job' \in Jobs /\ job'.run = Manual /\ pc' = "down"
    <3>1. NoJob.run = Manual
      BY DEF NoJob
    <3> QED BY <1>11, <3>1, NoJobTypes DEF Crash
  <2>2. torn' \subseteq 1 .. Len(runs)
    <3>1. job.run \in 0 .. Len(runs) /\ Len(runs) \in Nat
      BY <1>0
    <3>2. {job.run} \ {Manual} \subseteq 1 .. Len(runs)
      BY <3>1 DEF Manual
    <3>3. torn \subseteq 1 .. Len(runs) /\ torn' = torn \cup ({job.run} \ {Manual})
      BY <1>11 DEF Crash
    <3> HIDE DEF Types, TypeOK
    <3> QED BY <3>2, <3>3
  <2>3. UNCHANGED <<today, views, table, objects, runs>>
    BY <1>11 DEF Crash
  <2> QED BY <2>1, <2>2, <2>3 DEF Manual
<1>12. CASE Restart
  BY <1>12 DEF Restart
<1>13. CASE UNCHANGED vars
  BY <1>13 DEF vars
<1> QED
  BY <1>1, <1>2, <1>3, <1>4, <1>5, <1>6, <1>7, <1>8, <1>9, <1>10, <1>11, <1>12,
     <1>13, ViewDaysAreDays DEF Next, Work, Failure, AttemptFails

(* Every variable keeps its type.                                           *)
THEOREM TypeCorrect == Spec => []TypeOK
<1>1. Init => Types
  BY ConstantsAssumption, NoJobTypes
     DEF Init, Types, TypeOK, Days, Rows, NoRows, NoJob, Manual
<1>2. Types => TypeOK
  BY DEF Types
<1> QED BY <1>1, <1>2, TypeStep, PTL DEF Spec
-----------------------------------------------------------------------------
(* The stores.  Both hold at most what the source has, and so do the rows   *)
(* of a job, which hold at least what the stores do.                        *)
AtMost(r, q) == Snapshots!AtMost(r, q)

StoresInv ==
    /\ \A d \in Days : /\ AtMost(table[d].views, views[d])
                       /\ AtMost(objects[d], views[d])
    /\ pc \in {"upsert", "export"} =>
          /\ AtMost(job.rows, views[job.day])
          /\ AtMost(table[job.day].views, job.rows)
          /\ AtMost(objects[job.day], job.rows)
    /\ RanksFollowCounts

LEMMA AtMostOrder ==
    ASSUME NEW r \in Rows, NEW q \in Rows
    PROVE  /\ AtMost(r, r)
           /\ AtMost(r, NoRows) => r = NoRows
           /\ AtMost(NoRows, r)
           /\ \A p \in Rows : AtMost(p, r) /\ AtMost(r, q) => AtMost(p, q)
BY DEF AtMost, Snapshots!AtMost, Rows, NoRows

(* What a step does to the stores, and to the rows of the job.              *)
LEMMA StoreStep ==
    ASSUME Types, [Next]_vars
    PROVE  /\ \/ /\ UNCHANGED <<table, objects>>
                 /\ \/ UNCHANGED views
                    \/ \E d \in Days, m \in Movies :
                          views' = [views EXCEPT ![d][m] = @ + 1]
              \/ pc = "upsert" /\ table' = Upserted /\ UNCHANGED <<views, objects>>
              \/ pc = "export" /\ objects' = Exported /\ UNCHANGED <<views, table>>
           /\ \/ pc' \notin {"upsert", "export"}
              \/ /\ pc \in {"upsert", "export"}
                 /\ job'.rows = job.rows /\ job'.day = job.day
              \/ /\ pc = "query" /\ UNCHANGED <<views, table, objects>>
                 /\ job'.day = job.day /\ job'.rows = views[job.day]
<1>0. job \in Jobs
  BY DEF Types, TypeOK
<1>1. ASSUME NEW d \in Days, NEW m \in Movies, Ingest(d, m)
      PROVE  /\ UNCHANGED <<table, objects, pc, job>>
             /\ views' = [views EXCEPT ![d][m] = @ + 1]
  BY <1>1 DEF Ingest
<1>2. CASE DayEnds \/ StartRunFails \/ Restart \/ UNCHANGED vars
  BY <1>2 DEF DayEnds, StartRunFails, Restart, vars
<1>3. CASE StartRun \/ (\E d \in Days : ExportParquet(d)) \/ Crash
  BY <1>3 DEF StartRun, ExportParquet, Crash
<1>4. CASE Close \/ CloseFails \/ Abort \/ AbortFails
  BY <1>4 DEF Close, CloseFails, Abort, AbortFails, Return
<1>5. CASE Query
  <2>1. CASE DayDone(job)
    BY <1>0, <1>5, <2>1, DayDoneIs DEF Query
  <2>2. CASE /\ pc' = IF job.run = Manual THEN "export" ELSE "upsert"
             /\ job' = [job EXCEPT !.rows = views[job.day], !.tries = 0]
    BY <1>0, <1>5, <2>2 DEF Query, Jobs
  <2> QED BY <1>5, <2>1, <2>2 DEF Query
<1>6. CASE Upsert
  BY <1>0, <1>6 DEF Upsert, Jobs
<1>7. CASE Export
  <2> DEFINE j == [job EXCEPT !.paths = @ \cup {job.day}]
  <2>1. j \in Jobs /\ DayDone(j)
    BY <1>0, <1>7 DEF Export, Jobs
  <2> HIDE DEF j
  <2>2. pc' \notin {"upsert", "export"}
    BY <2>1, DayDoneIs
  <2> QED BY <1>7, <2>2 DEF Export
<1>8. CASE CallFails
  <2>1. CASE job.tries + 1 < Attempts
    BY <1>0, <1>8, <2>1 DEF CallFails, TryAgain, Jobs
  <2>2. CASE GiveUp
    BY <1>8, <2>2 DEF CallFails, TryAgain, GiveUp, Return
  <2> QED BY <1>8, <2>1, <2>2 DEF CallFails, TryAgain
<1> QED
  BY <1>1, <1>2, <1>3, <1>4, <1>5, <1>6, <1>7, <1>8, ViewDaysAreDays
     DEF Next, Work, Failure, AttemptFails

(* An upsert leaves exactly the rows of the job, with their ranks.          *)
LEMMA UpsertedIs ==
    ASSUME Types, AtMost(table[job.day].views, job.rows)
    PROVE  /\ Upserted[job.day].views = job.rows
           /\ \A d \in Days \ {job.day} : Upserted[d] = table[d]
           /\ \A m \in Movies : Upserted[job.day].rank[m] =
                 IF job.rows[m] > 0 THEN Rank(job.rows, m)
                 ELSE table[job.day].rank[m]
           /\ \A m \in Movies : job.rows[m] = 0 => table[job.day].views[m] = 0
<1>1. /\ job.day \in Days /\ job.rows \in Rows
      /\ table[job.day].views \in Rows /\ DOMAIN table = Days
  BY DEF Types, TypeOK, Jobs
<1> DEFINE v == [m \in Movies |-> IF m \in InRows(job.rows) THEN job.rows[m]
                                  ELSE table[job.day].views[m]]
           k == [m \in Movies |-> IF m \in InRows(job.rows)
                                  THEN Rank(job.rows, m)
                                  ELSE table[job.day].rank[m]]
<1>2. Upserted = [table EXCEPT ![job.day] = [views |-> v, rank |-> k]]
  BY DEF Upserted
<1>3. \A m \in Movies : job.rows[m] = 0 => table[job.day].views[m] = 0
  BY <1>1 DEF AtMost, Snapshots!AtMost, Rows
<1>4. v = job.rows
  BY <1>1, <1>3 DEF InRows, Rows
<1>5. \A m \in Movies : k[m] = IF job.rows[m] > 0 THEN Rank(job.rows, m)
                               ELSE table[job.day].rank[m]
  BY DEF InRows
<1> HIDE DEF v, k
<1> QED BY <1>1, <1>2, <1>3, <1>4, <1>5

(* The stores and the source only grow.                                     *)
LEMMA Grow ==
    ASSUME Types, Types', StoresInv, [Next]_vars, NEW d \in Days
    PROVE  /\ AtMost(views[d], views'[d])
           /\ AtMost(table[d].views, table'[d].views)
           /\ AtMost(objects[d], objects'[d])
<1>1. /\ views[d] \in Rows /\ table[d].views \in Rows /\ objects[d] \in Rows
      /\ job.rows \in Rows /\ job.day \in Days /\ DOMAIN objects = Days
  BY DEF Types, TypeOK, Jobs
<1>2. /\ AtMost(views[d], views[d]) /\ AtMost(table[d].views, table[d].views)
      /\ AtMost(objects[d], objects[d])
  BY <1>1, AtMostOrder
<1>3. CASE UNCHANGED <<table, objects>> /\ UNCHANGED views
  BY <1>2, <1>3
<1>4. ASSUME NEW e \in Days, NEW m \in Movies, UNCHANGED <<table, objects>>,
             views' = [views EXCEPT ![e][m] = @ + 1]
      PROVE  AtMost(views[d], views'[d])
  <2>1. views[d] \in [Movies -> Nat] /\ DOMAIN views = Days
    BY <1>1 DEF Rows, Types, TypeOK
  <2>2. \A n \in Movies : views[d][n] <= views'[d][n]
    BY <1>4, <2>1
  <2> QED BY <2>2 DEF AtMost, Snapshots!AtMost
<1>5. CASE pc = "upsert" /\ table' = Upserted /\ UNCHANGED <<views, objects>>
  <2>1. AtMost(table[job.day].views, job.rows)
    BY <1>5 DEF StoresInv
  <2> QED BY <1>2, <1>5, <2>1, UpsertedIs
<1>6. CASE pc = "export" /\ objects' = Exported /\ UNCHANGED <<views, table>>
  <2>1. AtMost(objects[job.day], job.rows)
    BY <1>6 DEF StoresInv
  <2> QED BY <1>1, <1>2, <1>6, <2>1 DEF Exported
<1> QED BY <1>2, <1>3, <1>4, <1>5, <1>6, StoreStep

LEMMA StoresStep ==
    ASSUME Types, Types', StoresInv, [Next]_vars
    PROVE  StoresInv'
<1>0. /\ \A d \in Days : /\ views[d] \in Rows /\ views'[d] \in Rows
                         /\ table[d].views \in Rows /\ objects[d] \in Rows
                         /\ table'[d].views \in Rows /\ objects'[d] \in Rows
      /\ job.rows \in Rows /\ job.day \in Days /\ job'.day \in Days
      /\ DOMAIN objects = Days
  BY DEF Types, TypeOK, Jobs
<1>1. \A d \in Days : /\ AtMost(views[d], views'[d]) /\ AtMost(views[d], views[d])
                     /\ AtMost(job.rows, job.rows)
  BY <1>0, Grow, AtMostOrder
<1>2. CASE UNCHANGED <<table, objects>>
  <2>1. \A d \in Days : /\ AtMost(table'[d].views, views'[d])
                       /\ AtMost(objects'[d], views'[d])
    BY <1>0, <1>1, <1>2, AtMostOrder DEF StoresInv
  <2>2. RanksFollowCounts'
    BY <1>2 DEF StoresInv, RanksFollowCounts, Rank, Before
  <2>3. ASSUME pc' \in {"upsert", "export"}
        PROVE  /\ AtMost(job'.rows, views'[job'.day])
               /\ AtMost(table'[job'.day].views, job'.rows)
               /\ AtMost(objects'[job'.day], job'.rows)
    <3>1. CASE /\ pc \in {"upsert", "export"}
               /\ job'.rows = job.rows /\ job'.day = job.day
      <4>1. AtMost(job.rows, views[job.day])
        BY <3>1 DEF StoresInv
      <4>2. AtMost(job.rows, views'[job.day])
        BY <1>0, <1>1, <4>1, AtMostOrder
      <4> QED BY <1>2, <3>1, <4>2 DEF StoresInv
    <3>2. CASE /\ UNCHANGED <<views, table, objects>>
               /\ job'.day = job.day /\ job'.rows = views[job.day]
      BY <1>0, <1>1, <3>2 DEF StoresInv
    <3> QED BY <2>3, <3>1, <3>2, StoreStep
  <2> QED BY <2>1, <2>2, <2>3 DEF StoresInv
<1>3. CASE pc = "upsert" /\ table' = Upserted /\ UNCHANGED <<views, objects>>
  <2>1. /\ AtMost(table[job.day].views, job.rows)
        /\ AtMost(job.rows, views[job.day]) /\ AtMost(objects[job.day], job.rows)
    BY <1>3 DEF StoresInv
  <2>2. /\ table'[job.day].views = job.rows
        /\ \A d \in Days \ {job.day} : table'[d] = table[d]
    BY <1>3, <2>1, UpsertedIs
  <2>3. \A d \in Days : /\ AtMost(table'[d].views, views'[d])
                       /\ AtMost(objects'[d], views'[d])
    BY <1>3, <2>1, <2>2 DEF StoresInv
  <2>4. RanksFollowCounts'
    <3>1. ASSUME NEW d \in Days \ {job.day}, NEW m \in Movies
          PROVE  table'[d].rank[m] = IF table'[d].views[m] = 0 THEN 0
                                     ELSE Rank(table'[d].views, m)
      BY <2>2, <3>1 DEF StoresInv, RanksFollowCounts
    <3>2. ASSUME NEW m \in Movies
          PROVE  table'[job.day].rank[m] =
                   IF table'[job.day].views[m] = 0 THEN 0
                   ELSE Rank(table'[job.day].views, m)
      <4>1. /\ table'[job.day].rank[m] = IF job.rows[m] > 0 THEN Rank(job.rows, m)
                                         ELSE table[job.day].rank[m]
            /\ job.rows[m] = 0 => table[job.day].views[m] = 0
        BY <1>3, <2>1, UpsertedIs
      <4>2. job.rows[m] \in Nat
        BY <1>0 DEF Rows
      <4>3. job.rows[m] = 0 => table[job.day].rank[m] = 0
        BY <1>0, <4>1 DEF StoresInv, RanksFollowCounts
      <4> QED BY <2>2, <4>1, <4>2, <4>3
    <3>3. \A d \in Days, m \in Movies :
             table'[d].rank[m] = IF table'[d].views[m] = 0 THEN 0
                                 ELSE Rank(table'[d].views, m)
      BY <3>1, <3>2
    <3> QED BY <3>3 DEF RanksFollowCounts, Rank, Before
  <2>5. pc' \in {"upsert", "export"} => job'.rows = job.rows /\ job'.day = job.day
    BY <1>3, StoreStep
  <2> QED BY <1>0, <1>1, <1>3, <2>1, <2>2, <2>3, <2>4, <2>5 DEF StoresInv
<1>4. CASE pc = "export" /\ objects' = Exported /\ UNCHANGED <<views, table>>
  <2>1. /\ AtMost(table[job.day].views, job.rows)
        /\ AtMost(job.rows, views[job.day])
    BY <1>4 DEF StoresInv
  <2>2. /\ objects'[job.day] = job.rows
        /\ \A d \in Days \ {job.day} : objects'[d] = objects[d]
    BY <1>0, <1>4 DEF Exported
  <2>3. \A d \in Days : /\ AtMost(table'[d].views, views'[d])
                       /\ AtMost(objects'[d], views'[d])
    BY <1>4, <2>1, <2>2 DEF StoresInv
  <2>4. RanksFollowCounts'
    BY <1>4 DEF StoresInv, RanksFollowCounts, Rank, Before
  <2>5. pc' \in {"upsert", "export"} => job'.rows = job.rows /\ job'.day = job.day
    BY <1>4, StoreStep
  <2> QED BY <1>0, <1>1, <1>4, <2>1, <2>2, <2>3, <2>4, <2>5 DEF StoresInv
<1> QED BY <1>2, <1>3, <1>4, StoreStep

LEMMA StoresInit == Init => Types /\ StoresInv
<1> SUFFICES ASSUME Init PROVE Types /\ StoresInv
  OBVIOUS
<1>1. Types
  BY ConstantsAssumption, NoJobTypes
     DEF Init, Types, TypeOK, Days, Rows, NoRows, NoJob, Manual
<1>2. NoRows \in Rows
  BY DEF NoRows, Rows
<1>3. AtMost(NoRows, NoRows)
  BY <1>2, AtMostOrder
<1>4. RanksFollowCounts
  BY DEF Init, RanksFollowCounts, NoRows
<1> QED BY <1>1, <1>3, <1>4 DEF Init, StoresInv

LEMMA StoresAlways == Spec => [](Types /\ StoresInv)
<1>1. Types /\ StoresInv /\ [Next]_vars => (Types /\ StoresInv)'
  BY TypeStep, StoresStep
<1> QED BY <1>1, StoresInit, PTL DEF Spec

(* The ranks of a day are those of the counts beside them.                  *)
THEOREM RanksBelongToCounts == Spec => []RanksFollowCounts
<1>1. Types /\ StoresInv => RanksFollowCounts
  BY DEF StoresInv
<1> QED BY <1>1, StoresAlways, PTL

(* Every step of the aggregation is a step of the snapshots: another view,  *)
(* a store that catches up with the source on one day, or nothing.          *)
LEMMA SnapshotsStep ==
    ASSUME Types, Types', StoresInv, StoresInv', [Next]_vars
    PROVE  [Snapshots!Next]_Snapshots!vars
<1> DEFINE pub == [s \in {"postgres", "minio"} |->
                     IF s = "minio" THEN objects
                     ELSE [d \in Days |-> table[d].views]]
<1>0. job.day \in Days /\ DOMAIN objects = Days /\ DOMAIN table = Days
  BY DEF Types, TypeOK, Jobs
<1>1. CASE UNCHANGED <<table, objects>> /\ UNCHANGED views
  BY <1>1 DEF Snapshots!vars
<1>2. ASSUME NEW d \in Days, NEW m \in Movies, UNCHANGED <<table, objects>>,
             views' = [views EXCEPT ![d][m] = @ + 1]
      PROVE  Snapshots!View(d, m)
  BY <1>2 DEF Snapshots!View
<1>3. CASE pc = "upsert" /\ table' = Upserted /\ UNCHANGED <<views, objects>>
  <2>1. AtMost(table[job.day].views, job.rows)
    BY <1>3 DEF StoresInv
  <2>2. \A d \in Days \ {job.day} : table'[d] = table[d]
    BY <1>3, <2>1, UpsertedIs
  <2>3. /\ AtMost(table[job.day].views, table'[job.day].views)
        /\ AtMost(table'[job.day].views, views[job.day])
    BY <1>0, <1>3, Grow DEF StoresInv
  <2>4. pub' = [pub EXCEPT !["postgres"][job.day] = pub'["postgres"][job.day]]
    BY <1>0, <1>3, <2>2
  <2>5. Snapshots!Publish("postgres", job.day)
    BY <1>0, <1>3, <2>3, <2>4 DEF Snapshots!Publish, AtMost
  <2>6. "postgres" \in {"postgres", "minio"}
    OBVIOUS
  <2> QED BY <1>0, <2>5, <2>6 DEF Snapshots!Next, Snapshots!Publish
<1>4. CASE pc = "export" /\ objects' = Exported /\ UNCHANGED <<views, table>>
  <2>1. /\ AtMost(objects[job.day], objects'[job.day])
        /\ AtMost(objects'[job.day], views[job.day])
    BY <1>0, <1>4, Grow DEF StoresInv
  <2>2. pub' = [pub EXCEPT !["minio"][job.day] = pub'["minio"][job.day]]
    BY <1>0, <1>4 DEF Exported
  <2>3. Snapshots!Publish("minio", job.day)
    BY <1>0, <1>4, <2>1, <2>2 DEF Snapshots!Publish, AtMost
  <2>4. "minio" \in {"postgres", "minio"}
    OBVIOUS
  <2> QED BY <1>0, <2>3, <2>4 DEF Snapshots!Next, Snapshots!Publish
<1> QED BY <1>1, <1>2, <1>3, <1>4, StoreStep DEF Snapshots!Next

(* Postgres and MinIO implement monotone snapshots of the source.           *)
THEOREM SnapshotsRefined == Spec => StoresFollowViews
<1>1. Init => Snapshots!Init
  BY DEF Init, Snapshots!Init, Snapshots!NoRows, NoRows
<1>2. /\ Types /\ StoresInv /\ (Types /\ StoresInv)' /\ [Next]_vars
      => [Snapshots!Next]_Snapshots!vars
  BY SnapshotsStep
<1> QED BY <1>1, <1>2, StoresAlways, PTL DEF Spec, StoresFollowViews, Snapshots!Spec
-----------------------------------------------------------------------------
(* The runs.  A day is done for a run when both stores hold the same, at    *)
(* least what there was when the run began, and its object is named.        *)
DoneDay(run, paths, d) ==
    /\ AtMost(run.started[d], objects[d])
    /\ table[d].views = objects[d]
    /\ run.started[d] # NoRows => d \in paths

(* The run under way: it has done the days before the one it is at.         *)
RunUnderWay ==
    LET run == runs[job.run]
    IN job.run # Manual /\ pc \in {"query", "upsert", "export", "close"} =>
         /\ job.today = run.day /\ job.day \in DaysOf(run)
         /\ pc = "close" => job.day = job.today
         /\ pc \in {"upsert", "export"} => AtMost(run.started[job.day], job.rows)
         /\ pc = "export" => table[job.day].views = job.rows
         /\ \A d \in DaysOf(run) :
               d < job.day \/ pc = "close" => DoneDay(run, job.paths, d)

(* SuccessCoversItsDays for one run.                                        *)
Covered(run) ==
    \A d \in DaysOf(run) :
        /\ AtMost(run.started[d], table[d].views)
        /\ AtMost(run.started[d], objects[d])
        /\ run.started[d] # NoRows => d \in run.paths

RowOK(run) ==
    /\ \A d \in Days : AtMost(run.started[d], views[d])
    /\ run.status = "success" => Covered(run)

RunsInv == RunUnderWay /\ \A i \in 1 .. Len(runs) : RowOK(runs[i])

LEMMA RunTypes ==
    ASSUME Types, NEW i \in 1 .. Len(runs)
    PROVE  /\ runs[i] \in Runs /\ DaysOf(runs[i]) \subseteq Days
           /\ \A d \in Days : runs[i].started[d] \in Rows
<1>1. runs[i] \in Runs /\ runs[i].day > 0
  BY ElementOfSeq DEF Types, TypeOK
<1> QED BY <1>1, ConstantsAssumption DEF Runs, DaysOf, Days

(* What a run has stored stays stored.                                      *)
LEMMA CoveredStays ==
    ASSUME Types, Types', StoresInv, [Next]_vars,
           NEW started \in [Days -> Rows], NEW d \in Days
    PROVE  /\ AtMost(started[d], views[d]) => AtMost(started[d], views'[d])
           /\ AtMost(started[d], table[d].views) => AtMost(started[d], table'[d].views)
           /\ AtMost(started[d], objects[d]) => AtMost(started[d], objects'[d])
<1>1. /\ started[d] \in Rows /\ views[d] \in Rows /\ views'[d] \in Rows
      /\ table[d].views \in Rows /\ table'[d].views \in Rows
      /\ objects[d] \in Rows /\ objects'[d] \in Rows
  BY DEF Types, TypeOK
<1> QED BY <1>1, Grow, AtMostOrder

(* How aggregation_runs changes.                                            *)
LEMMA RunsStep ==
    ASSUME Types, [Next]_vars
    PROVE  \/ runs' = runs
           \/ runs' = Append(runs, NewRun) /\ UNCHANGED <<views, table, objects>>
           \/ /\ pc = "close" /\ job.run # Manual
              /\ runs' = Finished("success", job.paths)
              /\ UNCHANGED <<views, table, objects>>
           \/ /\ pc \in {"close", "abort"} /\ job.run # Manual
              /\ runs' = Finished("failed", {})
              /\ UNCHANGED <<views, table, objects>>
<1>1. pc \in {"close", "abort"} => job.run # Manual
  BY DEF Types, TypeOK
<1>2. CASE Close \/ CloseFails \/ Abort \/ AbortFails
  BY <1>1, <1>2 DEF Close, CloseFails, Abort, AbortFails
<1>3. CASE StartRun \/ StartRunFails
  BY <1>3 DEF StartRun, StartRunFails
<1>4. ASSUME NEW d \in Days, NEW m \in Movies, Ingest(d, m) PROVE runs' = runs
  BY <1>4 DEF Ingest
<1>5. ASSUME NEW d \in Days, ExportParquet(d) PROVE runs' = runs
  BY <1>5 DEF ExportParquet
<1>6. CASE Query \/ Upsert \/ Export \/ CallFails
  BY <1>6 DEF Query, Upsert, Export, CallFails
<1>7. CASE DayEnds \/ Crash \/ Restart \/ UNCHANGED vars
  BY <1>7 DEF DayEnds, Crash, Restart, vars
<1> QED BY <1>2, <1>3, <1>4, <1>5, <1>6, <1>7, ViewDaysAreDays
        DEF Next, Work, Failure, AttemptFails

LEMMA RowsOfRunsStep ==
    ASSUME Types, Types', StoresInv, RunsInv, [Next]_vars,
           NEW i \in 1 .. Len(runs')
    PROVE  RowOK(runs[i])'
<1>0. job.paths \in SUBSET Days /\ {} \in SUBSET Days
  BY DEF Types, TypeOK, Jobs
<1>1. ASSUME i \in 1 .. Len(runs), runs'[i] = runs[i] PROVE RowOK(runs[i])'
  <2>1. /\ runs[i].started \in [Days -> Rows] /\ DaysOf(runs[i]) \subseteq Days
    BY <1>1, RunTypes DEF Runs
  <2>2. \A d \in Days : AtMost(runs[i].started[d], views'[d])
    BY <1>1, <2>1, CoveredStays DEF RunsInv, RowOK
  <2>3. ASSUME runs[i].status = "success", NEW d \in DaysOf(runs[i])
        PROVE  /\ AtMost(runs[i].started[d], table'[d].views)
               /\ AtMost(runs[i].started[d], objects'[d])
               /\ runs[i].started[d] # NoRows => d \in runs[i].paths
    <3>1. Covered(runs[i])
      BY <1>1, <2>3 DEF RunsInv, RowOK
    <3> QED BY <2>1, <3>1, CoveredStays DEF Covered
  <2> QED BY <1>1, <2>2, <2>3 DEF RowOK, Covered, DaysOf
<1>2. CASE runs' = runs
  <2>1. i \in 1 .. Len(runs) /\ runs'[i] = runs[i]
    BY <1>2
  <2> QED BY <1>1, <2>1
<1>3. CASE runs' = Append(runs, NewRun) /\ UNCHANGED <<views, table, objects>>
  <2>1. CASE i \in 1 .. Len(runs)
    <3>1. runs'[i] = runs[i]
      BY <1>3, <2>1, Appended
    <3> QED BY <1>1, <2>1, <3>1
  <2>2. CASE i \notin 1 .. Len(runs)
    <3>1. runs'[i] = NewRun
      BY <1>3, <2>2, Appended DEF Types, TypeOK
    <3>2. \A d \in Days : AtMost(views[d], views[d])
      BY AtMostOrder DEF Types, TypeOK
    <3> QED BY <1>3, <3>1, <3>2 DEF NewRun, RowOK
  <2> QED BY <2>1, <2>2
<1>4. ASSUME job.run # Manual, NEW st \in {"success", "failed"},
             NEW ps \in SUBSET Days, runs' = Finished(st, ps),
             UNCHANGED <<views, table, objects>>,
             st = "success" => pc = "close" /\ ps = job.paths
      PROVE  RowOK(runs[i])'
  <2>1. i \in 1 .. Len(runs)
    BY <1>4, FinishedIs
  <2>2. runs'[i] = IF i = job.run
                   THEN [runs[i] EXCEPT !.status = st, !.paths = ps]
                   ELSE runs[i]
    <3>1. st \in {"running", "success", "failed"}
      BY <1>4
    <3>2. \A n \in 1 .. Len(runs) :
             Finished(st, ps)[n] = IF n = job.run
                                   THEN [runs[n] EXCEPT !.status = st, !.paths = ps]
                                   ELSE runs[n]
      BY <1>4, <3>1, FinishedIs
    <3> QED BY <1>4, <2>1, <3>2, Zenon
  <2>3. CASE i # job.run
    BY <1>1, <2>1, <2>2, <2>3
  <2>4. CASE i = job.run
    <3>1. /\ runs'[i].started = runs[i].started /\ runs'[i].day = runs[i].day
          /\ runs'[i].paths = ps /\ runs'[i].status = st
      BY <2>1, <2>2, <2>4, RunTypes DEF Runs
    <3>2. \A d \in Days : AtMost(runs[i].started[d], views[d])
      BY <2>1 DEF RunsInv, RowOK
    <3>3. ASSUME st = "success", NEW d \in DaysOf(runs[i])
          PROVE  /\ AtMost(runs[i].started[d], table[d].views)
                 /\ AtMost(runs[i].started[d], objects[d])
                 /\ runs[i].started[d] # NoRows => d \in ps
      BY <1>4, <2>4, <3>3 DEF RunsInv, RunUnderWay, DoneDay
    <3> QED BY <1>4, <3>1, <3>2, <3>3 DEF RowOK, Covered, DaysOf
  <2> QED BY <2>3, <2>4
<1> QED BY <1>0, <1>2, <1>3, <1>4, RunsStep

(* The run under way goes on to its next day, or to its close.              *)
LEMMA NextDay ==
    ASSUME Types, RunUnderWay, job.run # Manual,
           pc \in {"query", "upsert", "export", "close"}, runs' = runs,
           NEW paths \in SUBSET Days,
           DayDone([job EXCEPT !.paths = paths]),
           \A d \in DaysOf(runs[job.run]) : d <= job.day =>
              /\ AtMost(runs[job.run].started[d], objects'[d])
              /\ table'[d].views = objects'[d]
              /\ runs[job.run].started[d] # NoRows => d \in paths
    PROVE  RunUnderWay'
<1> DEFINE run == runs[job.run]
           j == [job EXCEPT !.paths = paths]
<1>1. /\ job \in Jobs /\ job.day \in Int /\ job.today \in Int
      /\ job.run \in 1 .. Len(runs)
  BY DEF Types, TypeOK, Jobs, Days, Manual
<1>2. /\ j \in Jobs /\ j.run = job.run /\ j.day = job.day /\ j.today = job.today
      /\ j.paths = paths
  BY <1>1 DEF Jobs
<1>3. /\ job.today = run.day /\ job.day \in {run.day - 1, run.day}
      /\ DaysOf(run) = {run.day - 1, run.day}
  BY DEF RunUnderWay, DaysOf
<1> HIDE DEF j
<1>4. /\ pc' = IF job.day < job.today THEN "query" ELSE "close"
      /\ job'.day = IF job.day < job.today THEN job.day + 1 ELSE job.day
      /\ job'.run = job.run /\ job'.today = job.today /\ job'.paths = paths
  <2>1. DayDone(j)
    BY DEF j
  <2> QED BY <1>2, <2>1, DayDoneIs
<1>5. ASSUME NEW d \in DaysOf(run), d < job'.day \/ pc' = "close"
      PROVE  d <= job.day
  BY <1>1, <1>3, <1>4, <1>5
<1>6. run' = run /\ DaysOf(run)' = DaysOf(run)
  BY <1>4 DEF DaysOf
<1>7. \A d \in DaysOf(run) : d < job'.day \/ pc' = "close" =>
         /\ AtMost(run.started[d], objects'[d])
         /\ table'[d].views = objects'[d]
         /\ run.started[d] # NoRows => d \in paths
  BY <1>5
<1>8. /\ job'.today = run.day /\ job'.day \in DaysOf(run)
      /\ pc' = "close" => job'.day = job'.today
      /\ pc' \notin {"upsert", "export"}
  BY <1>1, <1>3, <1>4
<1> HIDE DEF run
<1> QED BY <1>4, <1>6, <1>7, <1>8 DEF RunUnderWay, DoneDay, run

LEMMA UnderWayStep ==
    ASSUME Types, Types', StoresInv, RunsInv, [Next]_vars
    PROVE  RunUnderWay'
<1> DEFINE run == runs[job.run]
<1>0. RunUnderWay
  BY DEF RunsInv
<1>a. /\ job \in Jobs /\ job.day \in Days /\ job.rows \in Rows
      /\ job.paths \in SUBSET Days /\ job.day \in Int
      /\ DOMAIN objects = Days
  BY DEF Types, TypeOK, Jobs, Days
<1>b. ASSUME job.run # Manual
      PROVE  /\ job.run \in 1 .. Len(runs) /\ DaysOf(run) \subseteq Days
             /\ \A d \in Days : run.started[d] \in Rows
             /\ \A d \in Days : AtMost(run.started[d], views[d])
             /\ run.day \in Int /\ DaysOf(run) = {run.day - 1, run.day}
  <2>1. job.run \in 1 .. Len(runs)
    BY <1>b DEF Types, TypeOK, Manual
  <2> QED BY <2>1, RunTypes DEF RunsInv, RowOK, Runs, Days, DaysOf
<1>1. CASE UNCHANGED <<pc, job, table, objects, runs>>
  BY <1>0, <1>1 DEF RunUnderWay, DoneDay, DaysOf
<1>2. ASSUME \/ job'.run = Manual
             \/ pc' \notin {"query", "upsert", "export", "close"}
      PROVE  RunUnderWay'
  BY <1>2 DEF RunUnderWay
<1>3. CASE StartRun
  <2>1. runs' = Append(runs, NewRun) /\ job'.run = Len(runs') /\ job'.today = today
        /\ job'.day = today - 1 /\ pc' = "query"
    BY <1>3 DEF StartRun, NoJob
  <2>2. runs'[job'.run] = NewRun
    BY <2>1, Appended
  <2>3. NewRun.day = today /\ DaysOf(NewRun) = {today - 1, today} /\ today \in Int
    BY DEF NewRun, DaysOf, Types, TypeOK, Days
  <2> QED BY <2>1, <2>2, <2>3 DEF RunUnderWay, DaysOf
<1>4. CASE Query
  <2>1. UNCHANGED <<views, table, objects, runs>> /\ pc = "query"
    BY <1>4 DEF Query
  <2>2. CASE views[job.day] = NoRows /\ DayDone(job) /\ job.run # Manual
    <3>1. [job EXCEPT !.paths = job.paths] = job
      BY <1>a DEF Jobs
    <3>2. /\ run.started[job.day] = NoRows
          /\ table[job.day].views = NoRows /\ objects[job.day] = NoRows
      <4>1. /\ table[job.day].views \in Rows /\ objects[job.day] \in Rows
            /\ run.started[job.day] \in Rows
        BY <1>a, <1>b, <2>2 DEF Types, TypeOK
      <4>2. /\ AtMost(table[job.day].views, NoRows) /\ AtMost(objects[job.day], NoRows)
            /\ AtMost(run.started[job.day], NoRows)
        BY <1>a, <1>b, <2>2 DEF StoresInv
      <4> QED BY <4>1, <4>2, AtMostOrder
    <3>3. AtMost(run.started[job.day], objects[job.day])
      BY <1>a, <1>b, <2>2, <3>2, AtMostOrder
    <3>4. \A d \in DaysOf(run) : d <= job.day =>
             /\ AtMost(run.started[d], objects'[d])
             /\ table'[d].views = objects'[d]
             /\ run.started[d] # NoRows => d \in job.paths
      BY <1>0, <1>a, <1>b, <2>1, <2>2, <3>2, <3>3 DEF RunUnderWay, DoneDay
    <3> QED BY <1>0, <1>a, <2>1, <2>2, <3>1, <3>4, NextDay
  <2>3. CASE /\ pc' = IF job.run = Manual THEN "export" ELSE "upsert"
             /\ job' = [job EXCEPT !.rows = views[job.day], !.tries = 0]
             /\ job.run # Manual
    <3>1. /\ job'.run = job.run /\ job'.day = job.day /\ job'.today = job.today
          /\ job'.rows = views[job.day] /\ job'.paths = job.paths /\ pc' = "upsert"
      BY <1>a, <2>3 DEF Jobs
    <3>2. AtMost(run.started[job.day], job'.rows)
      BY <1>a, <1>b, <2>3, <3>1
    <3> QED BY <1>0, <2>1, <2>3, <3>1, <3>2 DEF RunUnderWay, DoneDay, DaysOf
  <2>4. CASE job.run = Manual
    <3>1. job'.run = Manual
      BY <1>a, <1>4, <2>4, DayDoneIs DEF Query, Jobs
    <3> QED BY <1>2, <3>1
  <2> QED BY <1>4, <2>2, <2>3, <2>4 DEF Query
<1>5. CASE Upsert
  <2>1. /\ pc = "upsert" /\ pc' = "export" /\ table' = Upserted
        /\ UNCHANGED <<objects, runs>> /\ job.run # Manual
    BY <1>5 DEF Upsert, Types, TypeOK
  <2>2. /\ job'.run = job.run /\ job'.day = job.day /\ job'.today = job.today
        /\ job'.rows = job.rows /\ job'.paths = job.paths
    BY <1>a, <1>5 DEF Upsert, Jobs
  <2>3. /\ table'[job.day].views = job.rows
        /\ \A d \in Days \ {job.day} : table'[d] = table[d]
    BY <2>1, UpsertedIs DEF StoresInv
  <2> QED BY <1>0, <1>a, <1>b, <2>1, <2>2, <2>3 DEF RunUnderWay, DoneDay, DaysOf
<1>6. CASE Export
  <2> DEFINE paths == job.paths \cup {job.day}
  <2>1. /\ pc = "export" /\ objects' = Exported /\ UNCHANGED <<table, runs>>
        /\ DayDone([job EXCEPT !.paths = paths]) /\ paths \in SUBSET Days
    BY <1>a, <1>6 DEF Export
  <2>2. CASE job.run # Manual
    <3>1. /\ objects'[job.day] = job.rows
          /\ \A d \in Days \ {job.day} : objects'[d] = objects[d]
      BY <1>a, <2>1 DEF Exported
    <3>2. /\ AtMost(run.started[job.day], job.rows)
          /\ table[job.day].views = job.rows
      BY <1>0, <2>1, <2>2 DEF RunUnderWay
    <3>3. \A d \in DaysOf(run) : d <= job.day =>
             /\ AtMost(run.started[d], objects'[d])
             /\ table'[d].views = objects'[d]
             /\ run.started[d] # NoRows => d \in paths
      BY <1>0, <1>a, <1>b, <2>1, <2>2, <3>1, <3>2 DEF RunUnderWay, DoneDay
    <3> HIDE DEF paths
    <3> QED BY <1>0, <2>1, <2>2, <3>3, NextDay
  <2>3. CASE job.run = Manual
    <3>1. [job EXCEPT !.paths = paths] \in Jobs
          /\ [job EXCEPT !.paths = paths].run = job.run
      BY <1>a, <2>1 DEF Jobs
    <3>2. job'.run = Manual
      BY <2>1, <2>3, <3>1, DayDoneIs
    <3> QED BY <1>2, <3>2
  <2> QED BY <2>2, <2>3
<1>7. CASE CallFails
  <2>1. CASE GiveUp
    <3>1. pc' \notin {"query", "upsert", "export", "close"}
      BY <2>1 DEF GiveUp, Return
    <3> QED BY <1>2, <3>1
  <2>2. CASE job.tries + 1 < Attempts /\ job.run # Manual
    <3>1. /\ pc' = pc /\ runs' = runs /\ pc \in {"query", "upsert", "export"}
          /\ table' \in {table} \cup IF pc = "upsert" THEN {Upserted} ELSE {}
          /\ objects' \in {objects} \cup IF pc = "export" THEN {Exported} ELSE {}
          /\ job' = [job EXCEPT !.tries = @ + 1]
      BY <1>7, <2>2 DEF CallFails, TryAgain
    <3>2. /\ job'.run = job.run /\ job'.day = job.day /\ job'.today = job.today
          /\ job'.rows = job.rows /\ job'.paths = job.paths
      BY <1>a, <3>1 DEF Jobs
    <3>3. /\ \A d \in Days \ {job.day} : table'[d] = table[d] /\ objects'[d] = objects[d]
          /\ pc = "export" => table' = table
      BY <1>a, <3>1, UpsertedIs DEF StoresInv, Exported
    <3>4. /\ job.today = run.day /\ job.day \in DaysOf(run)
          /\ \A d \in DaysOf(run) : d < job.day => DoneDay(run, job.paths, d)
          /\ pc \in {"upsert", "export"} => AtMost(run.started[job.day], job.rows)
          /\ pc = "export" => table[job.day].views = job.rows
      BY <1>0, <2>2, <3>1 DEF RunUnderWay
    <3>5. \A d \in DaysOf(run) : d < job.day =>
             /\ AtMost(run.started[d], objects'[d])
             /\ table'[d].views = objects'[d]
             /\ run.started[d] # NoRows => d \in job.paths
      BY <1>a, <1>b, <2>2, <3>3, <3>4 DEF DoneDay
    <3>6. run' = run /\ DaysOf(run)' = DaysOf(run)
      BY <3>1, <3>2 DEF DaysOf
    <3> HIDE DEF run
    <3>7. RunUnderWay'
      BY <3>1, <3>2, <3>3, <3>4, <3>5, <3>6 DEF RunUnderWay, DoneDay, run
    <3> QED BY <3>7
  <2>3. CASE job.tries + 1 < Attempts /\ job.run = Manual
    <3>1. job'.run = Manual
      BY <1>a, <1>7, <2>3 DEF CallFails, TryAgain, Jobs
    <3> QED BY <1>2, <3>1
  <2> QED BY <1>7, <2>1, <2>2, <2>3 DEF CallFails, TryAgain
<1>8. CASE \E d \in Days : ExportParquet(d)
  <2>1. job'.run = Manual
    BY <1>8 DEF ExportParquet, NoJob
  <2> QED BY <1>2, <2>1
<1>9. CASE Close \/ CloseFails \/ Abort \/ AbortFails \/ Crash
  <2>1. pc' \notin {"query", "upsert", "export", "close"}
    BY <1>9 DEF Close, CloseFails, Abort, AbortFails, Crash, Return
  <2> QED BY <1>2, <2>1
<1>10. CASE StartRunFails \/ Restart
  <2>1. pc' \notin {"query", "upsert", "export", "close"}
    BY <1>10 DEF StartRunFails, Restart
  <2> QED BY <1>2, <2>1
<1>11. CASE DayEnds \/ UNCHANGED vars \/ \E d \in ViewDays, m \in Movies : Ingest(d, m)
  BY <1>1, <1>11 DEF DayEnds, Ingest, vars
<1> QED
  BY <1>3, <1>4, <1>5, <1>6, <1>7, <1>8, <1>9, <1>10, <1>11 DEF Next, Work, Failure, AttemptFails

LEMMA RunsInvAlways == Spec => [](Types /\ StoresInv /\ RunsInv)
<1>1. Init => RunsInv
  BY DEF Init, RunsInv, RunUnderWay, NoJob
<1>2. ASSUME Types, Types', StoresInv, RunsInv, [Next]_vars PROVE RunsInv'
  <2>1. RunUnderWay'
    BY <1>2, UnderWayStep
  <2>2. \A i \in 1 .. Len(runs') : RowOK(runs[i])'
    BY <1>2, RowsOfRunsStep
  <2> QED BY <2>1, <2>2 DEF RunsInv
<1>3. /\ Types /\ StoresInv /\ RunsInv /\ (Types /\ StoresInv)' /\ [Next]_vars
      => RunsInv'
  BY <1>2
<1> QED BY <1>1, <1>3, StoresAlways, PTL DEF Spec

(* What "success" promises of the two days of a run is kept.                *)
THEOREM SuccessKept == Spec => []SuccessCoversItsDays
<1>1. Types /\ StoresInv /\ RunsInv => SuccessCoversItsDays
  BY DEF RunsInv, RowOK, Covered, SuccessCoversItsDays, AtMost
<1> QED BY <1>1, RunsInvAlways, PTL

(* A run that is about to report success leaves the stores in agreement.    *)
THEOREM AgreementAfterRun == Spec => []StoresAgreeAfterRun
<1>1. Types /\ StoresInv /\ RunsInv => StoresAgreeAfterRun
  <2> SUFFICES ASSUME Types, RunsInv, pc = "close",
                      NEW d \in {job.today - 1, job.today}
               PROVE  table[d].views = objects[d]
    BY DEF StoresAgreeAfterRun
  <2>1. job.run # Manual
    BY DEF Types, TypeOK
  <2>2. job.today = runs[job.run].day
    BY <2>1 DEF RunsInv, RunUnderWay
  <2>3. d \in DaysOf(runs[job.run])
    BY <2>2 DEF DaysOf
  <2> QED BY <2>1, <2>3 DEF RunsInv, RunUnderWay, DoneDay
<1> QED BY <1>1, RunsInvAlways, PTL

(* A step that neither begins nor ends a run keeps the rows of the runs,    *)
(* and the run it is a step of.                                             *)
LEMMA RunKept ==
    ASSUME Types, Query \/ Upsert \/ Export \/ CallFails
    PROVE  /\ runs' = runs /\ torn' = torn
           /\ job.run # Manual => job'.run = job.run
<1>1. job \in Jobs
  BY DEF Types, TypeOK
<1>2. runs' = runs /\ torn' = torn
  BY DEF Query, Upsert, Export, CallFails
<1>3. ASSUME job.run # Manual PROVE job'.run = job.run
  <2>1. CASE Query
    BY <1>1, <1>3, <2>1, DayDoneIs DEF Query, Jobs
  <2>2. CASE Upsert
    BY <1>1, <2>2 DEF Upsert, Jobs
  <2>3. CASE Export
    <3> DEFINE j == [job EXCEPT !.paths = @ \cup {job.day}]
    <3>1. j \in Jobs /\ j.run = job.run
      BY <1>1 DEF Jobs
    <3>2. DayDone(j)
      BY <2>3 DEF Export
    <3> HIDE DEF j
    <3> QED BY <1>3, <3>1, <3>2, DayDoneIs
  <2>4. CASE CallFails
    BY <1>1, <1>3, <2>4 DEF CallFails, TryAgain, GiveUp, Jobs
  <2> QED BY <2>1, <2>2, <2>3, <2>4
<1> QED BY <1>2, <1>3

LEMMA OpenRunsStep ==
    ASSUME Types, Types', OpenRunsWereInterrupted, [Next]_vars
    PROVE  OpenRunsWereInterrupted'
<1> DEFINE Open(i) == runs[i].status = "running" => i = job.run \/ i \in torn
<1>0. \A i \in 1 .. Len(runs) : Open(i)
  BY DEF OpenRunsWereInterrupted
<1>a. Len(runs) \in Nat /\ Len(runs') \in Nat /\ DOMAIN runs = 1 .. Len(runs)
      /\ DOMAIN runs' = 1 .. Len(runs')
  BY DEF Types, TypeOK
<1>1. ASSUME runs' = runs, torn \subseteq torn',
             \A i \in 1 .. Len(runs) : i = job.run => i = job'.run \/ i \in torn'
      PROVE  OpenRunsWereInterrupted'
  BY <1>0, <1>1 DEF OpenRunsWereInterrupted
<1>2. CASE UNCHANGED <<runs, torn, job>>
  BY <1>1, <1>2
<1>3. CASE Query \/ Upsert \/ Export \/ CallFails
  BY <1>1, <1>3, RunKept DEF Manual
<1>4. ASSUME runs' = Append(runs, NewRun), torn \subseteq torn',
             job.run # Manual => job'.run = job.run,
             Len(runs') = job'.run \/ Len(runs') \in torn'
      PROVE  OpenRunsWereInterrupted'
  <2> SUFFICES ASSUME NEW i \in 1 .. Len(runs'), runs'[i].status = "running"
               PROVE  i = job'.run \/ i \in torn'
    BY DEF OpenRunsWereInterrupted
  <2>1. CASE i \in 1 .. Len(runs)
    <3>1. runs'[i] = runs[i]
      BY <1>4, <2>1, Appended
    <3> QED BY <1>0, <1>4, <2>1, <3>1 DEF Manual
  <2>2. CASE i = Len(runs')
    BY <1>4, <2>2
  <2>3. Len(runs') = Len(runs) + 1
    BY <1>4, Appended
  <2> QED BY <1>a, <2>1, <2>2, <2>3
<1>5. CASE StartRun
  <2>1. job'.run = Len(runs') /\ job.run = Manual
    BY <1>5 DEF StartRun, NoJob, Types
  <2> QED BY <1>4, <1>5, <2>1 DEF StartRun
<1>6. CASE StartRunFails
  <2>1. CASE runs' = runs
    BY <1>1, <1>6, <2>1 DEF StartRunFails
  <2>2. CASE runs' = Append(runs, NewRun)
    <3>1. Len(runs') = Len(runs) + 1
      BY <2>2, Appended
    <3>2. Len(runs') \in DOMAIN runs' \ DOMAIN runs
      BY <1>a, <3>1
    <3>3. torn' = torn \cup (DOMAIN runs' \ DOMAIN runs) /\ job' = job
      BY <1>6 DEF StartRunFails
    <3> QED BY <1>4, <2>2, <3>2, <3>3
  <2> QED BY <1>6, <2>1, <2>2 DEF StartRunFails
<1>7. ASSUME job.run # Manual, NEW st \in {"success", "failed"},
             NEW ps \in SUBSET Days, runs' = Finished(st, ps), torn \subseteq torn'
      PROVE  OpenRunsWereInterrupted'
  <2>1. Len(runs') = Len(runs)
    BY <1>7, FinishedIs
  <2>2. \A i \in 1 .. Len(runs) :
           runs'[i] = IF i = job.run
                      THEN [runs[i] EXCEPT !.status = st, !.paths = ps]
                      ELSE runs[i]
    <3>1. st \in {"running", "success", "failed"}
      BY <1>7
    <3> QED BY <1>7, <3>1, FinishedIs, ZenonT(60)
  <2>3. ASSUME NEW i \in 1 .. Len(runs), runs'[i].status = "running"
        PROVE  i \in torn'
    <3>1. runs[i] \in Runs
      BY RunTypes
    <3>2. i # job.run
      BY <1>7, <2>2, <2>3, <3>1 DEF Runs
    <3> QED BY <1>0, <1>7, <2>2, <2>3, <3>2
  <2> QED BY <2>1, <2>3 DEF OpenRunsWereInterrupted
<1>8. CASE Close \/ CloseFails \/ Abort \/ AbortFails
  <2>1. /\ job.run # Manual /\ job.paths \in SUBSET Days /\ {} \in SUBSET Days
        /\ torn \subseteq torn'
        /\ \/ runs' = runs
           \/ runs' = Finished("success", job.paths)
           \/ runs' = Finished("failed", {})
    BY <1>8 DEF Close, CloseFails, Abort, AbortFails, Types, TypeOK, Jobs
  <2>2. CASE runs' = runs /\ (CloseFails \/ AbortFails)
    BY <1>1, <2>1, <2>2 DEF CloseFails, AbortFails, Manual
  <2>3. CASE runs' = runs /\ (Close \/ Abort)
    <3>1. runs' = Finished("success", job.paths) \/ runs' = Finished("failed", {})
      BY <2>3 DEF Close, Abort
    <3> QED BY <1>7, <2>1, <3>1
  <2> QED BY <1>7, <1>8, <2>1, <2>2, <2>3
<1>9. CASE Crash
  <2>1. /\ runs' = runs /\ torn' = torn \cup ({job.run} \ {Manual})
    BY <1>9 DEF Crash
  <2>2. \A i \in 1 .. Len(runs) : i = job.run => i \in torn'
    BY <2>1 DEF Manual
  <2> QED BY <1>1, <2>1, <2>2
<1>10. ASSUME NEW d \in Days, ExportParquet(d) PROVE OpenRunsWereInterrupted'
  <2>1. job.run = Manual /\ runs' = runs /\ torn' = torn
    BY <1>10 DEF ExportParquet, Types
  <2> QED BY <1>1, <2>1 DEF Manual
<1>11. CASE DayEnds \/ Restart \/ UNCHANGED vars
  BY <1>2, <1>11 DEF DayEnds, Restart, vars
<1>12. ASSUME NEW d \in Days, NEW m \in Movies, Ingest(d, m)
       PROVE  OpenRunsWereInterrupted'
  BY <1>2, <1>12 DEF Ingest
<1> QED
  BY <1>3, <1>5, <1>6, <1>8, <1>9, <1>10, <1>11, <1>12, ViewDaysAreDays
     DEF Next, Work, Failure, AttemptFails

(* The except branch closes every run that was not itself interrupted.      *)
THEOREM OpenRunsExplained == Spec => []OpenRunsWereInterrupted
<1>1. Init => OpenRunsWereInterrupted
  BY DEF Init, OpenRunsWereInterrupted
<1>2. ASSUME Types, Types', OpenRunsWereInterrupted, [Next]_vars
      PROVE  OpenRunsWereInterrupted'
  BY <1>2, OpenRunsStep
<1> QED BY <1>1, <1>2, StoresAlways, PTL DEF Spec
=============================================================================
