----------------------------- MODULE EventJournal -----------------------------
(***************************************************************************)
(* What the idempotency of the warehouse consumer promises                 *)
(* (hm6/README.md 115-137): whatever Kafka redelivers and whatever fails,  *)
(* the state changes of one event_id are handed to Cassandra at most once. *)
(* The journal is the order in which they are.                             *)
(***************************************************************************)
EXTENDS Sequences, Functions

CONSTANT EventIds

VARIABLE journal

Init == journal = <<>>

Record(e) ==
    /\ e \notin Range(journal)
    /\ journal' = Append(journal, e)

Next == \E e \in EventIds : Record(e)

Spec == Init /\ [][Next]_journal
=============================================================================
