---------------------------- MODULE MCBookingSaga ----------------------------
(* Constants for model-checking BookingSaga: flights of two seats, the      *)
(* requests ask for up to two.                                              *)
EXTENDS BookingSaga

MCCapacity == [f \in Flights |-> 2]
=============================================================================
