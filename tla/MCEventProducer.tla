---------------------------- MODULE MCEventProducer ----------------------------
(* Constants for model-checking EventProducer.                              *)
EXTENDS EventProducer
=============================================================================
