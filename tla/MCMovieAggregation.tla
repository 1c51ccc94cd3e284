-------------------------- MODULE MCMovieAggregation --------------------------
(* Constants for model-checking MovieAggregation.                           *)
EXTENDS MovieAggregation
=============================================================================
