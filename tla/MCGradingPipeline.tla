-------------------------- MODULE MCGradingPipeline --------------------------
(* Small instances of GradingPipeline for TLC. *)
EXTENDS GradingPipeline
=============================================================================
