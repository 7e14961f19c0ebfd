------------------------------ MODULE MCGrading ------------------------------
(* Small instances of Grading for TLC. *)
EXTENDS Grading, TLC

=============================================================================
