------------------------------ MODULE MCIntake ------------------------------
(* The small instance of Intake in MCIntake.cfg: three threads, an event   *)
(* that can be stored, one too far in the future and one whose receipt a   *)
(* column rejects.  The liveness property rules out a symmetry.            *)
EXTENDS Intake
=============================================================================
