------------------------- MODULE MCScheduledMessages -------------------------
(* The small instance of ScheduledMessages for TLC. Rows and replicas are     *)
(* interchangeable, but the run checks liveness, so it uses no symmetry.      *)
EXTENDS ScheduledMessages
===============================================================================
