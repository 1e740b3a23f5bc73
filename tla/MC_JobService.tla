--------------------------- MODULE MC_JobService ---------------------------
(* One job, created as a turn or as a picture.                               *)
EXTENDS JobService
CONSTANTS job1
=============================================================================
