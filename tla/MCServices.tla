------------------------------ MODULE MCServices ------------------------------
(* Small instances of the two components whose callers wait for a worker:    *)
(* the Darkroom and the generate API.  They share no state, so one run       *)
(* checks both: each moves while the other is where it started.              *)
EXTENDS MCImageJobs, Generate

CONSTANTS r1, r2, v1, v2

ImageRests == ImageInit /\ wakeable /\ power = "on"

ServicesInit == ImageInit /\ GenInit
ServicesNext ==
  \/ GenInit /\ MCNext /\ UNCHANGED genVars
  \/ ImageRests /\ GenNext /\ UNCHANGED imgVars
ServicesSpec ==
  ServicesInit /\ [][ServicesNext]_<<imgVars, genVars>> /\ ImageFairness /\ GenFairness
=============================================================================
