--------------------------- MODULE MCGenerateJobs ---------------------------
(***************************************************************************)
(* Instances of GenerateJobs for TLC: the three lanes the runner uses.      *)
(***************************************************************************)
EXTENDS GenerateJobs

CONSTANTS t1, t2, j1, j2, d1

MCLanes      == {"clustering", "describe-chronicles", "measure"}
MCKlass      == [l \in Lanes |-> IF l = "measure" THEN "bulk" ELSE "resident"]
MCEstimateGb == [l \in Lanes |-> IF l = "measure" THEN 2 ELSE 0]
MCLateKeys   == {"describe-chronicles"}
MCKillTimed  == {"clustering", "measure"}
=============================================================================
