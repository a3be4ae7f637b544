------------------------- MODULE MCComputeGovernor -------------------------
(***************************************************************************)
(* Instances of ComputeGovernor for TLC.  The lanes are those of the code   *)
(* that differ in class, lease, child process or estimate.                  *)
(***************************************************************************)
EXTENDS ComputeGovernor

CONSTANTS t1, t2, w1

\* clustering and describe-chronicles load models in a child; transcribe-live
\* is interactive; embed-drain and transcribe are bulk.
MCLanes      == {"clustering", "describe", "live", "embed", "transcribe"}
MCKlass      == [l \in Lanes |-> CASE l \in {"clustering", "describe"} -> "resident"
                                   [] l = "live" -> "interactive"
                                   [] OTHER -> "bulk"]
MCEstimateGb == [l \in Lanes |-> CASE l = "embed" -> 1 [] l = "transcribe" -> 3 [] OTHER -> 0]
MCLeased     == {"clustering", "describe", "live", "transcribe"}
MCSpawning   == {"clustering", "describe"}
MCLateKeys   == {"describe"}
MCKillTimed  == {"clustering"}
MCWaiters    == {w1}

\* Ticket ids are interchangeable.
\* The small instance of the liveness and violation runs: no bulk lane.
SmallLanes    == {"clustering", "describe", "live"}
SmallLeased   == SmallLanes
=============================================================================
