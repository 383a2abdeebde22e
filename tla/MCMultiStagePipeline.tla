------------------------ MODULE MCMultiStagePipeline ------------------------
(* The pipeline on small instances: safety, liveness, and what the docs say  *)
(* of pause and join.                                                        *)
EXTENDS MultiStagePipeline

Budget(pause, resume, reset, stop, join, drop) ==
  [m \in Methods |-> CASE m = "pause" -> pause [] m = "resume" -> resume [] m = "reset" -> reset
                       [] m = "shutdown" -> stop [] m = "join" -> join [] m = "drop" -> drop]
SafetyCalls == Budget(1, 0, 1, 1, 1, 1)
LivenessCalls == Budget(1, 1, 1, 0, 0, 1)
PauseCalls == Budget(1, 0, 1, 0, 0, 0)
JoinCalls == Budget(0, 0, 0, 1, 2, 0)
=============================================================================
