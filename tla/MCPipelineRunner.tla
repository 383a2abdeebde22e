-------------------------- MODULE MCPipelineRunner --------------------------
(* Threads under a handle: the runner of spawn_pipeline on a ring of two       *)
(* places, and a chain of stages under StageHandles. A behaviour is one of the *)
(* two, as `system` says.                                                      *)
EXTENDS PipelineRunner, StageHandle

VARIABLE system
allVars == <<system, vars, handleVars>>

MCInit == /\ system \in {"runner", "handles"}
          /\ Init /\ HandleInit
          /\ system = "handles" => policy = "Block" /\ driver = "thread"
          /\ system = "runner" => inputTx = {"handle"}

RunnerIdle == UNCHANGED <<system, vars>>
StagesIdle == UNCHANGED <<system, handleVars>>

MCNext == \/ system = "runner" /\ Next /\ StagesIdle
          \/ system = "handles" /\ HandleNext /\ RunnerIdle

\* The fairness of FairSpec; every worker thread runs, and so does an owner that
\* is inside a drop.
MCSpec ==
  /\ MCInit /\ [][MCNext]_allVars
  /\ WF_allVars(system = "runner" /\ Push /\ StagesIdle)
  /\ WF_allVars(system = "runner" /\ Run /\ StagesIdle)
  /\ WF_allVars(system = "runner" /\ Joined /\ StagesIdle)
  /\ \A s \in Stages :
       /\ WF_allVars(system = "handles" /\ HandleWork(s) /\ RunnerIdle)
       /\ WF_allVars(system = "handles" /\ Dropped(s) /\ RunnerIdle)

\* Stopping or dropping either kind of handle comes to an end.
DropsReturn == StopEnds /\ HandleDropReturns
=============================================================================
