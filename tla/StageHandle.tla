---------------------------- MODULE StageHandle ----------------------------
(***************************************************************************)
(* Stages run one by one, each under a handle of its own: StageHandle and  *)
(* StageHandleBuilder of src/src/pipeline/stage_handle.rs.                 *)
(*                                                                         *)
(* The first stage is built by spawn, or by spawn_with_input on a channel  *)
(* of the caller's; every other one by spawn_with_input on the receiver    *)
(* taken out of the handle before it.  Each handle is with an owner of its *)
(* own, which may call it between any two steps of the workers             *)
(* (StageWorker) and of the other owners.  The chain is built before its   *)
(* first handle is dropped.                                                *)
(***************************************************************************)
EXTENDS StageWorker

CONSTANTS
  HandleCommands   \* bound: calls of pause, resume, reset and shutdown

ASSUME HandleBounds == HandleCommands \in Nat

VARIABLES
  hpc,             \* per handle: what its owner is at
  calling,         \* per handle: the command being set
  thread,          \* per handle: the JoinHandle is "here", or "joined", or "failed"
  commanded,       \* the number of commands given
  accepted,        \* the items sent to the first stage
  overwritten      \* history, per handle: Running was stored over a later state

owners == <<hpc, calling, thread, commanded, accepted, overwritten>>
handleVars == <<workerVars, owners>>

HandleGoto(s, from, to) == hpc[s] = from /\ hpc' = [hpc EXCEPT ![s] = to]
Dropping == {"dropFlag", "dropInput", "dropJoin", "dropOutput"}

HandleInit ==
  /\ WorkerInit
  /\ inputTx \in {{"handle"}, {"caller"}}
  /\ outputRx = IF K = 1 /\ inputTx = {"handle"} THEN {"handle"} ELSE {"handle", "caller"}
  /\ hpc = [s \in Stages |-> "unborn"]
  /\ calling = [s \in Stages |-> "Run"]
  /\ thread = [s \in Stages |-> "here"]
  /\ commanded = 0 /\ accepted = 0
  /\ overwritten = [s \in Stages |-> FALSE]

---------------------------------------------------------------------------
(* spawn, spawn_with_input: the thread runs before the owner goes on       *)

Spawn(s) ==
  /\ s > 1 => hpc[s-1] = "held"
  /\ HandleGoto(s, "unborn", "spawned")
  /\ UNCHANGED <<workerVars, calling, thread, commanded, accepted, overwritten>>

StoreRunning(s) ==
  /\ HandleGoto(s, "spawned", "held")
  /\ overwritten' = [overwritten EXCEPT ![s] = state[s] \in {"Stopping", "Stopped"}]
  /\ state' = [state EXCEPT ![s] = "Running"]
  /\ UNCHANGED <<threads, command, shutdown, paused, metrics, channels, inputTx, outputRx,
                 late, calling, thread, commanded, accepted>>

---------------------------------------------------------------------------
(* pause, resume, reset and shutdown: the two stores of set_command        *)

SetCommand(s, cmd) ==
  /\ commanded < HandleCommands
  /\ HandleGoto(s, "held", "flag")
  /\ StoreCommand(s, cmd)
  /\ calling' = [calling EXCEPT ![s] = cmd]
  /\ commanded' = commanded + 1
  /\ UNCHANGED <<threads, shutdown, paused, state, metrics, channels, inputTx, outputRx, late,
                 thread, accepted, overwritten>>

SetFlag(s) ==
  /\ \/ HandleGoto(s, "flag", "held")
     \/ HandleGoto(s, "dropFlag", "dropInput")
  /\ StoreFlag(s, calling[s])
  /\ UNCHANGED <<threads, command, state, metrics, channels, inputTx, outputRx, late,
                 calling, thread, commanded, accepted, overwritten>>

---------------------------------------------------------------------------
(* input, output, take_input, take_output: the ends of the chain           *)

handles == <<hpc, calling, thread, commanded, overwritten>>

SendIn ==
  /\ accepted < MaxItems /\ Room(0)
  /\ "caller" \in inputTx \/ ("handle" \in inputTx /\ hpc[1] = "held")
  /\ Add(0, accepted + 1)
  /\ accepted' = accepted + 1
  /\ UNCHANGED <<threads, control, metrics, lost, inputTx, outputRx, late, handles>>

TakeOut ==
  /\ chan[K] # << >>
  /\ "caller" \in outputRx \/ ("handle" \in outputRx /\ hpc[K] = "held")
  /\ chan' = [chan EXCEPT ![K] = Tail(@)]
  /\ UNCHANGED <<threads, control, metrics, lost, inputTx, outputRx, late, owners>>

TakeInput ==
  /\ hpc[1] = "held" /\ "handle" \in inputTx
  /\ inputTx' = {"caller"}
  /\ UNCHANGED <<threads, control, metrics, channels, outputRx, late, owners>>

DropInput ==
  /\ "caller" \in inputTx
  /\ inputTx' = inputTx \ {"caller"}
  /\ UNCHANGED <<threads, control, metrics, channels, outputRx, late, owners>>

\* The items go with the last receiver.
ReleaseOutput(owner) ==
  /\ outputRx' = outputRx \ {owner}
  /\ IF outputRx = {owner} THEN Discard(K) ELSE UNCHANGED channels

DropOutput ==
  /\ "caller" \in outputRx
  /\ ReleaseOutput("caller")
  /\ UNCHANGED <<threads, control, metrics, inputTx, late, owners>>

---------------------------------------------------------------------------
(* join and Drop                                                           *)

\* Mutant: join does not wait for the thread.
AwaitNobody(s) ==
  thread' = [thread EXCEPT ![s] = IF @ # "here" THEN @ ELSE "joined"]

\* JoinHandle::join, if there is one still to be joined.
AwaitThread(s) ==
  /\ thread[s] = "here" => wpc[s] \in Ended
  /\ thread' = [thread EXCEPT ![s] = IF @ # "here" THEN @
                                     ELSE IF wpc[s] = "exited" THEN "joined" ELSE "failed"]

StartJoin(s) ==
  /\ HandleGoto(s, "held", "join")
  /\ UNCHANGED <<workerVars, calling, thread, commanded, accepted, overwritten>>

EndJoin(s) ==
  /\ HandleGoto(s, "join", "held")
  /\ AwaitThread(s)
  /\ UNCHANGED <<workerVars, calling, commanded, accepted, overwritten>>

\* Mutant: drop goes straight on to the join.
DropWithoutShutdown(s) ==
  /\ \A r \in Stages : hpc[r] # "unborn"
  /\ HandleGoto(s, "held", "dropInput")
  /\ UNCHANGED <<workerVars, calling, thread, commanded, accepted, overwritten>>

\* Drop begins with shutdown().
StartDrop(s) ==
  /\ \A r \in Stages : hpc[r] # "unborn"
  /\ HandleGoto(s, "held", "dropFlag")
  /\ StoreCommand(s, "Shutdown")
  /\ calling' = [calling EXCEPT ![s] = "Shutdown"]
  /\ UNCHANGED <<threads, shutdown, paused, state, metrics, channels, inputTx, outputRx, late,
                 thread, commanded, accepted, overwritten>>

\* input_tx of spawn_with_input is the sender of a channel nobody reads.
DropTakesInput(s) ==
  /\ HandleGoto(s, "dropInput", "dropJoin")
  /\ inputTx' = IF s = 1 THEN inputTx \ {"handle"} ELSE inputTx
  /\ UNCHANGED <<threads, control, metrics, channels, outputRx, late,
                 calling, thread, commanded, accepted, overwritten>>

\* Drop joins while the handle still has its receiver.
DropAwaits(s) ==
  /\ HandleGoto(s, "dropJoin", "dropOutput")
  /\ AwaitThread(s)
  /\ UNCHANGED <<workerVars, calling, commanded, accepted, overwritten>>

DropFields(s) ==
  /\ HandleGoto(s, "dropOutput", "gone")
  /\ IF s = K /\ "handle" \in outputRx THEN ReleaseOutput("handle")
                                       ELSE UNCHANGED <<outputRx, channels>>
  /\ UNCHANGED <<threads, control, metrics, inputTx, late,
                 calling, thread, commanded, accepted, overwritten>>

TakeOutput ==
  /\ hpc[K] = "held" /\ "handle" \in outputRx
  /\ outputRx' = (outputRx \ {"handle"}) \union {"caller"}
  /\ UNCHANGED <<threads, control, metrics, channels, inputTx, late, owners>>

---------------------------------------------------------------------------
HandleWork(s) == hpc[s] # "unborn" /\ Work(s) /\ UNCHANGED <<inputTx, outputRx, owners>>

Dropped(s) == SetFlag(s) \/ DropTakesInput(s) \/ DropAwaits(s) \/ DropFields(s)

OwnerNext(s) ==
  \/ Spawn(s) \/ StoreRunning(s)
  \/ \E cmd \in {"Pause", "Resume", "Reset", "Shutdown"} : SetCommand(s, cmd)
  \/ StartJoin(s) \/ EndJoin(s) \/ StartDrop(s) \/ Dropped(s)

EndsNext == SendIn \/ TakeOut \/ TakeInput \/ TakeOutput \/ DropInput \/ DropOutput

HandleNext == EndsNext \/ \E s \in Stages : HandleWork(s) \/ OwnerNext(s)

HandleSpec == HandleInit /\ [][HandleNext]_handleVars

---------------------------------------------------------------------------
(* Properties                                                              *)

\* The types of the variables.
HandleTypeOK ==
  /\ WorkerTypeOK
  /\ hpc \in [Stages -> {"unborn", "spawned", "held", "flag", "join", "gone"} \union Dropping]
  /\ calling \in [Stages -> {"Run", "Pause", "Resume", "Reset", "Shutdown"}]
  /\ thread \in [Stages -> {"here", "joined", "failed"}]
  /\ commanded \in 0..HandleCommands /\ accepted \in 0..MaxItems
  /\ overwritten \in [Stages -> BOOLEAN]

\* join "Waits for the stage thread to finish" (stage_handle.rs:274), and so does
\* Drop; Ok stands for a thread that returned and Err for one that panicked.
JoinIsTrue ==
  \A s \in Stages : /\ thread[s] = "joined" => wpc[s] = "exited"
                    /\ thread[s] = "failed" => wpc[s] = "panicked"
                    /\ hpc[s] = "gone" => wpc[s] \in Ended

\* A thread that has returned leaves the state Stopped behind it, unless the owner
\* stored its Running (stage_handle.rs:376) after the thread had come to its end;
\* then the handle says Running for ever.
EndIsVisible ==
  \A s \in Stages : wpc[s] = "exited" => IF overwritten[s] THEN state[s] # "Created"
                                                           ELSE state[s] = "Stopped"

\* "Drop the input channel to signal EOF" (stage_handle.rs:308): a stage that ends
\* because its input is closed, and not because it was told to, has taken everything
\* that was in the channel and given out all it held.
EofLosesNothing ==
  \A s \in Stages : wpc[s] = "exited" /\ ~shutdown[s] => lost[s-1] = 0 /\ held[s] = None

HandlesAreSound == HandleTypeOK /\ JoinIsTrue /\ EndIsVisible /\ EofLosesNothing

\* Dropping a handle returns, whether its stage is paused, is being reset or has
\* panicked. Only a flush that finds the output channel full can hold it up: Drop
\* joins while it has the receiver itself, and the stage behind may be paused.
HandleDropReturns ==
  \A s \in Stages : hpc[s] \in Dropping ~> \/ hpc[s] = "gone"
                                           \/ wpc[s] = "flush" /\ Len(chan[s]) = Cap
=============================================================================
