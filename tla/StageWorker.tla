---------------------------- MODULE StageWorker ----------------------------
(***************************************************************************)
(* The worker threads of a chain of K stages: stage_worker of              *)
(* src/src/pipeline/executor.rs, the StageControl through which it is      *)
(* commanded (stage_handle.rs) and the bounded channels between stages     *)
(* (src/src/channel over crossbeam).                                       *)
(*                                                                         *)
(* Stage s takes from chan[s-1] and sends into chan[s]; chan[0] is the     *)
(* input of the pipeline and chan[K] its output.  One action is one access *)
(* to state another thread can see.  An item is its number in the order in *)
(* which the pipeline accepted it.  What a stage computes is abstracted to *)
(* what it does with items: it passes them on, or may filter them, or      *)
(* holds each back until the next one (a buffering stage, whose tick and   *)
(* flush give out what it holds).  Who writes the control words and owns   *)
(* the outer channel ends is left to the modules that extend this one.     *)
(***************************************************************************)
EXTENDS Integers, Sequences

CONSTANTS
  K,          \* the number of stages
  Cap,        \* PipelineConfig::channel_capacity
  Filters,    \* stages whose process may answer None
  Holders,    \* stages that hold an item back until the next one
  Faulty,     \* stages whose process may panic
  None,       \* no item
  MaxItems    \* bound: the items that enter the pipeline

Stages == 1..K
Channels == 0..K
Items == 1..MaxItems

ASSUME KAssumption == K \in Nat \ {0}
\* A crossbeam channel of capacity 0 is a rendezvous and is not modelled.
ASSUME CapAssumption == Cap \in Nat \ {0}
ASSUME KindsAssumption == /\ Filters \subseteq Stages /\ Holders \subseteq Stages
                          /\ Faulty \subseteq Stages
                          /\ Filters \intersect Holders = {}
ASSUME ItemsAssumption == MaxItems \in Nat /\ None \notin Int

VARIABLES
  wpc,        \* per stage: where its thread is in stage_worker
  hand,       \* per stage: the item taken from the channel, being processed
  held,       \* per stage: the item its Stage object buffers
  command, shutdown, paused, state,   \* per stage: StageControl
  inputs, outputs, filtered, drops,   \* per stage: StageMetrics
  chan,       \* per channel: the items in it, oldest first
  inputTx,    \* who holds a sender of chan[0]
  outputRx,   \* who holds a receiver of chan[K]
  lost,       \* history, per channel: items discarded with it, or sent to nobody
  late        \* history, per stage: items taken after its shutdown flag was set

threads == <<wpc, hand, held>>
control == <<command, shutdown, paused, state>>
metrics == <<inputs, outputs, filtered, drops>>
channels == <<chan, lost>>
workerVars == <<threads, control, metrics, channels, inputTx, outputRx, late>>

Ended == {"exited", "panicked"}

---------------------------------------------------------------------------
(* StageControl                                                            *)

\* set_command is two stores: the command, then the flag it stands for.
StoreCommand(s, cmd) == command' = [command EXCEPT ![s] = cmd]

StoreFlag(s, cmd) ==
  /\ shutdown' = [shutdown EXCEPT ![s] = @ \/ cmd = "Shutdown"]
  /\ paused' = [paused EXCEPT ![s] = cmd = "Pause" \/ (@ /\ cmd \notin {"Run", "Resume"})]

---------------------------------------------------------------------------
(* Channels (crossbeam): the last receiver that goes takes the items with   *)
(* it; a receiver finds a channel closed once it is empty and unowned.     *)

ReceiverAlive(i) == IF i = K THEN outputRx # {} ELSE wpc[i+1] \notin Ended
SenderAlive(i) == IF i = 0 THEN inputTx # {} ELSE wpc[i] \notin Ended
Room(i) == ReceiverAlive(i) /\ Len(chan[i]) < Cap
Add(i, x) == chan' = [chan EXCEPT ![i] = Append(@, x)]
Discard(i) == /\ chan' = [chan EXCEPT ![i] = << >>]
              /\ lost' = [lost EXCEPT ![i] = @ + Len(chan[i])]

Count(counter, s) == [counter EXCEPT ![s] = @ + 1]

---------------------------------------------------------------------------
(* stage_worker                                                            *)

Step(s, from, to) == wpc[s] = from /\ wpc' = [wpc EXCEPT ![s] = to]

\* Mutants of SendOrDrop: what does not fit is put in all the same; what was not
\* sent is counted as an output.
SendAlways(s, from, x) ==
  /\ Step(s, from, "countOutput")
  /\ Add(s, x)
  /\ UNCHANGED lost

SendCounted(s, from, x) ==
  /\ Step(s, from, "countOutput")
  /\ IF Room(s) THEN Add(s, x) ELSE UNCHANGED chan
  /\ UNCHANGED lost

\* Sender::send_or_drop by stage s; what came of it is counted in a step of its own.
SendOrDrop(s, from, x) ==
  \/ /\ Room(s)
     /\ Step(s, from, "countOutput")
     /\ Add(s, x)
     /\ UNCHANGED lost
  \/ /\ ~Room(s)
     /\ Step(s, from, "countDropped")
     /\ UNCHANGED channels

WorkerInit ==
  /\ wpc = [s \in Stages |-> "spawned"]
  /\ hand = [s \in Stages |-> None]
  /\ held = [s \in Stages |-> None]
  /\ command = [s \in Stages |-> "Run"]
  /\ shutdown = [s \in Stages |-> FALSE]
  /\ paused = [s \in Stages |-> FALSE]
  /\ state = [s \in Stages |-> "Created"]
  /\ inputs = [s \in Stages |-> 0]
  /\ outputs = [s \in Stages |-> 0]
  /\ filtered = [s \in Stages |-> 0]
  /\ drops = [s \in Stages |-> 0]
  /\ chan = [i \in Channels |-> << >>]
  /\ lost = [i \in Channels |-> 0]
  /\ late = [s \in Stages |-> 0]

WorkerStart(s) ==
  /\ Step(s, "spawned", "loop")
  /\ state' = [state EXCEPT ![s] = "Running"]
  /\ UNCHANGED <<hand, held, command, shutdown, paused, metrics, channels, late>>

\* Mutants of CheckShutdown: the command is looked at instead of the flag; a
\* paused stage does not look.
CheckShutdownCommand(s) ==
  /\ Step(s, "loop", IF command[s] = "Shutdown" THEN "stop" ELSE "checkPause")
  /\ UNCHANGED <<hand, held, control, metrics, channels, late>>

CheckShutdownUnlessPaused(s) ==
  /\ Step(s, "loop", IF shutdown[s] /\ ~paused[s] THEN "stop" ELSE "checkPause")
  /\ UNCHANGED <<hand, held, control, metrics, channels, late>>

CheckShutdown(s) ==
  /\ Step(s, "loop", IF shutdown[s] THEN "stop" ELSE "checkPause")
  /\ UNCHANGED <<hand, held, control, metrics, channels, late>>

CheckPause(s) ==
  /\ Step(s, "checkPause", IF paused[s] THEN "loop" ELSE "checkReset")
  /\ UNCHANGED <<hand, held, control, metrics, channels, late>>

NoReset(s) ==
  /\ command[s] # "Reset"
  /\ Step(s, "checkReset", "recv")
  /\ UNCHANGED <<hand, held, control, metrics, channels, late>>

\* Stage::reset and StageMetrics::reset, then set_command(Run) in two stores.
ResetStage(s) ==
  /\ command[s] = "Reset"
  /\ Step(s, "checkReset", "resetRun")
  /\ held' = [held EXCEPT ![s] = None]
  /\ inputs' = [inputs EXCEPT ![s] = 0]
  /\ outputs' = [outputs EXCEPT ![s] = 0]
  /\ filtered' = [filtered EXCEPT ![s] = 0]
  /\ drops' = [drops EXCEPT ![s] = 0]
  /\ UNCHANGED <<hand, control, channels, late>>

\* Mutant: the command stays, so that the stage resets itself for ever.
ResetForever(s) ==
  /\ Step(s, "resetRun", "loop")
  /\ UNCHANGED <<hand, held, control, metrics, channels, late>>

ResetStoreRun(s) ==
  /\ Step(s, "resetRun", "resetUnpause")
  /\ StoreCommand(s, "Run")
  /\ UNCHANGED <<hand, held, shutdown, paused, state, metrics, channels, late>>

ResetUnpause(s) ==
  /\ Step(s, "resetUnpause", "recv")
  /\ StoreFlag(s, "Run")
  /\ UNCHANGED <<hand, held, command, state, metrics, channels, late>>

\* recv_timeout answers Ok, Empty or Disconnected.
TakeItem(s) ==
  /\ chan[s-1] # << >>
  /\ Step(s, "recv", "countInput")
  /\ hand' = [hand EXCEPT ![s] = Head(chan[s-1])]
  /\ chan' = [chan EXCEPT ![s-1] = Tail(@)]
  /\ late' = IF shutdown[s] THEN Count(late, s) ELSE late
  /\ UNCHANGED <<held, control, metrics, lost>>

\* record_input, record_output and record_dropped: the item has moved already.
CountInput(s) ==
  /\ Step(s, "countInput", "process")
  /\ inputs' = Count(inputs, s)
  /\ UNCHANGED <<hand, held, control, outputs, filtered, drops, channels, late>>

CountOutput(s) ==
  /\ Step(s, "countOutput", "loop") \/ Step(s, "countFlush", "stopped")
  /\ outputs' = Count(outputs, s)
  /\ UNCHANGED <<hand, held, control, inputs, filtered, drops, channels, late>>

CountDropped(s) ==
  /\ Step(s, "countDropped", "loop")
  /\ drops' = Count(drops, s)
  /\ UNCHANGED <<hand, held, control, inputs, outputs, filtered, channels, late>>

TakeNothing(s) ==
  /\ chan[s-1] = << >> /\ SenderAlive(s-1)
  /\ Step(s, "recv", "tick")
  /\ UNCHANGED <<hand, held, control, metrics, channels, late>>

\* Mutant: a closed channel is left with items in it.
TakeClosedEarly(s) ==
  /\ ~SenderAlive(s-1)
  /\ Step(s, "recv", "stop")
  /\ UNCHANGED <<hand, held, control, metrics, channels, late>>

TakeClosed(s) ==
  /\ chan[s-1] = << >> /\ ~SenderAlive(s-1)
  /\ Step(s, "recv", "stop")
  /\ UNCHANGED <<hand, held, control, metrics, channels, late>>

\* The item is used up without a result.
Filtered(s) ==
  /\ Step(s, "process", "loop")
  /\ filtered' = Count(filtered, s)
  /\ UNCHANGED channels

\* Stage::process of a holder gives the item before this one.
Process(s) ==
  /\ hand' = [hand EXCEPT ![s] = None]
  /\ IF s \in Holders
       THEN /\ held' = [held EXCEPT ![s] = hand[s]]
            /\ IF held[s] = None THEN Filtered(s)
                                 ELSE SendOrDrop(s, "process", held[s]) /\ UNCHANGED filtered
       ELSE /\ \/ s \in Filters /\ Filtered(s)
               \/ SendOrDrop(s, "process", hand[s]) /\ UNCHANGED filtered
            /\ UNCHANGED held
  /\ UNCHANGED <<control, inputs, outputs, drops, late>>

\* The thread unwinds, and drops its channel ends: the state is left as it was.
Panic(s) ==
  /\ s \in Faulty
  /\ Step(s, "process", "panicked")
  /\ Discard(s-1)
  /\ UNCHANGED <<hand, held, control, metrics, late>>

\* Mutant: what tick gave out stays held.
TickTwice(s) ==
  /\ held[s] # None
  /\ SendOrDrop(s, "tick", held[s])
  /\ UNCHANGED <<hand, held, control, metrics, late>>

Tick(s) ==
  /\ \/ Step(s, "tick", "loop") /\ UNCHANGED <<held, channels>>
     \/ /\ held[s] # None
        /\ SendOrDrop(s, "tick", held[s])
        /\ held' = [held EXCEPT ![s] = None]
  /\ UNCHANGED <<hand, control, metrics, late>>

\* The state Stopping, then Stage::flush.
StopStage(s) ==
  /\ Step(s, "stop", IF held[s] = None THEN "stopped" ELSE "flush")
  /\ state' = [state EXCEPT ![s] = "Stopping"]
  /\ UNCHANGED <<hand, held, command, shutdown, paused, metrics, channels, late>>

\* Mutant: what flush gives is not sent.
FlushLost(s) ==
  /\ Step(s, "flush", "stopped")
  /\ UNCHANGED <<hand, held, control, metrics, channels, late>>

\* Sender::send blocks while the channel is full; that nobody receives any more
\* is ignored, and then counted as an output.
Flush(s) ==
  /\ Step(s, "flush", "countFlush")
  /\ \/ Room(s) /\ Add(s, held[s]) /\ UNCHANGED lost
     \/ ~ReceiverAlive(s) /\ lost' = Count(lost, s) /\ UNCHANGED chan
  /\ held' = [held EXCEPT ![s] = None]
  /\ UNCHANGED <<hand, control, metrics, late>>

StoreStopped(s) ==
  /\ Step(s, "stopped", "return")
  /\ state' = [state EXCEPT ![s] = "Stopped"]
  /\ UNCHANGED <<hand, held, command, shutdown, paused, metrics, channels, late>>

\* stage_worker returns and drops its channel ends.
Exit(s) ==
  /\ Step(s, "return", "exited")
  /\ Discard(s-1)
  /\ UNCHANGED <<hand, held, control, metrics, late>>

Work(s) ==
  \/ WorkerStart(s) \/ CheckShutdown(s) \/ CheckPause(s)
  \/ NoReset(s) \/ ResetStage(s) \/ ResetStoreRun(s) \/ ResetUnpause(s)
  \/ TakeItem(s) \/ TakeNothing(s) \/ TakeClosed(s)
  \/ CountInput(s) \/ CountOutput(s) \/ CountDropped(s)
  \/ Process(s) \/ Panic(s) \/ Tick(s)
  \/ StopStage(s) \/ Flush(s) \/ StoreStopped(s) \/ Exit(s)

---------------------------------------------------------------------------
WorkerPcs == {"spawned", "loop", "checkPause", "checkReset", "resetRun", "resetUnpause", "recv",
              "countInput", "process", "countOutput", "countDropped", "tick", "stop", "flush",
              "countFlush", "stopped", "return"} \union Ended

\* The types of the variables; no channel ever holds more than its capacity.
WorkerTypeOK ==
  /\ wpc \in [Stages -> WorkerPcs]
  /\ hand \in [Stages -> Items \union {None}]
  /\ held \in [Stages -> Items \union {None}]
  /\ command \in [Stages -> {"Run", "Pause", "Resume", "Reset", "Shutdown"}]
  /\ shutdown \in [Stages -> BOOLEAN]
  /\ paused \in [Stages -> BOOLEAN]
  /\ state \in [Stages -> {"Created", "Running", "Stopping", "Stopped"}]
  /\ inputs \in [Stages -> Nat]
  /\ outputs \in [Stages -> Nat]
  /\ filtered \in [Stages -> Nat]
  /\ drops \in [Stages -> Nat]
  /\ chan \in [Channels -> Seq(Items)]
  /\ \A i \in Channels : Len(chan[i]) <= Cap
  /\ lost \in [Channels -> Nat]
  /\ late \in [Stages -> Nat]
=============================================================================
