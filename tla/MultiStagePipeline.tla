------------------------- MODULE MultiStagePipeline -------------------------
(***************************************************************************)
(* MultiStagePipeline of src/src/pipeline/multi_stage.rs: the workers of   *)
(* StageWorker under one owner, who feeds them, pauses, resumes and resets *)
(* them, shuts them down, joins their threads and drops the pipeline.      *)
(* input() and output() let the owner clone the ends of the pipeline for   *)
(* other threads: Clones says of which ends it has done so.                *)
(***************************************************************************)
EXTENDS StageWorker, FiniteSets
LOCAL INSTANCE Functions

CONSTANTS
  Clones,     \* the ends, "input" or "output", of which another thread holds a clone
  MaxCalls,   \* bound: how often the owner calls each method
  MaxTotal    \* bound: how many calls it makes in all

Methods == {"pause", "resume", "reset", "shutdown", "join", "drop"}
HoldersOf(end) == {"owner"} \union (IF end \in Clones THEN {"clone"} ELSE {})

ASSUME ClonesAssumption == Clones \subseteq {"input", "output"}
ASSUME CallsAssumption == MaxCalls \in [Methods -> Nat] /\ MaxTotal \in Nat

VARIABLES
  pstate,     \* MultiStagePipeline::state
  call,       \* the method the owner is in: "none", a method, or "gone" after drop
  at,         \* the stage that its loop is at
  half,       \* in that round: the command is stored; in join: the handle is taken
  dropping,   \* shutdown and join are called from drop
  handles,    \* the stages whose JoinHandle is still there
  calls,      \* per method: how often it was called
  timedOut,   \* history: a join has answered a timeout or a panic
  accepted,   \* history: the number of items accepted
  delivered   \* history: the items received from the output, in order

owner == <<pstate, call, at, half, dropping, handles, calls, timedOut>>
vars == <<workerVars, owner, accepted, delivered>>

Init ==
  /\ WorkerInit
  /\ inputTx = HoldersOf("input")
  /\ outputRx = HoldersOf("output")
  /\ pstate = "Running"
  /\ call = "none" /\ at = 1 /\ half = FALSE /\ dropping = FALSE
  /\ handles = Stages
  /\ calls = [m \in Methods |-> 0]
  /\ timedOut = FALSE
  /\ accepted = 0
  /\ delivered = << >>

---------------------------------------------------------------------------
(* The two ends.  A call that answers an error or finds nothing changes     *)
(* nothing here; a blocked one waits for its action to be enabled.         *)

\* The owner is one thread: it uses its own ends between its other calls.
MayUse(ends) == "clone" \in ends \/ ("owner" \in ends /\ call = "none")

Send ==
  /\ MayUse(inputTx)
  /\ accepted < MaxItems
  /\ Room(0)
  /\ Add(0, accepted + 1)
  /\ accepted' = accepted + 1
  /\ UNCHANGED <<threads, control, metrics, lost, inputTx, outputRx, late, owner, delivered>>

Recv ==
  /\ MayUse(outputRx)
  /\ chan[K] # << >>
  /\ delivered' = Append(delivered, Head(chan[K]))
  /\ chan' = [chan EXCEPT ![K] = Tail(@)]
  /\ UNCHANGED <<threads, control, metrics, lost, inputTx, outputRx, late, owner, accepted>>

CloneSenderDropped ==
  /\ "clone" \in inputTx
  /\ inputTx' = inputTx \ {"clone"}
  /\ UNCHANGED <<threads, control, metrics, channels, outputRx, late, owner, accepted, delivered>>

---------------------------------------------------------------------------
(* The owner's methods                                                     *)

Total(f) == FoldFunction(+, 0, f)

Called(m) == /\ calls[m] < MaxCalls[m] /\ Total(calls) < MaxTotal
             /\ calls' = [calls EXCEPT ![m] = @ + 1]

ends == <<inputTx, outputRx, accepted, delivered>>

\* pause, resume and reset start their loops at once.
StartCommand(m) ==
  /\ call = "none" /\ call' = m
  /\ Called(m)
  /\ UNCHANGED <<pstate, at, half, dropping, handles, timedOut, threads, control, metrics,
                 channels, late, ends>>

StartShutdown ==
  /\ call = "none" /\ call' = "shutdown"
  /\ Called("shutdown")
  /\ pstate' = "Stopping"
  /\ UNCHANGED <<at, half, dropping, handles, timedOut, threads, control, metrics,
                 channels, late, ends>>

StartDrop ==
  /\ call = "none"
  /\ Called("drop")
  /\ dropping' = TRUE
  /\ IF pstate = "Stopped"
       THEN call' = "release" /\ UNCHANGED pstate
       ELSE call' = "shutdown" /\ pstate' = "Stopping"
  /\ UNCHANGED <<at, half, handles, timedOut, threads, control, metrics, channels, late, ends>>

CommandOf(m) == CASE m = "pause" -> "Pause" [] m = "resume" -> "Resume"
                  [] m = "reset" -> "Reset" [] m = "shutdown" -> "Shutdown"
Commanding == call \in {"pause", "resume", "reset", "shutdown"} /\ at \in Stages

CommandStage ==
  /\ Commanding /\ ~half
  /\ StoreCommand(at, CommandOf(call))
  /\ IF call = "reset" THEN at' = at + 1 /\ UNCHANGED half
                       ELSE half' = TRUE /\ UNCHANGED at
  /\ UNCHANGED <<pstate, call, dropping, handles, calls, timedOut, threads, shutdown, paused,
                 state, metrics, channels, late, ends>>

FlagStage ==
  /\ Commanding /\ half
  /\ StoreFlag(at, CommandOf(call))
  /\ at' = at + 1
  /\ half' = FALSE
  /\ UNCHANGED <<pstate, call, dropping, handles, calls, timedOut, threads, command,
                 state, metrics, channels, late, ends>>

Return(m) == call' = m /\ at' = 1 /\ half' = FALSE

EndCommand ==
  /\ call \in {"pause", "resume", "reset"} /\ at = K + 1
  /\ Return("none")
  /\ UNCHANGED <<pstate, dropping, handles, calls, timedOut, threads, control, metrics,
                 channels, late, ends>>

\* input_tx.take(): the end of shutdown.
EndShutdown ==
  /\ call = "shutdown" /\ at = K + 1
  /\ inputTx' = inputTx \ {"owner"}
  /\ Return(IF dropping THEN "join" ELSE "none")
  /\ UNCHANGED <<pstate, dropping, handles, calls, timedOut, threads, control, metrics,
                 channels, late, outputRx, accepted, delivered>>

---------------------------------------------------------------------------
(* join                                                                    *)

joinFrame == <<dropping, threads, control, metrics, channels, late, ends>>

StartJoin ==
  /\ call = "none" /\ call' = "join"
  /\ Called("join")
  /\ UNCHANGED <<pstate, at, half, handles, timedOut, joinFrame>>

AfterJoin == Return(IF dropping THEN "release" ELSE "none")

JoinSkip ==
  /\ call = "join" /\ at \in Stages /\ ~half
  /\ at \notin handles
  /\ at' = at + 1
  /\ UNCHANGED <<pstate, call, half, handles, calls, timedOut, joinFrame>>

JoinTake ==
  /\ call = "join" /\ at \in handles /\ ~half
  /\ handles' = handles \ {at}
  /\ half' = TRUE
  /\ UNCHANGED <<pstate, call, at, calls, timedOut, joinFrame>>

\* The deadline has passed when the handle was taken: the handle is gone.
JoinTimeout ==
  /\ call = "join" /\ at \in handles /\ ~half
  /\ handles' = handles \ {at}
  /\ AfterJoin
  /\ timedOut' = TRUE
  /\ UNCHANGED <<pstate, calls, joinFrame>>

\* Mutant: join does not wait for the thread.
JoinDetached ==
  /\ call = "join" /\ half
  /\ at' = at + 1
  /\ half' = FALSE
  /\ UNCHANGED <<pstate, call, handles, calls, timedOut, joinFrame>>

\* thread.join() itself has no timeout.
JoinThread ==
  /\ call = "join" /\ half
  /\ wpc[at] = "exited"
  /\ at' = at + 1
  /\ half' = FALSE
  /\ UNCHANGED <<pstate, call, handles, calls, timedOut, joinFrame>>

JoinPanicked ==
  /\ call = "join" /\ half
  /\ wpc[at] = "panicked"
  /\ AfterJoin
  /\ timedOut' = TRUE
  /\ UNCHANGED <<pstate, handles, calls, joinFrame>>

JoinOk ==
  /\ call = "join" /\ at = K + 1
  /\ pstate' = "Stopped"
  /\ AfterJoin
  /\ UNCHANGED <<handles, calls, timedOut, joinFrame>>

\* The fields are dropped: threads that were not joined go on without an owner.
Release ==
  /\ call = "release"
  /\ Return("gone")
  /\ handles' = {}
  /\ inputTx' = inputTx \ {"owner"}
  /\ outputRx' = outputRx \ {"owner"}
  /\ IF outputRx' = {} THEN Discard(K) ELSE UNCHANGED channels
  /\ UNCHANGED <<pstate, dropping, calls, timedOut, threads, control, metrics, late,
                 accepted, delivered>>

---------------------------------------------------------------------------
\* What the owner does next once it is inside a method.
OwnerStep ==
  \/ CommandStage \/ FlagStage \/ EndCommand \/ EndShutdown
  \/ JoinSkip \/ JoinTake \/ JoinTimeout \/ JoinThread \/ JoinPanicked \/ JoinOk \/ Release
Calls ==
  \/ \E m \in {"pause", "resume", "reset"} : StartCommand(m)
  \/ StartShutdown \/ StartJoin \/ StartDrop

WorkerStep(s) == Work(s) /\ UNCHANGED <<owner, ends>>

Next == Send \/ Recv \/ CloneSenderDropped \/ Calls \/ OwnerStep \/ \E s \in Stages : WorkerStep(s)

Spec == Init /\ [][Next]_vars

\* Threads run, a method that was called goes on, and whoever holds a clone of
\* the output receiver keeps receiving.
FairSpec == /\ Spec
            /\ \A s \in Stages : WF_vars(WorkerStep(s))
            /\ WF_vars(OwnerStep)
            /\ WF_vars(Recv)

---------------------------------------------------------------------------
(* Properties                                                              *)

\* The types of the variables; no channel ever holds more than its capacity.
TypeOK ==
  /\ WorkerTypeOK
  /\ inputTx \subseteq HoldersOf("input")
  /\ outputRx \subseteq HoldersOf("output")
  /\ pstate \in {"Running", "Stopping", "Stopped"}
  /\ call \in Methods \union {"none", "release", "gone"}
  /\ at \in 1 .. K+1
  /\ half \in BOOLEAN
  /\ dropping \in BOOLEAN
  /\ handles \subseteq Stages
  /\ calls \in [Methods -> Nat]
  /\ timedOut \in BOOLEAN
  /\ accepted \in 0..MaxItems
  /\ delivered \in Seq(Items)

Increasing(q) == \A j, k \in DOMAIN q : j < k => q[j] < q[k]
In(q) == {q[k] : k \in DOMAIN q}
Present(x) == {x} \ {None}
Older(A, B) == \A x \in A, y \in B : x < y
\* What is with stage s: the last stage's is nearest to the output.
Inside(s) == Present(held[s]) \union Present(hand[s])

\* Items leave the pipeline in the order in which they entered it, none twice,
\* whatever is dropped on the way: every item that is further along is older.
\* (TickTwice, a tick in the wrong order or a copy left behind would break it.)
OrderKept ==
  /\ Increasing(delivered)
  /\ \A i \in Channels : Increasing(chan[i]) /\ Older(In(delivered), In(chan[i]))
  /\ \A s \in Stages :
       /\ Older(Present(held[s]), Present(hand[s]))
       /\ Older(In(delivered), Inside(s))
       /\ \A t \in Stages : t < s => Older(Inside(s), Inside(t))
       /\ \A i \in Channels : IF i >= s THEN Older(In(chan[i]), Inside(s))
                                        ELSE Older(Inside(s), In(chan[i]))
  /\ \A i, j \in Channels : j < i => Older(In(chan[i]), In(chan[j]))

\* Items that a stage has moved and has yet to count.
Owed(s, pcs) == IF wpc[s] \in pcs THEN 1 ELSE 0
Took(s) == inputs[s] + Owed(s, {"countInput"})
PutOut(s) == outputs[s] + Owed(s, {"countOutput", "countFlush"})
GaveUp(s) == drops[s] + Owed(s, {"countDropped"})
SentInto(i) == IF i = 0 THEN accepted ELSE PutOut(i)
TakenFrom(i) == IF i = K THEN Len(delivered) ELSE Took(i+1)

\* As long as nobody resets them, the counters of neighbouring stages agree but
\* for the one item each thread may have moved and not yet counted
\* (executor.rs:271-273, 279-283, 294-298, 311-312): what one stage put out, the next
\* took in, except for what waits between them or was discarded with the channel;
\* and what a stage took in it put out, filtered, dropped, or has.  So metrics() may
\* show a stage to have taken more than the stage before it put out, but by one at
\* most; and what a stage shows as dropped, filtered and put out it took in.
FlowBalance ==
  calls["reset"] = 0 =>
    /\ \A i \in Channels : SentInto(i) = TakenFrom(i) + Len(chan[i]) + lost[i]
    /\ \A s \in Stages :
         Took(s) = PutOut(s) + GaveUp(s) + Cardinality(Inside(s))
                    + (IF s \in Holders THEN 0 ELSE filtered[s])
    /\ \A s \in Stages \ {K} : inputs[s+1] <= outputs[s] + 1
    /\ \A s \in Stages : outputs[s] + drops[s] <= inputs[s]

\* Items are lost with a channel only where someone gave up receiving from it:
\* its stage was shut down or panicked, or the pipeline was dropped.  A stage
\* that stops because the one before it is gone has drained its channel first.
LossHasACause ==
  \A i \in Channels : lost[i] > 0 =>
    IF i = K THEN outputRx = {} ELSE shutdown[i+1] \/ wpc[i+1] = "panicked"

\* From the moment its shutdown flag is set a stage takes at most one more item,
\* whatever pause, resume, reset or its own set_command(Run) do to the command.
ShutdownTakesOneMore == \A s \in Stages : late[s] <= 1

\* A stage that reports Stopped has flushed: it keeps nothing back, and takes and
\* sends nothing any more.  And as long as no join has failed, a pipeline that says
\* Stopped has no thread left that runs, and nothing in its channels but results.
ShutdownIsComplete ==
  /\ \A s \in Stages : state[s] = "Stopped" =>
       wpc[s] \in {"return", "exited"} /\ hand[s] = None /\ held[s] = None
  /\ (pstate = "Stopped" /\ ~timedOut) =>
       /\ \A s \in Stages : wpc[s] = "exited"
       /\ \A i \in Channels \ {K} : chan[i] = << >>

\* join(): "Waits for all stages to finish", and then says Stopped.
StoppedMeansFinished ==
  pstate = "Stopped" => \A s \in Stages : wpc[s] \in Ended

\* pause(): "Pauses all stages"; StageCommand::Pause: "Pause processing (stop
\* consuming input)".  Once it has returned all are paused, if nobody resumes.
PauseHolds ==
  (calls["pause"] > 0 /\ calls["resume"] = 0 /\ call # "pause") =>
    \A s \in Stages : paused[s]

\* shutdown() ends every thread, paused or not, in whatever order commands reach
\* it, as long as somebody receives the results; and join() and drop return to their
\* caller once shutdown() was called.
ShutdownEnds ==
  /\ (call = "shutdown") ~> (\A s \in Stages : wpc[s] \in Ended)
  /\ (call = "join" /\ calls["shutdown"] + calls["drop"] > 0) ~> (call \in {"none", "gone"})

\* A stage does not leave an item waiting for ever: it takes it, unless it is
\* paused or gone.  Resets and ticks do not keep it from its input.
HeadIsTaken ==
  \A s \in Stages : \A x \in Items :
    (chan[s-1] # << >> /\ Head(chan[s-1]) = x)
      ~> (chan[s-1] = << >> \/ Head(chan[s-1]) # x \/ paused[s])
=============================================================================
