---------------------- MODULE MultiStagePipelineProofs ----------------------
(***************************************************************************)
(* Proofs about MultiStagePipeline, for any number of stages of whatever   *)
(* kinds, any capacity and any calls of the owner: items keep their order, *)
(* the counters of neighbouring stages agree, nothing is lost without a    *)
(* cause, a shutdown takes one item more at most, and what says Stopped    *)
(* has finished.                                                           *)
(***************************************************************************)
EXTENDS MultiStagePipeline, StageWorkerProofs, FiniteSetTheorems

---------------------------------------------------------------------------
(* The invariant                                                           *)

\* Where the owner is inside its methods.
Turns == /\ call \in {"none", "release", "gone"} => at = 1 /\ ~half
         /\ half => at \in Stages

\* As long as no join has failed, the handles that are gone belong to threads that
\* have ended, but for the one that is being joined.
Joined ==
  ~timedOut =>
    /\ \A s \in Stages \ handles : wpc[s] = "exited" \/ (call = "join" /\ half /\ at = s)
    /\ call = "join" => \A s \in Stages : s < at => wpc[s] = "exited"
    /\ pstate = "Stopped" => \A s \in Stages : wpc[s] = "exited"
    /\ call = "release" => pstate = "Stopped"

StoppedIsLast == \A s \in Stages : state[s] = "Stopped" => wpc[s] \in {"return", "exited"}

\* The balances of FlowBalance, with what a channel took in and did not hand on as
\* one number, and the items at a stage counted one by one.
Rest(i) == Len(chan[i]) + lost[i]
Size(x) == IF x = None THEN 0 ELSE 1
ChannelBalance(i) == SentInto(i) = TakenFrom(i) + Rest(i)
StageBalance(s) == Took(s) = PutOut(s) + GaveUp(s) + Size(held[s]) + Size(hand[s])
                               + (IF s \in Holders THEN 0 ELSE filtered[s])
Balanced ==
  calls["reset"] = 0 =>
    /\ call # "reset" /\ \A s \in Stages : command[s] # "Reset"
    /\ \A i \in Channels : ChannelBalance(i)
    /\ \A s \in Stages : StageBalance(s)

\* The places an item passes, numbered along the pipeline: channel i is place 3i,
\* the hand of stage s 3s - 2, what it holds back 3s - 1, and the caller 3K + 1.
Places == 0 .. 3 * K + 1
Where(C, H, B, D) ==
  [n \in Places |-> {x \in Items : \/ \E i \in Channels : n = 3 * i /\ x \in C[i]
                                   \/ \E s \in Stages : n = 3 * s - 2 /\ x \in H[s]
                                   \/ \E s \in Stages : n = 3 * s - 1 /\ x \in B[s]
                                   \/ n = 3 * K + 1 /\ x \in D}]
Now == Where([i \in Channels |-> In(chan[i])], [s \in Stages |-> Present(hand[s])],
             [s \in Stages |-> Present(held[s])], In(delivered))

Ordered(P) == \A m, n \in Places : m < n => Older(P[n], P[m])
Sound(P, S) == Ordered(P) /\ \A n \in Places : P[n] \subseteq S
InOrder == /\ Sound(Now, 1..accepted)
           /\ Increasing(delivered)
           /\ \A i \in Channels : Increasing(chan[i])

IInv == TypeOK /\ WorkerInv /\ Turns /\ Joined /\ StoppedIsLast /\ Balanced /\ InOrder

---------------------------------------------------------------------------
(* The workers, under this owner                                           *)

LEMMA ControlTypes ==
  ASSUME TypeOK, Turns, CommandStage \/ FlagStage
  PROVE  WorkerTypeOK' /\ \A s \in Stages : shutdown[s] => shutdown'[s]
<1>0. at \in Stages /\ call \in {"pause", "resume", "reset", "shutdown"}
  BY DEF CommandStage, FlagStage, Commanding
<1>1. CommandOf(call) \in {"Run", "Pause", "Resume", "Reset", "Shutdown"}
  BY <1>0 DEF CommandOf
<1>2. CASE CommandStage
  <2>1. command' = [command EXCEPT ![at] = CommandOf(call)] /\ UNCHANGED <<shutdown, paused, state>>
    BY <1>2 DEF CommandStage, StoreCommand
  <2>2. UNCHANGED <<threads, metrics, channels, late>>
    BY <1>2 DEF CommandStage
  <2> QED
    BY <1>1, <2>1, <2>2 DEF TypeOK, WorkerTypeOK, threads, metrics, channels
<1>3. CASE FlagStage
  <2>1. /\ \A s \in Stages : shutdown[s] => shutdown'[s]
        /\ shutdown' \in [Stages -> BOOLEAN] /\ paused' \in [Stages -> BOOLEAN]
    BY <1>3 DEF FlagStage, StoreFlag, TypeOK, WorkerTypeOK
  <2>2. UNCHANGED <<threads, command, state, metrics, channels, late>>
    BY <1>3 DEF FlagStage
  <2> QED
    BY <2>1, <2>2 DEF TypeOK, WorkerTypeOK, threads, metrics, channels
<1> QED
  BY <1>2, <1>3

\* What the owner does inside its methods besides, and the calls themselves, leaves
\* the workers and the ends alone.
Quietly == StartShutdown \/ StartJoin \/ StartDrop \/ EndCommand \/ JoinSkip \/ JoinTake \/ JoinTimeout
           \/ JoinThread \/ JoinPanicked \/ JoinOk
           \/ \E m \in {"pause", "resume", "reset"} : StartCommand(m)

LEMMA QuietOnes ==
  ASSUME Quietly
  PROVE  UNCHANGED <<threads, control, metrics, channels, late, inputTx, outputRx, accepted, delivered>>
BY DEF Quietly, StartShutdown, StartJoin, StartDrop, EndCommand, JoinSkip, JoinTake, JoinTimeout,
       JoinThread, JoinPanicked, JoinOk, StartCommand, joinFrame, ends

LEMMA WorkersKeep ==
  ASSUME IInv, Next
  PROVE  WorkerInv'
<1> USE DEF IInv
<1>1. CASE Send
  <2>1. accepted + 1 \in Items /\ inputTx # {}
    BY <1>1, ItemsAssumption DEF Send, MayUse, TypeOK, Items
  <2>2. Room(0) /\ Add(0, accepted + 1) /\ UNCHANGED <<threads, control, metrics, lost, inputTx, outputRx, late>>
    BY <1>1 DEF Send
  <2> QED
    BY <2>1, <2>2, SendKeeps
<1>2. CASE Recv
  BY <1>2, ReceiveKeeps DEF Recv
<1>3. CASE CloneSenderDropped
  BY <1>3, EndsKeep DEF CloneSenderDropped
<1>4. CASE Quietly
  BY <1>4, QuietOnes, EndsKeep
<1>5. CASE CommandStage \/ FlagStage
  <2>1. UNCHANGED <<threads, channels, inputTx, outputRx, late>>
    BY <1>5 DEF CommandStage, FlagStage, ends
  <2> QED
    BY <1>5, <2>1, ControlTypes, CommandKeeps
<1>6. CASE EndShutdown
  BY <1>6, EndsKeep DEF EndShutdown
<1>7. CASE Release
  <2>1. /\ UNCHANGED <<threads, control, metrics, late>>
        /\ inputTx' = inputTx \ {"owner"} /\ outputRx' = outputRx \ {"owner"}
        /\ \/ outputRx' = {} /\ Discard(K)
           \/ outputRx' # {} /\ UNCHANGED channels
    BY <1>7 DEF Release
  <2> QED
    BY <2>1, EndsKeep
<1>8. CASE \E s \in Stages : WorkerStep(s)
  BY <1>8, WorkKeeps DEF WorkerStep, ends
<1> QED
  BY <1>1, <1>2, <1>3, <1>4, <1>5, <1>6, <1>7, <1>8 DEF Next, Calls, OwnerStep, Quietly

---------------------------------------------------------------------------
(* The owner                                                               *)

LEMMA CallsType ==
  ASSUME TypeOK, NEW m \in Methods, Called(m)
  PROVE  calls' \in [Methods -> Nat]
BY DEF Called, TypeOK

LEMMA OwnerTypesKeep ==
  ASSUME IInv, Next
  PROVE  TypeOK' /\ Turns'
<1> DEFINE DataTypes == /\ pstate \in {"Running", "Stopping", "Stopped"}
                        /\ call \in Methods \union {"none", "release", "gone"}
                        /\ at \in 1 .. K+1
                        /\ handles \subseteq Stages
                        /\ calls \in [Methods -> Nat]
           FlagTypes == half \in BOOLEAN /\ dropping \in BOOLEAN /\ timedOut \in BOOLEAN
           EndTypes == /\ inputTx \subseteq HoldersOf("input")
                       /\ outputRx \subseteq HoldersOf("output")
                       /\ accepted \in 0..MaxItems /\ delivered \in Seq(Items)
<1>0. DataTypes /\ FlagTypes /\ EndTypes /\ Turns /\ K \in Nat \ {0}
  BY KAssumption DEF IInv, TypeOK
<1>1. SUFFICES DataTypes' /\ FlagTypes' /\ Turns' /\ EndTypes'
  BY WorkersKeep DEF TypeOK, WorkerInv
<1>a. ASSUME UNCHANGED owner PROVE DataTypes' /\ FlagTypes' /\ Turns'
  BY <1>0, <1>a DEF owner, Turns
<1>b. ASSUME UNCHANGED ends PROVE EndTypes'
  BY <1>0, <1>b DEF ends
\* Where the next step leaves the owner at the beginning of a method, or of none.
<1>c. ASSUME call' \in Methods \union {"none", "release", "gone"}, at' = 1, half' = FALSE,
             pstate' \in {pstate, "Stopping", "Stopped"}, handles' \subseteq handles,
             calls' \in [Methods -> Nat], dropping' \in BOOLEAN, timedOut' \in BOOLEAN
      PROVE  DataTypes' /\ FlagTypes' /\ Turns'
  <2>1. DataTypes'
    BY <1>0, <1>c
  <2>2. FlagTypes' /\ Turns'
    BY <1>c DEF Turns
  <2> QED
    BY <2>1, <2>2
\* Where it goes on with its loop.
<1>d. ASSUME at \in Stages, call \notin {"none", "release", "gone"}, call' = call,
             \/ at' = at /\ half' = TRUE
             \/ at' = at + 1 /\ half' = FALSE,
             handles' \subseteq handles, UNCHANGED <<pstate, dropping, calls, timedOut>>
      PROVE  DataTypes' /\ FlagTypes' /\ Turns'
  <2>1. DataTypes'
    BY <1>0, <1>d DEF Stages
  <2>2. FlagTypes'
    BY <1>0, <1>d
  <2>3. Turns'
    BY <1>d DEF Turns
  <2> QED
    BY <2>1, <2>2, <2>3
<1>2. CASE Send
  <2>1. accepted' \in 0..MaxItems
    BY <1>0, <1>2, ItemsAssumption DEF Send
  <2> QED
    BY <1>0, <1>2, <1>a, <2>1 DEF Send
<1>3. CASE Recv
  <2>1. Head(chan[K]) \in Items
    <3>1. chan[K] \in Seq(Items) /\ chan[K] # << >>
      BY <1>3, KAssumption DEF Recv, IInv, TypeOK, WorkerTypeOK, Channels
    <3> QED
      BY <3>1
  <2>2. delivered' \in Seq(Items)
    BY <1>0, <1>3, <2>1 DEF Recv
  <2> QED
    BY <1>0, <1>3, <1>a, <2>2 DEF Recv
<1>4. CASE CloneSenderDropped
  BY <1>0, <1>4, <1>a DEF CloneSenderDropped
<1>5. CASE Quietly
  <2>0. EndTypes'
    BY <1>5, <1>b, QuietOnes DEF ends
  <2>1. CASE (\E m \in {"pause", "resume", "reset"} : StartCommand(m)) \/ StartShutdown \/ StartJoin \/ StartDrop
    <3>1. calls' \in [Methods -> Nat]
      BY <2>1, CallsType DEF IInv, StartCommand, StartShutdown, StartJoin, StartDrop, Methods
    <3>2. /\ call = "none" /\ call' \in Methods \union {"release"} /\ UNCHANGED <<at, half, handles, timedOut>>
          /\ pstate' \in {pstate, "Stopping"} /\ dropping' \in {dropping, TRUE}
      BY <2>1 DEF StartCommand, StartShutdown, StartJoin, StartDrop, joinFrame, Methods
    <3>3. at' = 1 /\ half' = FALSE
      BY <1>0, <3>2 DEF Turns
    <3>4. dropping' \in BOOLEAN /\ timedOut' \in BOOLEAN
      BY <1>0, <3>2
    <3> QED
      BY <1>c, <2>0, <3>1, <3>2, <3>3, <3>4
  <2>2. CASE EndCommand \/ JoinOk \/ JoinTimeout \/ JoinPanicked
    <3>1. /\ call' \in {"none", "release"} /\ at' = 1 /\ half' = FALSE
          /\ pstate' \in {pstate, "Stopped"} /\ handles' \subseteq handles
          /\ UNCHANGED <<dropping, calls>>
      BY <2>2 DEF EndCommand, JoinOk, JoinTimeout, JoinPanicked, AfterJoin, Return, joinFrame
    <3>2. timedOut' \in BOOLEAN
      BY <1>0, <2>2 DEF EndCommand, JoinOk, JoinTimeout, JoinPanicked
    <3> QED
      BY <1>0, <1>c, <2>0, <3>1, <3>2
  <2>3. CASE JoinSkip \/ JoinTake \/ JoinThread
    <3>1. /\ call = "join" /\ call' = call /\ at \in Stages
          /\ (at' = at /\ half' = TRUE) \/ (at' = at + 1 /\ half' = FALSE)
          /\ handles' \subseteq handles
          /\ UNCHANGED <<pstate, dropping, calls, timedOut>>
      BY <1>0, <2>3 DEF JoinSkip, JoinTake, JoinThread, joinFrame, Turns
    <3> QED
      BY <1>d, <2>0, <3>1
  <2> QED
    BY <1>5, <2>1, <2>2, <2>3 DEF Quietly
<1>6. CASE CommandStage \/ FlagStage
  <2>1. /\ call \notin {"none", "release", "gone"} /\ call' = call /\ at \in Stages
        /\ (at' = at /\ half' = TRUE) \/ (at' = at + 1 /\ half' = FALSE)
        /\ UNCHANGED <<pstate, dropping, handles, calls, timedOut, ends>>
    BY <1>0, <1>6 DEF CommandStage, FlagStage, Commanding
  <2> QED
    BY <1>b, <1>d, <2>1
<1>7. CASE EndShutdown \/ Release
  <2>1. /\ call' \in Methods \union {"none", "release", "gone"} /\ at' = 1 /\ half' = FALSE
        /\ handles' \subseteq handles /\ UNCHANGED <<pstate, dropping, calls, timedOut>>
    BY <1>7 DEF EndShutdown, Release, Return, Methods
  <2>2. EndTypes'
    BY <1>0, <1>7 DEF EndShutdown, Release
  <2> QED
    BY <1>0, <1>c, <2>1, <2>2
<1>8. CASE \E s \in Stages : WorkerStep(s)
  BY <1>8, <1>a, <1>b DEF WorkerStep
<1> QED
  BY <1>2, <1>3, <1>4, <1>5, <1>6, <1>7, <1>8 DEF Next, Calls, OwnerStep, Quietly

\* A thread that has ended stays so.
LEMMA EndedStays ==
  ASSUME IInv, Next, NEW s \in Stages, wpc[s] \in Ended
  PROVE  wpc'[s] = wpc[s]
<1>1. CASE \E r \in Stages : WorkerStep(r)
  <2>1. PICK r \in Stages : Work(r)
    BY <1>1 DEF WorkerStep
  <2> QED
    BY <2>1, WorkIsLocal DEF IInv
<1>2. CASE Quietly
  BY <1>2, QuietOnes DEF threads
<1> QED
  BY <1>1, <1>2 DEF Next, Calls, OwnerStep, Quietly, Send, Recv, CloneSenderDropped, CommandStage, FlagStage,
                    EndShutdown, Release, threads

LEMMA JoinedKeeps ==
  ASSUME IInv, Next
  PROVE  Joined'
<1> USE DEF IInv
<1>0. \A s \in Stages : wpc[s] = "exited" => wpc'[s] = "exited"
  BY EndedStays DEF Ended
<1>1. CASE UNCHANGED owner
  BY <1>0, <1>1 DEF Joined, owner
<1>2. CASE Send \/ Recv \/ CloneSenderDropped \/ \E s \in Stages : WorkerStep(s)
  BY <1>1, <1>2 DEF Send, Recv, CloneSenderDropped, WorkerStep
<1>3. K \in Nat /\ at \in 1..K+1 /\ handles \subseteq 1..K /\ timedOut \in BOOLEAN
  BY KAssumption DEF TypeOK, Stages
<1>4. CASE (\E m \in {"pause", "resume", "reset"} : StartCommand(m)) \/ StartShutdown \/ StartJoin \/ StartDrop
  BY <1>0, <1>3, <1>4 DEF StartCommand, StartShutdown, StartJoin, StartDrop, joinFrame, Joined, Turns, Stages
<1>5. CASE CommandStage \/ FlagStage
  BY <1>0, <1>3, <1>5 DEF CommandStage, FlagStage, Commanding, Joined
<1>6. CASE EndCommand \/ EndShutdown
  BY <1>0, <1>3, <1>6 DEF EndCommand, EndShutdown, Return, Joined, Stages
<1>7. CASE JoinSkip
  BY <1>0, <1>3, <1>7 DEF JoinSkip, Joined, Stages
<1>8. CASE JoinTake
  BY <1>0, <1>3, <1>8 DEF JoinTake, Joined, Stages
<1>9. CASE JoinTimeout \/ JoinPanicked
  BY <1>9 DEF JoinTimeout, JoinPanicked, Joined
<1>10. CASE JoinThread
  BY <1>0, <1>3, <1>10 DEF JoinThread, Joined, Turns, Stages
<1>11. CASE JoinOk
  BY <1>0, <1>3, <1>11 DEF JoinOk, AfterJoin, Return, Joined, Turns, Stages
<1>12. CASE Release
  BY <1>0, <1>3, <1>12 DEF Release, Return, Joined
<1> QED
  BY <1>2, <1>4, <1>5, <1>6, <1>7, <1>8, <1>9, <1>10, <1>11, <1>12 DEF Next, Calls, OwnerStep

LEMMA StoppedKeeps ==
  ASSUME IInv, Next
  PROVE  StoppedIsLast'
<1> USE DEF IInv
<1>1. CASE UNCHANGED <<wpc, state>>
  BY <1>1 DEF StoppedIsLast
<1>2. CASE Quietly
  BY <1>1, <1>2, QuietOnes DEF threads, control
<1>3. CASE Send \/ Recv \/ CloneSenderDropped \/ CommandStage \/ FlagStage \/ EndShutdown \/ Release
  BY <1>1, <1>3 DEF Send, Recv, CloneSenderDropped, CommandStage, FlagStage, EndShutdown, Release, threads, control
<1>4. ASSUME NEW s \in Stages, Work(s) PROVE StoppedIsLast'
  <2>0. WorkerTypeOK /\ \A t \in Stages \ {s} : wpc'[t] = wpc[t]
    BY <1>4, WorkIsLocal DEF TypeOK
  <2> USE <2>0, StepIs DEF StoppedIsLast
  <2>1. CASE WorkerStart(s) \/ StopStage(s) \/ StoreStopped(s)
    <3>1. /\ \A t \in Stages \ {s} : state'[t] = state[t]
          /\ state'[s] = "Stopped" => wpc'[s] = "return"
      BY <2>1 DEF WorkerStart, StopStage, StoreStopped, WorkerTypeOK
    <3> QED
      BY <3>1
  <2>2. CASE CheckShutdown(s) \/ CheckPause(s) \/ NoReset(s) \/ ResetStage(s) \/ ResetStoreRun(s) \/ ResetUnpause(s)
    BY <2>2 DEF CheckShutdown, CheckPause, NoReset, ResetStage, ResetStoreRun, ResetUnpause, control
  <2>3. CASE TakeItem(s) \/ TakeNothing(s) \/ TakeClosed(s) \/ Process(s) \/ Panic(s) \/ Tick(s)
    BY <2>3, ProcessStep, TickStep DEF TakeItem, TakeNothing, TakeClosed, Process, Panic, Tick, control
  <2>3a. CASE CountInput(s) \/ CountOutput(s) \/ CountDropped(s)
    BY <2>3a, CountingStep DEF control
  <2>4. CASE Flush(s) \/ Exit(s)
    BY <2>4 DEF Flush, Exit, control
  <2> QED
    BY <1>4, <2>1, <2>2, <2>3, <2>3a, <2>4 DEF Work
<1> QED
  BY <1>2, <1>3, <1>4 DEF Next, Calls, OwnerStep, Quietly, WorkerStep

---------------------------------------------------------------------------
(* The counters                                                            *)

LEMMA ItemsAreSomething == \A x \in Items : x # None
BY ItemsAssumption DEF Items

LEMMA CountTypes ==
  ASSUME WorkerTypeOK, NEW s \in Stages
  PROVE  /\ Took(s) \in Nat /\ PutOut(s) \in Nat /\ filtered[s] \in Nat /\ GaveUp(s) \in Nat
         /\ inputs[s] \in Nat /\ outputs[s] \in Nat /\ drops[s] \in Nat
         /\ s \in Channels /\ s - 1 \in Channels /\ s # s - 1
         /\ \A i \in Channels : /\ chan[i] \in Seq(Items) /\ Len(chan[i]) \in Nat /\ lost[i] \in Nat
                                /\ Rest(i) \in Nat
<1>1. s \in Channels /\ s - 1 \in Channels /\ s # s - 1
  BY KAssumption DEF Stages, Channels
<1>2. \A i \in Channels : chan[i] \in Seq(Items) /\ lost[i] \in Nat
  BY DEF WorkerTypeOK
<1>3. \A i \in Channels : Len(chan[i]) \in Nat
  BY <1>2
<1>4. \A i \in Channels : Rest(i) \in Nat
  BY <1>2, <1>3 DEF Rest
<1>5. inputs[s] \in Nat /\ outputs[s] \in Nat /\ filtered[s] \in Nat /\ drops[s] \in Nat
  BY DEF WorkerTypeOK
<1>6. Took(s) \in Nat /\ PutOut(s) \in Nat /\ GaveUp(s) \in Nat
  BY <1>5 DEF Took, PutOut, GaveUp, Owed
<1> QED
  BY <1>1, <1>2, <1>3, <1>4, <1>5, <1>6

\* Where a stage has moved an item that it has yet to count.
CountPcs == {"countInput", "countOutput", "countFlush", "countDropped"}

\* What a stage owes its counters, before and after a step.
LEMMA Owes ==
  ASSUME WorkerTypeOK, NEW s \in Stages
  PROVE  /\ wpc[s] = "countInput" => Took(s) = inputs[s] + 1 /\ PutOut(s) = outputs[s] /\ GaveUp(s) = drops[s]
         /\ wpc[s] \in {"countOutput", "countFlush"} =>
              Took(s) = inputs[s] /\ PutOut(s) = outputs[s] + 1 /\ GaveUp(s) = drops[s]
         /\ wpc[s] = "countDropped" => Took(s) = inputs[s] /\ PutOut(s) = outputs[s] /\ GaveUp(s) = drops[s] + 1
         /\ wpc[s] \notin CountPcs => Took(s) = inputs[s] /\ PutOut(s) = outputs[s] /\ GaveUp(s) = drops[s]
BY CountTypes DEF Took, PutOut, GaveUp, Owed, CountPcs

LEMMA OwesNext ==
  ASSUME WorkerTypeOK', NEW s \in Stages
  PROVE  /\ wpc'[s] = "countInput" =>
              Took(s)' = inputs'[s] + 1 /\ PutOut(s)' = outputs'[s] /\ GaveUp(s)' = drops'[s]
         /\ wpc'[s] \in {"countOutput", "countFlush"} =>
              Took(s)' = inputs'[s] /\ PutOut(s)' = outputs'[s] + 1 /\ GaveUp(s)' = drops'[s]
         /\ wpc'[s] = "countDropped" =>
              Took(s)' = inputs'[s] /\ PutOut(s)' = outputs'[s] /\ GaveUp(s)' = drops'[s] + 1
         /\ wpc'[s] \notin CountPcs =>
              Took(s)' = inputs'[s] /\ PutOut(s)' = outputs'[s] /\ GaveUp(s)' = drops'[s]
<1>1. inputs'[s] \in Nat /\ outputs'[s] \in Nat /\ drops'[s] \in Nat
  BY DEF WorkerTypeOK
<1> QED
  BY <1>1 DEF Took, PutOut, GaveUp, Owed, CountPcs

LEMMA OwesTheSame ==
  ASSUME NEW s \in Stages, wpc'[s] = wpc[s], inputs'[s] = inputs[s], outputs'[s] = outputs[s], drops'[s] = drops[s]
  PROVE  Took(s)' = Took(s) /\ PutOut(s)' = PutOut(s) /\ GaveUp(s)' = GaveUp(s)
BY DEF Took, PutOut, GaveUp, Owed

\* A worker counts for its own stage alone.
LEMMA WorkCountsItsOwn ==
  ASSUME WorkerTypeOK, NEW s \in Stages, Work(s), NEW t \in Stages \ {s}
  PROVE  inputs'[t] = inputs[t] /\ outputs'[t] = outputs[t] /\ filtered'[t] = filtered[t] /\ drops'[t] = drops[t]
<1>1. CASE UNCHANGED metrics
  BY <1>1 DEF metrics
<1>2. CASE WorkerStart(s) \/ CheckShutdown(s) \/ CheckPause(s) \/ NoReset(s) \/ ResetStoreRun(s) \/ ResetUnpause(s)
  BY <1>1, <1>2 DEF WorkerStart, CheckShutdown, CheckPause, NoReset, ResetStoreRun, ResetUnpause
<1>3. CASE TakeItem(s) \/ TakeNothing(s) \/ TakeClosed(s) \/ StopStage(s) \/ StoreStopped(s)
  BY <1>1, <1>3 DEF TakeItem, TakeNothing, TakeClosed, StopStage, StoreStopped
<1>4. CASE Panic(s) \/ Tick(s) \/ Flush(s) \/ Exit(s)
  BY <1>1, <1>4 DEF Panic, Tick, Flush, Exit
<1>5. CASE ResetStage(s)
  BY <1>5 DEF ResetStage, WorkerTypeOK
<1>6. CASE CountInput(s) \/ CountOutput(s) \/ CountDropped(s)
  <2>1. ASSUME NEW f \in [Stages -> Nat] PROVE Count(f, s)[t] = f[t]
    BY DEF Count
  <2>2. /\ inputs' = inputs \/ inputs' = Count(inputs, s)
        /\ outputs' = outputs \/ outputs' = Count(outputs, s)
        /\ drops' = drops \/ drops' = Count(drops, s)
        /\ filtered' = filtered
    BY <1>6 DEF CountInput, CountOutput, CountDropped
  <2> QED
    BY <2>1, <2>2 DEF WorkerTypeOK
<1>7. CASE Process(s)
  <2>1. UNCHANGED <<inputs, outputs, drops>> /\ (filtered' = filtered \/ filtered' = Count(filtered, s))
    BY <1>7 DEF Process, Filtered
  <2> QED
    BY <2>1 DEF Count, WorkerTypeOK
<1> QED
  BY <1>2, <1>3, <1>4, <1>5, <1>6, <1>7 DEF Work

\* What is sent is in the channel and owed as an output; what is not, as a drop.
LEMMA SendOrDropCounts ==
  ASSUME WorkerTypeOK, WorkerTypeOK', NEW s \in Stages, NEW from, from \notin CountPcs,
         NEW x \in Items, SendOrDrop(s, from, x), UNCHANGED <<inputs, outputs, drops>>
  PROVE  /\ Took(s)' = Took(s)
         /\ PutOut(s)' + GaveUp(s)' = PutOut(s) + GaveUp(s) + 1
         /\ PutOut(s)' + Rest(s) = PutOut(s) + Rest(s)' /\ Rest(s-1)' = Rest(s-1)
<1>0. /\ outputs[s] \in Nat /\ drops[s] \in Nat /\ s \in Channels /\ s - 1 \in Channels /\ s # s - 1
      /\ chan[s] \in Seq(Items) /\ Len(chan[s]) \in Nat /\ lost[s] \in Nat /\ Rest(s) \in Nat
  BY CountTypes
<1>1. Took(s) = inputs[s] /\ PutOut(s) = outputs[s] /\ GaveUp(s) = drops[s]
  BY Owes, SendOrDropStep
<1>2. CASE Room(s) /\ Step(s, from, "countOutput") /\ Add(s, x) /\ UNCHANGED lost
  <2>1. chan'[s] = Append(chan[s], x) /\ chan'[s-1] = chan[s-1]
    BY <1>0, <1>2 DEF Add, WorkerTypeOK
  <2>2. Len(chan'[s]) = Len(chan[s]) + 1
    BY <1>0, <2>1
  <2>3. Took(s)' = inputs[s] /\ PutOut(s)' = outputs[s] + 1 /\ GaveUp(s)' = drops[s]
    BY <1>2, OwesNext, StepIs
  <2>4. lost' = lost
    BY <1>2
  <2>5. Rest(s)' = Rest(s) + 1 /\ Rest(s-1)' = Rest(s-1)
    BY <1>0, <2>1, <2>2, <2>4 DEF Rest
  <2> QED
    BY <1>0, <1>1, <2>3, <2>5
<1>3. CASE ~Room(s) /\ Step(s, from, "countDropped") /\ UNCHANGED channels
  <2>1. Took(s)' = inputs[s] /\ PutOut(s)' = outputs[s] /\ GaveUp(s)' = drops[s] + 1
    BY <1>3, OwesNext, StepIs
  <2>2. Rest(s)' = Rest(s) /\ Rest(s-1)' = Rest(s-1)
    BY <1>3 DEF Rest, channels
  <2> QED
    BY <1>0, <1>1, <2>1, <2>2
<1> QED
  BY <1>2, <1>3 DEF SendOrDrop

\* Without a reset a step of stage s counts, or comes to owe, what it does.
CountsAfter(s) ==
  /\ \A t \in Stages \ {s} : /\ Took(t)' = Took(t) /\ PutOut(t)' = PutOut(t)
                              /\ filtered'[t] = filtered[t] /\ GaveUp(t)' = GaveUp(t)
  /\ PutOut(s)' + Rest(s) = PutOut(s) + Rest(s)'
  /\ Took(s)' + Rest(s-1)' = Took(s) + Rest(s-1)
  /\ StageBalance(s) => StageBalance(s)'

LEMMA WorkCounts ==
  ASSUME WorkerInv, NEW s \in Stages, Work(s), command[s] # "Reset"
  PROVE  CountsAfter(s)
<1> USE DEF WorkerInv
<1>t. WorkerTypeOK /\ WorkerTypeOK'
  BY WorkTypes
<1>0. /\ s \in Channels /\ s - 1 \in Channels /\ s # s - 1
      /\ \A i \in Channels : chan[i] \in Seq(Items) /\ Len(chan[i]) \in Nat /\ lost[i] \in Nat
  BY CountTypes
<1>k. /\ Took(s) \in Nat /\ PutOut(s) \in Nat /\ filtered[s] \in Nat /\ GaveUp(s) \in Nat
      /\ inputs[s] \in Nat /\ outputs[s] \in Nat /\ drops[s] \in Nat
      /\ Len(chan[s]) \in Nat /\ Len(chan[s-1]) \in Nat /\ lost[s] \in Nat /\ lost[s-1] \in Nat
      /\ Rest(s) \in Nat /\ Rest(s-1) \in Nat
  BY CountTypes
<1>n. \A x \in Items : Size(x) = 1
  BY ItemsAreSomething DEF Size
<1>e. Size(None) = 0 /\ Size(hand[s]) \in Nat /\ Size(held[s]) \in Nat
  BY DEF Size
<1>o. \A t \in Stages \ {s} : /\ Took(t)' = Took(t) /\ PutOut(t)' = PutOut(t)
                              /\ filtered'[t] = filtered[t] /\ GaveUp(t)' = GaveUp(t)
  BY WorkCountsItsOwn, WorkIsLocal, OwesTheSame
\* It is enough to say what becomes of the balances of this stage.
<1>b. ASSUME PutOut(s)' + Rest(s) = PutOut(s) + Rest(s)', Took(s)' + Rest(s-1)' = Took(s) + Rest(s-1),
             StageBalance(s) => StageBalance(s)'
      PROVE  CountsAfter(s)
  BY <1>o, <1>b DEF CountsAfter
<1>1. ASSUME UNCHANGED <<metrics, channels>>, hand'[s] = hand[s], held'[s] = held[s],
             wpc[s] \notin CountPcs, wpc'[s] \notin CountPcs
      PROVE  CountsAfter(s)
  <2>1. Took(s)' = Took(s) /\ PutOut(s)' = PutOut(s) /\ GaveUp(s)' = GaveUp(s)
    BY <1>t, <1>1, Owes, OwesNext DEF metrics
  <2> QED
    BY <1>1, <1>b, <2>1 DEF Rest, StageBalance, metrics, channels
<1>2. CASE WorkerStart(s) \/ CheckShutdown(s) \/ CheckPause(s) \/ NoReset(s) \/ ResetStoreRun(s) \/ ResetUnpause(s)
  BY <1>1, <1>2, StepIs DEF WorkerStart, CheckShutdown, CheckPause, NoReset, ResetStoreRun, ResetUnpause, CountPcs
<1>3. CASE TakeNothing(s) \/ TakeClosed(s) \/ StopStage(s) \/ StoreStopped(s)
  BY <1>1, <1>3, StepIs DEF TakeNothing, TakeClosed, StopStage, StoreStopped, CountPcs
<1>3a. CASE CountInput(s) \/ CountOutput(s) \/ CountDropped(s)
  <2>1. UNCHANGED <<hand, held, channels, filtered>>
    BY <1>3a, CountingStep
  <2>2. Took(s)' = Took(s) /\ PutOut(s)' = PutOut(s) /\ GaveUp(s)' = GaveUp(s)
    <3>1. CASE CountInput(s)
      <4>1. wpc[s] = "countInput" /\ wpc'[s] = "process"
        BY <1>t, <3>1, StepIs DEF CountInput
      <4>2. inputs'[s] = inputs[s] + 1 /\ outputs'[s] = outputs[s] /\ drops'[s] = drops[s]
        BY <1>t, <3>1 DEF CountInput, Count, WorkerTypeOK
      <4> QED
        BY <1>t, <4>1, <4>2, Owes, OwesNext DEF CountPcs
    <3>2. CASE CountOutput(s)
      <4>1. wpc[s] \in {"countOutput", "countFlush"} /\ wpc'[s] \in {"loop", "stopped"}
        BY <1>t, <3>2, StepIs DEF CountOutput
      <4>2. inputs'[s] = inputs[s] /\ outputs'[s] = outputs[s] + 1 /\ drops'[s] = drops[s]
        BY <1>t, <3>2 DEF CountOutput, Count, WorkerTypeOK
      <4> QED
        BY <1>t, <4>1, <4>2, Owes, OwesNext DEF CountPcs
    <3>3. CASE CountDropped(s)
      <4>1. wpc[s] = "countDropped" /\ wpc'[s] = "loop"
        BY <1>t, <3>3, StepIs DEF CountDropped
      <4>2. inputs'[s] = inputs[s] /\ outputs'[s] = outputs[s] /\ drops'[s] = drops[s] + 1
        BY <1>t, <3>3 DEF CountDropped, Count, WorkerTypeOK
      <4> QED
        BY <1>t, <4>1, <4>2, Owes, OwesNext DEF CountPcs
    <3> QED
      BY <1>3a, <3>1, <3>2, <3>3
  <2> QED
    BY <1>b, <2>1, <2>2 DEF Rest, StageBalance, channels
<1>4. CASE TakeItem(s)
  <2>1. chan[s-1] # << >> /\ chan'[s-1] = Tail(chan[s-1]) /\ chan'[s] = chan[s] /\ UNCHANGED lost
    BY <1>0, <1>4 DEF TakeItem, WorkerTypeOK
  <2>2. Len(chan'[s-1]) = Len(chan[s-1]) - 1 /\ Head(chan[s-1]) \in Items
    BY <1>0, <2>1
  <2>3. UNCHANGED <<metrics, held>> /\ hand'[s] = Head(chan[s-1]) /\ wpc[s] = "recv" /\ wpc'[s] = "countInput"
    BY <1>t, <1>4, StepIs DEF TakeItem, WorkerTypeOK
  <2>4. hand[s] = None
    BY <2>3 DEF InHands
  <2>5. Size(hand'[s]) = 1 /\ Size(hand[s]) = 0
    BY <1>n, <1>e, <2>2, <2>3, <2>4
  <2>6. Took(s)' = Took(s) + 1 /\ PutOut(s)' = PutOut(s) /\ GaveUp(s)' = GaveUp(s)
    BY <1>t, <2>3, Owes, OwesNext DEF CountPcs, metrics
  <2>7. StageBalance(s) => StageBalance(s)'
    <3>1. filtered'[s] = filtered[s] /\ Size(held'[s]) = Size(held[s]) /\ Size(held[s]) \in Nat
      BY <1>e, <2>3 DEF metrics
    <3>2. Took(s) \in Nat /\ PutOut(s) \in Nat /\ GaveUp(s) \in Nat /\ filtered[s] \in Nat
      BY <1>k
    <3> QED
      BY <2>5, <2>6, <3>1, <3>2 DEF StageBalance
  <2> QED
    <3>1. Rest(s)' = Rest(s) /\ Rest(s-1) = Len(chan[s-1]) + lost[s-1]
      BY <2>1 DEF Rest
    <3>2. Rest(s-1)' = Len(chan[s-1]) - 1 + lost[s-1]
      BY <2>1, <2>2 DEF Rest
    <3>3. Rest(s-1)' = Rest(s-1) - 1
      BY <1>k, <3>1, <3>2
    <3>4. Took(s)' + Rest(s-1)' = Took(s) + Rest(s-1)
      BY <1>k, <2>6, <3>3
    <3>5. PutOut(s)' + Rest(s) = PutOut(s) + Rest(s)'
      BY <2>6, <3>1
    <3> QED
      BY <1>b, <2>7, <3>4, <3>5
<1>5. CASE Process(s)
  <2>0. wpc[s] = "process" /\ wpc[s] \notin CountPcs /\ UNCHANGED <<inputs, outputs, drops>>
    BY <1>t, <1>5, ProcessStep DEF Process, CountPcs
  <2>1. hand[s] \in Items /\ (held[s] = None \/ held[s] \in Items)
    BY <2>0 DEF InHands, WorkerTypeOK
  <2>2. Size(hand[s]) = 1 /\ hand'[s] = None /\ Size(hand'[s]) = 0
    BY <1>5, <1>n, <1>e, <2>1 DEF Process, WorkerTypeOK
  <2>3. CASE Filtered(s)
    <3>1. filtered'[s] = filtered[s] + 1 /\ UNCHANGED channels
      BY <2>3 DEF Filtered, Count, WorkerTypeOK
    <3>2. Took(s)' = Took(s) /\ PutOut(s)' = PutOut(s) /\ GaveUp(s)' = GaveUp(s)
      <4>1. wpc'[s] \notin CountPcs
        BY <1>t, <2>3, StepIs DEF Filtered, CountPcs
      <4> QED
        BY <1>t, <2>0, <4>1, Owes, OwesNext
    <3>3. StageBalance(s) => StageBalance(s)'
      <4>1. CASE s \in Holders
        <5>1. held' = [held EXCEPT ![s] = hand[s]]
          BY <1>5, <4>1 DEF Process
        <5>2. held[s] = None \/ UNCHANGED filtered
          BY <1>5, <4>1 DEF Process
        <5>3. held'[s] = hand[s] /\ held[s] = None
          BY <1>k, <3>1, <5>1, <5>2 DEF WorkerTypeOK
        <5> QED
          BY <1>k, <1>e, <2>2, <3>1, <3>2, <4>1, <5>3 DEF StageBalance
      <4>2. CASE s \notin Holders
        <5>1. held'[s] = held[s]
          BY <1>5, <4>2 DEF Process
        <5>2. SUFFICES ASSUME Took(s) = PutOut(s) + GaveUp(s) + Size(held[s]) + Size(hand[s]) + filtered[s]
              PROVE  Took(s)' = PutOut(s)' + GaveUp(s)' + Size(held'[s]) + Size(hand'[s]) + filtered'[s]
          BY <4>2 DEF StageBalance
        <5> QED
          BY <1>k, <1>e, <2>2, <3>1, <3>2, <5>1, <5>2
      <4> QED
        BY <4>1, <4>2
    <3> QED
      BY <1>b, <3>1, <3>2, <3>3 DEF Rest, channels
  <2>4. CASE ~Filtered(s)
    <3>1. \E x \in Items : SendOrDrop(s, "process", x) /\ UNCHANGED filtered
      BY <1>5, <2>1, <2>4 DEF Process
    <3>2. /\ Took(s)' = Took(s) /\ PutOut(s)' + GaveUp(s)' = PutOut(s) + GaveUp(s) + 1
          /\ PutOut(s)' + Rest(s) = PutOut(s) + Rest(s)' /\ Rest(s-1)' = Rest(s-1)
          /\ filtered'[s] = filtered[s]
      BY <1>t, <2>0, <3>1, SendOrDropCounts
    <3>3. Size(held'[s]) = Size(held[s])
      <4>1. CASE s \in Holders
        <5>1. held'[s] = hand[s] /\ held[s] # None
          BY <1>5, <2>4, <4>1 DEF Process, WorkerTypeOK
        <5> QED
          BY <1>n, <2>1, <5>1
      <4>2. CASE s \notin Holders
        BY <1>5, <4>2 DEF Process
      <4> QED
        BY <4>1, <4>2
    <3>4. StageBalance(s) => StageBalance(s)'
      <4>1. PutOut(s)' \in Nat /\ GaveUp(s)' \in Nat
        BY <1>t DEF PutOut, GaveUp, Owed, WorkerTypeOK
      <4> QED
        BY <1>k, <1>e, <2>2, <3>2, <3>3, <4>1 DEF StageBalance
    <3> QED
      BY <1>b, <3>2, <3>4
  <2> QED
    BY <2>3, <2>4
<1>6. CASE Tick(s)
  <2>0. wpc[s] = "tick" /\ wpc[s] \notin CountPcs /\ UNCHANGED <<hand, metrics>>
    BY <1>t, <1>6, TickStep DEF Tick, CountPcs
  <2>1. CASE Step(s, "tick", "loop") /\ UNCHANGED <<held, channels>>
    BY <1>t, <1>1, <2>0, <2>1, StepIs DEF CountPcs
  <2>2. CASE held[s] # None /\ SendOrDrop(s, "tick", held[s]) /\ held' = [held EXCEPT ![s] = None]
    <3>1. held[s] \in Items /\ held'[s] = None
      BY <2>2 DEF WorkerTypeOK
    <3>2. /\ Took(s)' = Took(s) /\ PutOut(s)' + GaveUp(s)' = PutOut(s) + GaveUp(s) + 1
          /\ PutOut(s)' + Rest(s) = PutOut(s) + Rest(s)' /\ Rest(s-1)' = Rest(s-1)
      BY <1>t, <2>0, <2>2, <3>1, SendOrDropCounts DEF CountPcs, metrics
    <3>3. Size(held[s]) = 1 /\ Size(held'[s]) = 0 /\ hand'[s] = hand[s] /\ filtered'[s] = filtered[s]
      BY <1>n, <1>e, <2>0, <3>1 DEF metrics
    <3>4. StageBalance(s) => StageBalance(s)'
      <4>1. PutOut(s)' \in Nat /\ GaveUp(s)' \in Nat
        BY <1>t DEF PutOut, GaveUp, Owed, WorkerTypeOK
      <4> QED
        BY <1>k, <1>e, <3>2, <3>3, <4>1 DEF StageBalance
    <3> QED
      BY <1>b, <3>2, <3>4
  <2> QED
    BY <1>6, <2>1, <2>2 DEF Tick
<1>7. CASE Flush(s)
  <2>0. wpc[s] = "flush" /\ wpc'[s] = "countFlush" /\ UNCHANGED <<hand, metrics>>
    BY <1>t, <1>7, StepIs DEF Flush
  <2>1. held[s] \in Items /\ held'[s] = None
    BY <1>7, <2>0 DEF Flush, InHands, WorkerTypeOK
  <2>2. Took(s)' = Took(s) /\ PutOut(s)' = PutOut(s) + 1 /\ GaveUp(s)' = GaveUp(s)
    BY <1>t, <2>0, Owes, OwesNext DEF CountPcs, metrics
  <2>3. Size(held[s]) = 1 /\ Size(held'[s]) = 0
    BY <1>n, <1>e, <2>1
  <2>4. StageBalance(s) => StageBalance(s)'
    <3>1. hand'[s] = hand[s] /\ filtered'[s] = filtered[s]
      BY <2>0 DEF metrics
    <3> QED
      BY <1>k, <1>e, <2>2, <2>3, <3>1 DEF StageBalance
  <2>5. Rest(s)' = Rest(s) + 1 /\ Rest(s-1)' = Rest(s-1)
    <3>1. CASE Room(s) /\ Add(s, held[s]) /\ UNCHANGED lost
      <4>1. chan'[s] = Append(chan[s], held[s]) /\ chan'[s-1] = chan[s-1]
        BY <1>0, <3>1 DEF Add, WorkerTypeOK
      <4>2. Len(chan'[s]) = Len(chan[s]) + 1
        BY <1>0, <2>1, <4>1
      <4>3. lost' = lost
        BY <3>1
      <4> QED
        <5>1. Rest(s-1)' = Rest(s-1) /\ Rest(s) = Len(chan[s]) + lost[s]
          BY <4>1, <4>3 DEF Rest
        <5>2. Rest(s)' = Len(chan[s]) + 1 + lost[s]
          BY <4>2, <4>3 DEF Rest
        <5>3. Len(chan[s]) \in Nat /\ lost[s] \in Nat
          BY <1>k
        <5> QED
          BY <5>1, <5>2, <5>3
    <3>2. CASE lost' = Count(lost, s) /\ UNCHANGED chan
      <4>1. lost'[s] = lost[s] + 1 /\ lost'[s-1] = lost[s-1]
        BY <1>0, <3>2 DEF Count, WorkerTypeOK
      <4>2. Rest(s-1)' = Rest(s-1) /\ Rest(s)' = Len(chan[s]) + (lost[s] + 1) /\ Rest(s) = Len(chan[s]) + lost[s]
        BY <3>2, <4>1 DEF Rest
      <4>3. Len(chan[s]) \in Nat /\ lost[s] \in Nat
        BY <1>k
      <4> QED
        BY <4>2, <4>3
    <3> QED
      BY <1>7, <3>1, <3>2 DEF Flush
  <2>6. PutOut(s)' + Rest(s) = PutOut(s) + Rest(s)'
    BY <1>k, <2>2, <2>5
  <2> QED
    BY <1>b, <2>2, <2>4, <2>5, <2>6
<1>8. CASE Panic(s) \/ Exit(s)
  <2>1. UNCHANGED <<metrics, hand, held>> /\ Discard(s-1)
    BY <1>8 DEF Panic, Exit
  <2>2. /\ chan'[s-1] = << >> /\ lost'[s-1] = lost[s-1] + Len(chan[s-1])
        /\ chan'[s] = chan[s] /\ lost'[s] = lost[s]
    BY <1>0, <2>1 DEF Discard, WorkerTypeOK
  <2>3. Len(chan'[s-1]) = 0
    BY <2>2
  <2>4. Rest(s)' = Rest(s) /\ Rest(s-1)' = Rest(s-1)
    BY <1>k, <2>2, <2>3 DEF Rest
  <2>5. wpc[s] \in {"process", "return"} /\ wpc'[s] \in {"panicked", "exited"}
    BY <1>t, <1>8, StepIs DEF Panic, Exit
  <2>6. Took(s)' = Took(s) /\ PutOut(s)' = PutOut(s) /\ GaveUp(s)' = GaveUp(s)
    BY <1>t, <2>1, <2>5, Owes, OwesNext DEF CountPcs, metrics
  <2> QED
    BY <1>b, <2>1, <2>4, <2>6 DEF StageBalance, metrics
<1>9. ~ResetStage(s)
  BY DEF ResetStage
<1> QED
  BY <1>2, <1>3, <1>3a, <1>4, <1>5, <1>6, <1>7, <1>8, <1>9 DEF Work

\* Whoever else acts leaves the stages' own counters alone.
LEMMA StagesStayBalanced ==
  ASSUME UNCHANGED <<threads, metrics>>, NEW s \in Stages
  PROVE  /\ StageBalance(s) => StageBalance(s)'
         /\ Took(s)' = Took(s) /\ PutOut(s)' = PutOut(s)
BY DEF StageBalance, Took, PutOut, GaveUp, Owed, threads, metrics

LEMMA ChannelsStayBalanced ==
  ASSUME UNCHANGED <<threads, metrics, accepted, delivered>>, NEW i \in Channels
  PROVE  SentInto(i)' = SentInto(i) /\ TakenFrom(i)' = TakenFrom(i)
BY DEF SentInto, TakenFrom, Took, PutOut, Owed, threads, metrics

\* No worker gives itself the command to reset.
LEMMA WorkCommand ==
  ASSUME WorkerTypeOK, NEW s \in Stages, Work(s), NEW t \in Stages, command'[t] = "Reset"
  PROVE  command[t] = "Reset"
<1>1. CASE ResetStoreRun(s)
  BY <1>1 DEF ResetStoreRun, StoreCommand, WorkerTypeOK
<1>2. CASE ~ResetStoreRun(s)
  <2>1. UNCHANGED command
    BY <1>2 DEF Work, WorkerStart, CheckShutdown, CheckPause, NoReset, ResetStage, ResetUnpause, TakeItem,
                CountInput, CountOutput, CountDropped, TakeNothing, TakeClosed, Process, Panic, Tick, StopStage, Flush, StoreStopped, Exit, control
  <2> QED
    BY <2>1
<1> QED
  BY <1>1, <1>2

\* The balance of a channel is kept by the stages on its two sides.
LEMMA WorkBalances ==
  ASSUME IInv, NEW s \in Stages, Work(s), CountsAfter(s), UNCHANGED <<accepted, delivered>>,
         NEW i \in Channels, ChannelBalance(i)
  PROVE  ChannelBalance(i)'
<1> USE DEF IInv
<1>0. s \in 1..K /\ K \in Nat \ {0} /\ i \in 0..K
  BY KAssumption DEF Stages, Channels
<1>1. WorkerTypeOK /\ WorkerTypeOK'
  BY WorkTypes DEF TypeOK
<1>2. Rest(i) \in Nat /\ Took(s) \in Nat /\ PutOut(s) \in Nat
  BY <1>1, CountTypes
<1>3. Rest(i)' \in Nat /\ Took(s)' \in Nat /\ PutOut(s)' \in Nat
  <2>1. chan'[i] \in Seq(Items) /\ lost'[i] \in Nat /\ inputs'[s] \in Nat /\ outputs'[s] \in Nat
    BY <1>1 DEF WorkerTypeOK
  <2>2. Len(chan'[i]) \in Nat
    BY <2>1
  <2> QED
    BY <2>1, <2>2 DEF Rest, Took, PutOut, Owed
<1>4. SentInto(i) \in Nat /\ TakenFrom(i) \in Nat
  <2>1. i # 0 => PutOut(i) \in Nat
    <3>1. i # 0 => i \in Stages
      BY <1>0 DEF Stages
    <3> QED
      BY <1>1, <3>1, CountTypes
  <2>2. i # K => Took(i+1) \in Nat
    <3>1. i # K => i + 1 \in Stages
      BY <1>0 DEF Stages
    <3> QED
      BY <1>1, <3>1, CountTypes
  <2>3. accepted \in Nat /\ Len(delivered) \in Nat
    BY ItemsAssumption DEF TypeOK
  <2> QED
    BY <2>1, <2>2, <2>3 DEF SentInto, TakenFrom
<1>5. \A t \in Stages \ {s} : Took(t)' = Took(t) /\ PutOut(t)' = PutOut(t)
  BY DEF CountsAfter
<1>6. CASE i = s
  <2>1. SentInto(i) = PutOut(s) /\ SentInto(i)' = PutOut(s)'
    BY <1>0, <1>6 DEF SentInto
  <2>2. TakenFrom(i)' = TakenFrom(i)
    <3>1. i # K => i + 1 \in Stages \ {s}
      BY <1>0, <1>6 DEF Stages
    <3> QED
      BY <1>5, <3>1 DEF TakenFrom
  <2>3. PutOut(s)' + Rest(i) = PutOut(s) + Rest(i)'
    BY <1>6 DEF CountsAfter
  <2>4. PutOut(s) = TakenFrom(i) + Rest(i)
    BY <2>1 DEF ChannelBalance
  <2>5. PutOut(s)' = TakenFrom(i) + Rest(i)'
    BY <1>2, <1>3, <1>4, <2>3, <2>4
  <2> QED
    BY <2>1, <2>2, <2>5 DEF ChannelBalance
<1>7. CASE i = s - 1
  <2>1. TakenFrom(i) = Took(s) /\ TakenFrom(i)' = Took(s)'
    <3>1. i # K /\ i + 1 = s
      BY <1>0, <1>7
    <3> QED
      BY <3>1 DEF TakenFrom
  <2>2. SentInto(i)' = SentInto(i)
    <3>1. i # 0 => i \in Stages \ {s}
      BY <1>0, <1>7 DEF Stages
    <3> QED
      BY <1>5, <3>1 DEF SentInto
  <2>3. Took(s)' + Rest(i)' = Took(s) + Rest(i)
    BY <1>7 DEF CountsAfter
  <2>4. SentInto(i) = Took(s) + Rest(i)
    BY <2>1 DEF ChannelBalance
  <2>5. SentInto(i) = Took(s)' + Rest(i)'
    BY <1>2, <1>3, <2>3, <2>4
  <2> QED
    BY <2>1, <2>2, <2>5 DEF ChannelBalance
<1>8. CASE i \notin {s - 1, s}
  <2>1. Rest(i)' = Rest(i)
    BY <1>8, WorkOnChannels DEF Rest
  <2>2. (i # 0 => i \in Stages \ {s}) /\ (i # K => i + 1 \in Stages \ {s})
    BY <1>0, <1>8 DEF Stages
  <2>3. SentInto(i)' = SentInto(i) /\ TakenFrom(i)' = TakenFrom(i)
    BY <1>5, <2>2 DEF SentInto, TakenFrom
  <2> QED
    BY <2>1, <2>3 DEF ChannelBalance
<1> QED
  BY <1>6, <1>7, <1>8

LEMMA BalancedKeeps ==
  ASSUME IInv, Next
  PROVE  Balanced'
<1> USE DEF IInv
<1>0. K \in Nat \ {0} /\ 0 \in Channels /\ K \in Channels /\ \A i \in Channels : i \in 0..K
  BY KAssumption DEF Channels
<1>t. \A i \in Channels : chan[i] \in Seq(Items) /\ Len(chan[i]) \in Nat /\ lost[i] \in Nat
  <2>1. 1 \in Stages
    BY <1>0 DEF Stages
  <2> QED
    BY <2>1, CountTypes DEF TypeOK
<1>1. CASE UNCHANGED <<call, calls, threads, command, metrics, channels, accepted, delivered>>
  <2>1. \A i \in Channels : ChannelBalance(i) => ChannelBalance(i)'
    BY <1>1, ChannelsStayBalanced DEF ChannelBalance, Rest, channels
  <2>2. \A s \in Stages : StageBalance(s) => StageBalance(s)'
    BY <1>1, StagesStayBalanced
  <2> QED
    BY <1>1, <2>1, <2>2 DEF Balanced
\* The two ends.
<1>2. CASE Send \/ Recv
  <2>1. /\ UNCHANGED <<call, calls, threads, command, metrics, lost>>
        /\ K # 0 /\ \A i \in Channels \ {0, K} : chan'[i] = chan[i]
    BY <1>0, <1>2 DEF Send, Recv, Add, owner, control, TypeOK, WorkerTypeOK
  <2>s. \A s \in Stages : Took(s)' = Took(s) /\ PutOut(s)' = PutOut(s) /\ (StageBalance(s) => StageBalance(s)')
    BY <2>1, StagesStayBalanced
  <2>a. \A i \in Channels : /\ i # 0 => SentInto(i)' = SentInto(i)
                            /\ i # K => TakenFrom(i)' = TakenFrom(i)
    <3>1. \A i \in Channels : (i # 0 => i \in Stages) /\ (i # K => i + 1 \in Stages)
      BY <1>0 DEF Stages
    <3> QED
      BY <2>s, <3>1 DEF SentInto, TakenFrom
  <2>b. 1 \in Stages /\ Took(1) \in Nat /\ Took(1)' = Took(1)
    <3>1. 1 \in Stages
      BY <1>0 DEF Stages
    <3> QED
      BY <2>s, <3>1, CountTypes DEF TypeOK
  <2>2. ASSUME NEW i \in Channels, ChannelBalance(i) PROVE ChannelBalance(i)'
    <3>1. CASE i \notin {0, K}
      BY <2>1, <2>2, <2>a, <3>1 DEF ChannelBalance, Rest
    <3>2. CASE Send /\ i = 0
      <4>1. chan'[0] = Append(chan[0], accepted + 1) /\ accepted' = accepted + 1 /\ accepted \in Nat
        BY <1>0, <3>2, ItemsAssumption DEF Send, Add, TypeOK, WorkerTypeOK
      <4>2. accepted + 1 \in Items
        BY <3>2, ItemsAssumption DEF Send, TypeOK, Items
      <4>3. Len(chan'[0]) = Len(chan[0]) + 1
        BY <1>0, <1>t, <4>1, <4>2
      <4>4. accepted = Took(1) + Rest(0)
        <5>1. SentInto(0) = accepted /\ TakenFrom(0) = Took(1)
          BY <2>1 DEF SentInto, TakenFrom
        <5> QED
          BY <2>2, <3>2, <5>1 DEF ChannelBalance
      <4>5. Took(1) \in Nat /\ Len(chan[0]) \in Nat /\ lost[0] \in Nat
        BY <1>0, <1>t, <2>b
      <4>7. Rest(0)' = Rest(0) + 1 /\ Rest(0) \in Nat
        <5>1. Rest(0) = Len(chan[0]) + lost[0] /\ Rest(0)' = Len(chan'[0]) + lost[0]
          BY <2>1 DEF Rest
        <5> QED
          BY <4>3, <4>5, <5>1
      <4>6. accepted' = Took(1) + Rest(0)'
        BY <4>1, <4>4, <4>5, <4>7
      <4> QED
        BY <2>1, <2>b, <3>2, <4>6 DEF ChannelBalance, SentInto, TakenFrom
    <3>3. CASE Send /\ i = K
      <4>1. chan'[K] = chan[K] /\ UNCHANGED delivered
        BY <1>0, <3>3 DEF Send, Add, TypeOK, WorkerTypeOK
      <4> QED
        BY <1>0, <2>1, <2>2, <2>a, <3>3, <4>1 DEF ChannelBalance, Rest, TakenFrom
    <3>4. CASE Recv /\ i = K
      <4>1. chan[K] # << >> /\ chan'[K] = Tail(chan[K]) /\ delivered' = Append(delivered, Head(chan[K]))
        BY <1>0, <3>4 DEF Recv, TypeOK, WorkerTypeOK
      <4>2. Len(chan'[K]) = Len(chan[K]) - 1 /\ Head(chan[K]) \in Items
        BY <1>0, <1>t, <4>1
      <4>3. Len(delivered') = Len(delivered) + 1 /\ Len(delivered) \in Nat
        BY <4>1, <4>2 DEF TypeOK
      <4>4. SentInto(K) = Len(delivered) + Rest(K)
        BY <2>1, <2>2, <3>4 DEF ChannelBalance, TakenFrom
      <4>5. Len(chan[K]) \in Nat /\ lost[K] \in Nat
        BY <1>0, <1>t
      <4>6. Rest(K)' = Rest(K) - 1 /\ Rest(K) \in Nat
        BY <2>1, <4>2, <4>5 DEF Rest
      <4>7. SentInto(K) = Len(delivered') + Rest(K)'
        BY <4>3, <4>4, <4>6
      <4>8. SentInto(K)' = Len(delivered') + Rest(K)'
        BY <1>0, <2>1, <2>a, <4>7
      <4> QED
        BY <3>4, <4>8 DEF ChannelBalance, TakenFrom
    <3>5. CASE Recv /\ i = 0
      <4>1. chan'[0] = chan[0] /\ UNCHANGED accepted
        BY <1>0, <3>5 DEF Recv, TypeOK, WorkerTypeOK
      <4> QED
        BY <1>0, <2>1, <2>2, <2>a, <3>5, <4>1 DEF ChannelBalance, Rest, SentInto
    <3> QED
      BY <1>2, <3>1, <3>2, <3>3, <3>4, <3>5
  <2> QED
    BY <2>1, <2>2, <2>s DEF Balanced
<1>3. CASE CloneSenderDropped
  BY <1>1, <1>3 DEF CloneSenderDropped, owner, control
\* The owner's calls: only reset gives the command that lets a stage count anew.
<1>4. ASSUME UNCHANGED <<threads, metrics, channels, accepted, delivered>>,
             calls'["reset"] = 0 => calls["reset"] = 0 /\ call' # "reset",
             \A s \in Stages : command'[s] = "Reset" => command[s] = "Reset" \/ call = "reset"
      PROVE  Balanced'
  <2>1. \A i \in Channels : ChannelBalance(i) => ChannelBalance(i)'
    BY <1>4, ChannelsStayBalanced DEF ChannelBalance, Rest, channels
  <2>2. \A s \in Stages : StageBalance(s) => StageBalance(s)'
    BY <1>4, StagesStayBalanced
  <2> QED
    BY <1>4, <2>1, <2>2 DEF Balanced
<1>5. CASE Quietly
  <2>1. UNCHANGED <<threads, metrics, channels, accepted, delivered, command>>
    BY <1>5, QuietOnes DEF control
  <2>2. ASSUME NEW m \in Methods, Called(m)
        PROVE  calls'["reset"] = 0 => calls["reset"] = 0 /\ m # "reset"
    BY <2>2 DEF Called, TypeOK, Methods
  <2>3. ASSUME NEW m \in {"pause", "resume", "reset"}, StartCommand(m)
        PROVE  calls'["reset"] = 0 => calls["reset"] = 0 /\ call' # "reset"
    BY <2>2, <2>3 DEF StartCommand, Methods
  <2>4. CASE StartShutdown \/ StartJoin \/ StartDrop
    BY <1>4, <2>1, <2>2, <2>4 DEF StartShutdown, StartJoin, StartDrop, Methods
  <2>5. CASE ~(StartShutdown \/ StartJoin \/ StartDrop \/ \E m \in {"pause", "resume", "reset"} : StartCommand(m))
    <3>1. UNCHANGED calls /\ (call' = call \/ call' \in {"none", "release"})
      BY <1>5, <2>5 DEF Quietly, EndCommand, JoinSkip, JoinTake, JoinTimeout, JoinThread, JoinPanicked, JoinOk,
                        AfterJoin, Return
    <3>2. calls'["reset"] = 0 => calls["reset"] = 0 /\ call' # "reset"
      BY <3>1 DEF Balanced
    <3> QED
      BY <1>4, <2>1, <3>2
  <2> QED
    BY <1>4, <2>1, <2>3, <2>4, <2>5
<1>6. CASE CommandStage \/ FlagStage
  <2>1. UNCHANGED <<threads, metrics, channels, accepted, delivered, call, calls>>
    BY <1>6 DEF CommandStage, FlagStage, ends
  <2>2. \A s \in Stages : command'[s] = "Reset" => command[s] = "Reset" \/ call = "reset"
    BY <1>6 DEF CommandStage, FlagStage, Commanding, CommandOf, StoreCommand, TypeOK, WorkerTypeOK
  <2>3. calls'["reset"] = 0 => calls["reset"] = 0 /\ call' # "reset"
    BY <2>1 DEF Balanced
  <2> QED
    BY <1>4, <2>1, <2>2, <2>3
<1>7. CASE EndShutdown
  BY <1>4, <1>7 DEF EndShutdown, Return, control
<1>8. CASE Release
  <2>1. /\ UNCHANGED <<threads, metrics, command, accepted, delivered, calls>>
        /\ call' = "gone" /\ (UNCHANGED channels \/ Discard(K))
    BY <1>8 DEF Release, Return, control
  <2>2. ASSUME NEW i \in Channels, ChannelBalance(i) PROVE ChannelBalance(i)'
    <3>1. Rest(i)' = Rest(i)
      <4>1. CASE UNCHANGED channels
        BY <4>1 DEF channels, Rest
      <4>2. CASE Discard(K)
        <5>1. CASE i = K
          <6>1. chan'[i] = << >> /\ lost'[i] = lost[i] + Len(chan[i])
            BY <1>0, <4>2, <5>1 DEF Discard, TypeOK, WorkerTypeOK
          <6>2. Len(chan'[i]) = 0 /\ lost[i] \in Nat /\ Len(chan[i]) \in Nat
            BY <1>t, <6>1
          <6> QED
            BY <6>1, <6>2 DEF Rest
        <5>2. CASE i # K
          BY <1>0, <4>2, <5>2 DEF Discard, Rest, TypeOK, WorkerTypeOK
        <5> QED
          BY <5>1, <5>2
      <4> QED
        BY <2>1, <4>1, <4>2
    <3>2. TakenFrom(i)' = TakenFrom(i) /\ SentInto(i)' = SentInto(i)
      BY <2>1, ChannelsStayBalanced
    <3> QED
      BY <2>2, <3>1, <3>2 DEF ChannelBalance
  <2> QED
    BY <1>8, <2>1, <2>2, StagesStayBalanced DEF Balanced, Release, Return
<1>9. ASSUME NEW s \in Stages, WorkerStep(s) PROVE Balanced'
  <2>1. SUFFICES ASSUME calls["reset"] = 0 PROVE Balanced'
    BY <1>9 DEF WorkerStep, owner, Balanced
  <2>2. UNCHANGED <<call, calls, accepted, delivered>> /\ Work(s) /\ command[s] # "Reset"
    BY <1>9, <2>1 DEF WorkerStep, owner, ends, Balanced
  <2>3. CountsAfter(s)
    BY <2>2, WorkCounts
  <2>4. \A t \in Stages : command'[t] # "Reset"
    BY <2>1, <2>2, WorkCommand DEF TypeOK, Balanced
  <2>5. ASSUME NEW t \in Stages PROVE StageBalance(t)'
    <3>1. CASE t = s
      BY <2>1, <2>3, <3>1 DEF Balanced, CountsAfter
    <3>2. CASE t # s
      <4>1. /\ Took(t)' = Took(t) /\ PutOut(t)' = PutOut(t) /\ filtered'[t] = filtered[t]
            /\ GaveUp(t)' = GaveUp(t) /\ hand'[t] = hand[t] /\ held'[t] = held[t]
        BY <2>2, <2>3, <3>2, WorkIsLocal DEF CountsAfter
      <4> QED
        BY <2>1, <4>1 DEF Balanced, StageBalance
    <3> QED
      BY <3>1, <3>2
  <2>6. ASSUME NEW i \in Channels PROVE ChannelBalance(i)'
    BY <2>1, <2>2, <2>3, WorkBalances DEF Balanced
  <2> QED
    BY <2>2, <2>4, <2>5, <2>6 DEF Balanced
<1> QED
  BY <1>2, <1>3, <1>5, <1>6, <1>7, <1>8, <1>9 DEF Next, Calls, OwnerStep, Quietly

---------------------------------------------------------------------------
(* The order of the items                                                  *)

\* From P to Q the oldest of what is at place a goes on to b, or is lost on the way.
Moved(P, Q, a, b, x) ==
  /\ a \in Places /\ b \in Places /\ a < b
  /\ x \in P[a] /\ \A y \in P[a] : y = x \/ x < y
  /\ \A n \in Places : a < n /\ n < b => P[n] = {}
  /\ \A n \in Places \ {b} : Q[n] \subseteq P[n]
  /\ x \notin Q[a]
  /\ Q[b] \subseteq P[b] \union {x}

\* Such a move keeps the items in order: what x overtakes is nothing.
LEMMA MovesKeepOrder ==
  ASSUME NEW P, NEW Q, NEW S, NEW a, NEW b, NEW x, Moved(P, Q, a, b, x), Sound(P, S)
  PROVE  Sound(Q, S)
<1>0. Places \subseteq Int
  BY KAssumption DEF Places
<1>1. \A n \in Places : Q[n] \subseteq S
  BY DEF Moved, Sound
<1>2. ASSUME NEW m \in Places, NEW n \in Places, m < n, NEW u \in Q[n], NEW v \in Q[m]
      PROVE  v > u
  <2>1. CASE n # b /\ m # b
    BY <1>2, <2>1 DEF Moved, Sound, Ordered, Older
  <2>2. CASE n = b /\ u \in P[b]
    BY <1>0, <1>2, <2>2 DEF Moved, Sound, Ordered, Older
  <2>3. CASE n = b /\ u = x
    <3>1. m # b /\ v \in P[m] /\ a \in Int /\ b \in Int /\ m \in Int
      BY <1>0, <1>2, <2>3 DEF Moved
    <3>2. CASE a < m
      BY <1>2, <2>3, <3>1, <3>2 DEF Moved
    <3>3. CASE m = a
      BY <1>2, <2>3, <3>1, <3>3 DEF Moved
    <3>4. CASE m < a
      BY <2>3, <3>1, <3>4 DEF Moved, Sound, Ordered, Older
    <3> QED
      BY <3>1, <3>2, <3>3, <3>4
  <2>4. CASE m = b
    <3>1. n # b /\ u \in P[n] /\ a < n
      BY <1>0, <1>2, <2>4 DEF Moved
    <3> QED
      BY <1>2, <2>4, <3>1 DEF Moved, Sound, Ordered, Older
  <2>5. n = b => u \in P[b] \/ u = x
    BY <1>2 DEF Moved
  <2> QED
    BY <2>1, <2>2, <2>3, <2>4, <2>5
<1> QED
  BY <1>1, <1>2 DEF Sound, Ordered, Older

\* Items that vanish leave the others in order.
LEMMA LossesKeepOrder ==
  ASSUME NEW P, NEW Q, NEW S, Sound(P, S), \A n \in Places : Q[n] \subseteq P[n]
  PROVE  Sound(Q, S)
BY DEF Sound, Ordered, Older

\* A new item enters at place 0.
LEMMA EntersInOrder ==
  ASSUME NEW P, NEW Q, NEW n \in Nat, Sound(P, 1..n), Q[0] \subseteq P[0] \union {n + 1},
         \A m \in Places \ {0} : Q[m] \subseteq P[m]
  PROVE  Sound(Q, 1..n+1)
<1>0. Places \subseteq Nat
  BY KAssumption DEF Places
<1>1. ASSUME NEW m \in Places, NEW y \in Q[m] PROVE (y \in P[m] /\ y \in 1..n /\ y < n + 1) \/ (m = 0 /\ y = n + 1)
  BY <1>1 DEF Sound
<1>2. \A m \in Places : Q[m] \subseteq 1..n+1
  BY <1>1
<1>3. ASSUME NEW m \in Places, NEW k \in Places, m < k, NEW u \in Q[k], NEW v \in Q[m]
      PROVE  u < v
  <2>1. k # 0
    BY <1>0, <1>3
  <2>2. u \in P[k] /\ u < n + 1
    BY <1>1, <2>1
  <2>3. CASE v \in P[m]
    BY <1>3, <2>2, <2>3 DEF Sound, Ordered, Older
  <2>4. CASE v = n + 1
    BY <2>2, <2>4
  <2> QED
    BY <1>1, <2>3, <2>4
<1> QED
  BY <1>2, <1>3 DEF Sound, Ordered, Older

\* What is at each place.
LEMMA PlaceIs ==
  ASSUME NEW n \in Places
  PROVE  \/ \E i \in Channels : n = 3 * i
         \/ \E s \in Stages : n = 3 * s - 2
         \/ \E s \in Stages : n = 3 * s - 1
         \/ n = 3 * K + 1
<1>0. K \in Nat /\ n \in Nat /\ n <= 3 * K + 1
  BY KAssumption DEF Places
<1>1. PICK q \in Nat : n = 3 * q \/ n = 3 * q + 1 \/ n = 3 * q + 2
  <2>1. n \div 3 \in Nat /\ (n = 3 * (n \div 3) \/ n = 3 * (n \div 3) + 1 \/ n = 3 * (n \div 3) + 2)
    BY <1>0
  <2> QED
    BY <2>1
<1>2. CASE n = 3 * q
  <2>1. q \in Channels
    BY <1>0, <1>2 DEF Channels
  <2> QED
    BY <1>2, <2>1
<1>3. CASE n = 3 * q + 1
  <2>1. CASE q = K
    BY <1>3, <2>1
  <2>2. CASE q # K
    <3>1. q + 1 \in Stages /\ n = 3 * (q + 1) - 2
      BY <1>0, <1>3, <2>2 DEF Stages
    <3> QED
      BY <3>1
  <2> QED
    BY <2>1, <2>2
<1>4. CASE n = 3 * q + 2
  <2>1. q + 1 \in Stages /\ n = 3 * (q + 1) - 1
    BY <1>0, <1>4 DEF Stages
  <2> QED
    BY <2>1
<1> QED
  BY <1>1, <1>2, <1>3, <1>4

LEMMA PlacesAre ==
  /\ \A i \in Channels : 3 * i \in Places
  /\ \A s \in Stages : 3 * s - 3 \in Places /\ 3 * s - 2 \in Places /\ 3 * s - 1 \in Places /\ 3 * s \in Places
  /\ 3 * K + 1 \in Places
BY KAssumption DEF Places, Channels, Stages

LEMMA WhereIs ==
  ASSUME NEW C, NEW H, NEW B, NEW D, D \subseteq Items, \A i \in Channels : C[i] \subseteq Items,
         \A s \in Stages : H[s] \subseteq Items /\ B[s] \subseteq Items
  PROVE  /\ \A i \in Channels : Where(C, H, B, D)[3 * i] = C[i]
         /\ \A s \in Stages : Where(C, H, B, D)[3 * s - 2] = H[s] /\ Where(C, H, B, D)[3 * s - 1] = B[s]
         /\ Where(C, H, B, D)[3 * K + 1] = D
<1>0. K \in Int /\ Channels \subseteq Int /\ Stages \subseteq Int
  BY KAssumption DEF Channels, Stages
<1>t. /\ \A i \in Channels : i <= K
      /\ \A s \in Stages : s <= K
  BY KAssumption DEF Channels, Stages
<1>1. ASSUME NEW n \in Places, NEW x
      PROVE  x \in Where(C, H, B, D)[n] <=>
               x \in Items /\ \/ \E i \in Channels : n = 3 * i /\ x \in C[i]
                              \/ \E s \in Stages : n = 3 * s - 2 /\ x \in H[s]
                              \/ \E s \in Stages : n = 3 * s - 1 /\ x \in B[s]
                              \/ n = 3 * K + 1 /\ x \in D
  BY DEF Where
<1>2. ASSUME NEW i \in Channels PROVE Where(C, H, B, D)[3 * i] = C[i]
  <2>1. /\ 3 * i \in Places /\ 3 * i # 3 * K + 1
        /\ \A s \in Stages : 3 * i # 3 * s - 2 /\ 3 * i # 3 * s - 1
        /\ \A j \in Channels : 3 * i = 3 * j => i = j
    BY <1>0, PlacesAre
  <2>2. ASSUME NEW x PROVE x \in Where(C, H, B, D)[3 * i] <=> x \in C[i]
    BY <1>1, <2>1
  <2> QED
    BY <2>2
<1>3. ASSUME NEW r \in Stages PROVE Where(C, H, B, D)[3 * r - 2] = H[r]
  <2>1. /\ 3 * r - 2 \in Places /\ 3 * r - 2 # 3 * K + 1
        /\ \A s \in Stages : (3 * r - 2 = 3 * s - 2 => s = r) /\ 3 * r - 2 # 3 * s - 1
        /\ \A j \in Channels : 3 * r - 2 # 3 * j
    BY <1>0, <1>t, PlacesAre
  <2>2. ASSUME NEW x PROVE x \in Where(C, H, B, D)[3 * r - 2] <=> x \in H[r]
    BY <1>1, <2>1
  <2> QED
    BY <2>2
<1>4. ASSUME NEW r \in Stages PROVE Where(C, H, B, D)[3 * r - 1] = B[r]
  <2>1. /\ 3 * r - 1 \in Places /\ 3 * r - 1 # 3 * K + 1
        /\ \A s \in Stages : 3 * r - 1 # 3 * s - 2 /\ (3 * r - 1 = 3 * s - 1 => s = r)
        /\ \A j \in Channels : 3 * r - 1 # 3 * j
    BY <1>0, <1>t, PlacesAre
  <2>2. ASSUME NEW x PROVE x \in Where(C, H, B, D)[3 * r - 1] <=> x \in B[r]
    BY <1>1, <2>1
  <2> QED
    BY <2>2
<1>5. Where(C, H, B, D)[3 * K + 1] = D
  <2>1. /\ 3 * K + 1 \in Places
        /\ \A s \in Stages : 3 * K + 1 # 3 * s - 2 /\ 3 * K + 1 # 3 * s - 1
        /\ \A j \in Channels : 3 * K + 1 # 3 * j
    BY <1>0, <1>t, PlacesAre
  <2>2. ASSUME NEW x PROVE x \in Where(C, H, B, D)[3 * K + 1] <=> x \in D
    BY <1>1, <2>1
  <2> QED
    BY <2>2
<1> QED
  BY <1>2, <1>3, <1>4, <1>5

LEMMA NowIs ==
  ASSUME TypeOK
  PROVE  /\ \A i \in Channels : Now[3 * i] = In(chan[i])
         /\ \A s \in Stages : Now[3 * s - 2] = Present(hand[s]) /\ Now[3 * s - 1] = Present(held[s])
         /\ Now[3 * K + 1] = In(delivered)
<1> DEFINE C == [i \in Channels |-> In(chan[i])]
           H == [s \in Stages |-> Present(hand[s])]
           B == [s \in Stages |-> Present(held[s])]
<1>1. ASSUME NEW q \in Seq(Items) PROVE In(q) \subseteq Items
  BY DEF In
<1>2. In(delivered) \subseteq Items /\ \A i \in Channels : C[i] \subseteq Items /\ C[i] = In(chan[i])
  BY <1>1 DEF TypeOK, WorkerTypeOK
<1>3. \A s \in Stages : /\ H[s] \subseteq Items /\ H[s] = Present(hand[s])
                        /\ B[s] \subseteq Items /\ B[s] = Present(held[s])
  BY DEF Present, TypeOK, WorkerTypeOK
<1>4. Now = Where(C, H, B, In(delivered))
  BY DEF Now
<1> HIDE DEF C, H, B
<1> QED
  BY <1>2, <1>3, <1>4, WhereIs

LEMMA NowIsNext ==
  ASSUME TypeOK'
  PROVE  /\ \A i \in Channels : Now'[3 * i] = In(chan'[i])
         /\ \A s \in Stages : Now'[3 * s - 2] = Present(hand'[s]) /\ Now'[3 * s - 1] = Present(held'[s])
         /\ Now'[3 * K + 1] = In(delivered')
<1> DEFINE C == [i \in Channels |-> In(chan'[i])]
           H == [s \in Stages |-> Present(hand'[s])]
           B == [s \in Stages |-> Present(held'[s])]
<1>1. ASSUME NEW q \in Seq(Items) PROVE In(q) \subseteq Items
  BY DEF In
<1>2. In(delivered') \subseteq Items /\ \A i \in Channels : C[i] \subseteq Items /\ C[i] = In(chan'[i])
  BY <1>1 DEF TypeOK, WorkerTypeOK
<1>3. \A s \in Stages : /\ H[s] \subseteq Items /\ H[s] = Present(hand'[s])
                        /\ B[s] \subseteq Items /\ B[s] = Present(held'[s])
  BY DEF Present, TypeOK, WorkerTypeOK
<1>4. Now' = Where(C, H, B, In(delivered'))
  BY DEF Now
<1> HIDE DEF C, H, B
<1> QED
  BY <1>2, <1>3, <1>4, WhereIs

\* The items of a sequence, as one more is appended and as the first is taken.
LEMMA AppendInOrder ==
  ASSUME NEW q \in Seq(Items), NEW x \in Items, Increasing(q), \A y \in In(q) : y < x
  PROVE  In(Append(q, x)) = In(q) \union {x} /\ Increasing(Append(q, x))
<1> DEFINE r == Append(q, x)
<1>1. /\ Len(q) \in Nat /\ Len(r) = Len(q) + 1 /\ DOMAIN q = 1..Len(q) /\ DOMAIN r = 1..Len(q)+1
      /\ r[Len(q)+1] = x /\ \A k \in 1..Len(q) : r[k] = q[k]
  OBVIOUS
<1> HIDE DEF r
<1>2. In(r) = In(q) \union {x}
  <2>1. ASSUME NEW y \in In(r) PROVE y \in In(q) \union {x}
    BY <1>1, <2>1 DEF In
  <2>2. ASSUME NEW y \in In(q) PROVE y \in In(r)
    <3>1. PICK k \in 1..Len(q) : y = q[k]
      BY <1>1, <2>2 DEF In
    <3>2. k \in DOMAIN r /\ y = r[k]
      BY <1>1, <3>1
    <3> QED
      BY <3>2 DEF In
  <2>3. x \in In(r)
    <3>1. Len(q) + 1 \in DOMAIN r /\ x = r[Len(q) + 1]
      BY <1>1
    <3> QED
      BY <3>1 DEF In
  <2> QED
    BY <2>1, <2>2, <2>3
<1>3. ASSUME NEW j \in DOMAIN r, NEW k \in DOMAIN r, j < k PROVE r[j] < r[k]
  <2>1. j \in 1..Len(q) /\ r[j] = q[j]
    BY <1>1, <1>3
  <2>2. CASE k \in 1..Len(q)
    BY <1>1, <1>3, <2>1, <2>2 DEF Increasing
  <2>3. CASE k = Len(q) + 1
    <3>1. q[j] \in In(q)
      BY <1>1, <2>1 DEF In
    <3> QED
      BY <1>1, <2>1, <2>3, <3>1
  <2> QED
    BY <1>1, <2>2, <2>3
<1> QED
  BY <1>2, <1>3 DEF Increasing, r

LEMMA TailInOrder ==
  ASSUME NEW q \in Seq(Items), q # << >>, Increasing(q)
  PROVE  /\ Increasing(Tail(q)) /\ In(Tail(q)) \subseteq In(q) \ {Head(q)}
         /\ Head(q) \in In(q) /\ \A y \in In(q) : y = Head(q) \/ Head(q) < y
<1> DEFINE r == Tail(q)
<1>1. /\ Len(q) \in Nat \ {0} /\ DOMAIN q = 1..Len(q) /\ DOMAIN r = 1..Len(q)-1
      /\ Head(q) = q[1] /\ \A k \in 1..Len(q)-1 : r[k] = q[k+1]
  OBVIOUS
<1>i. \A k \in 1..Len(q) : q[k] \in Int
  BY <1>1, ItemsAssumption DEF Items
<1> HIDE DEF r
<1>2. ASSUME NEW k \in DOMAIN r PROVE k + 1 \in DOMAIN q /\ r[k] = q[k+1] /\ 1 < k + 1
  BY <1>1, <1>2
<1>3. Increasing(r)
  BY <1>1, <1>2 DEF Increasing
<1>4. ASSUME NEW y \in In(r) PROVE y \in In(q) /\ y # Head(q)
  <2>1. PICK k \in DOMAIN r : y = r[k]
    BY <1>4 DEF In
  <2>2. k + 1 \in DOMAIN q /\ y = q[k+1] /\ 1 < k + 1 /\ 1 \in DOMAIN q
    BY <1>1, <1>2, <2>1
  <2>3. q[1] < q[k+1]
    BY <2>2 DEF Increasing
  <2> QED
    BY <1>1, <1>i, <2>2, <2>3 DEF In
<1>5. Head(q) \in In(q)
  BY <1>1 DEF In
<1>6. ASSUME NEW y \in In(q) PROVE y = Head(q) \/ Head(q) < y
  <2>1. PICK k \in DOMAIN q : y = q[k]
    BY <1>6 DEF In
  <2>2. k = 1 \/ 1 < k
    BY <1>1, <2>1
  <2> QED
    BY <1>1, <2>1, <2>2 DEF Increasing
<1> QED
  BY <1>3, <1>4, <1>5, <1>6 DEF r

\* A stage moves items only between its own places and the channels beside it.
LEMMA WorkPlaces ==
  ASSUME IInv, TypeOK', NEW s \in Stages, Work(s), UNCHANGED delivered
  PROVE  \A n \in Places \ {3 * s - 3, 3 * s - 2, 3 * s - 1, 3 * s} : Now'[n] = Now[n]
<1> SUFFICES ASSUME NEW n \in Places, n \notin {3 * s - 3, 3 * s - 2, 3 * s - 1, 3 * s}
             PROVE  Now'[n] = Now[n]
  OBVIOUS
<1>0. TypeOK /\ WorkerInv
  BY DEF IInv
<1>1. s \in Int /\ s - 1 \in Int
  BY KAssumption DEF Stages
<1>2. CASE \E i \in Channels : n = 3 * i
  <2>1. PICK i \in Channels : n = 3 * i
    BY <1>2
  <2>2. i \in Channels \ {s - 1, s}
    BY <1>1, <2>1 DEF Channels
  <2>3. chan'[i] = chan[i]
    BY <1>0, <2>2, WorkOnChannels
  <2> QED
    BY <1>0, <2>1, <2>3, NowIs, NowIsNext
<1>3. CASE \E t \in Stages : n = 3 * t - 2
  <2>1. PICK t \in Stages : n = 3 * t - 2
    BY <1>3
  <2>2. t \in Stages \ {s}
    BY <1>1, <2>1
  <2>3. hand'[t] = hand[t]
    BY <1>0, <2>2, WorkIsLocal
  <2> QED
    BY <1>0, <2>1, <2>3, NowIs, NowIsNext
<1>4. CASE \E t \in Stages : n = 3 * t - 1
  <2>1. PICK t \in Stages : n = 3 * t - 1
    BY <1>4
  <2>2. t \in Stages \ {s}
    BY <1>1, <2>1
  <2>3. held'[t] = held[t]
    BY <1>0, <2>2, WorkIsLocal
  <2> QED
    BY <1>0, <2>1, <2>3, NowIs, NowIsNext
<1>5. CASE n = 3 * K + 1
  BY <1>0, <1>5, NowIs, NowIsNext
<1> QED
  BY <1>2, <1>3, <1>4, <1>5, PlaceIs

\* What is added to a channel comes after all that is in it.
LEMMA AddInOrder ==
  ASSUME WorkerTypeOK, NEW i \in Channels, NEW x \in Items, Add(i, x), \A y \in In(chan[i]) : y < x,
         \A j \in Channels : Increasing(chan[j])
  PROVE  /\ In(chan'[i]) = In(chan[i]) \union {x} /\ \A j \in Channels \ {i} : chan'[j] = chan[j]
         /\ \A j \in Channels : Increasing(chan'[j])
<1>1. chan[i] \in Seq(Items) /\ chan'[i] = Append(chan[i], x) /\ \A j \in Channels \ {i} : chan'[j] = chan[j]
  BY DEF Add, WorkerTypeOK
<1>2. In(chan'[i]) = In(chan[i]) \union {x} /\ Increasing(chan'[i])
  BY <1>1, AppendInOrder
<1> QED
  BY <1>1, <1>2

LEMMA TakeInOrder ==
  ASSUME WorkerTypeOK, NEW i \in Channels, chan[i] # << >>, chan' = [chan EXCEPT ![i] = Tail(@)],
         \A j \in Channels : Increasing(chan[j])
  PROVE  /\ Head(chan[i]) \in In(chan[i]) /\ \A y \in In(chan[i]) : y = Head(chan[i]) \/ Head(chan[i]) < y
         /\ In(chan'[i]) \subseteq In(chan[i]) \ {Head(chan[i])}
         /\ \A j \in Channels \ {i} : chan'[j] = chan[j]
         /\ \A j \in Channels : Increasing(chan'[j])
<1>1. chan[i] \in Seq(Items) /\ chan'[i] = Tail(chan[i]) /\ \A j \in Channels \ {i} : chan'[j] = chan[j]
  BY DEF WorkerTypeOK
<1> QED
  BY <1>1, TailInOrder

LEMMA DiscardInOrder ==
  ASSUME WorkerTypeOK, NEW i \in Channels, Discard(i), \A j \in Channels : Increasing(chan[j])
  PROVE  /\ In(chan'[i]) = {} /\ \A j \in Channels \ {i} : chan'[j] = chan[j]
         /\ \A j \in Channels : Increasing(chan'[j])
<1>1. chan'[i] = << >> /\ \A j \in Channels \ {i} : chan'[j] = chan[j]
  BY DEF Discard, WorkerTypeOK
<1> QED
  BY <1>1 DEF In, Increasing

LEMMA SendOrDropInOrder ==
  ASSUME WorkerTypeOK, NEW s \in Stages, NEW from, NEW x \in Items, SendOrDrop(s, from, x),
         \A y \in In(chan[s]) : y < x,
         \A j \in Channels : Increasing(chan[j])
  PROVE  /\ In(chan'[s]) \subseteq In(chan[s]) \union {x} /\ chan'[s-1] = chan[s-1]
         /\ \A j \in Channels : Increasing(chan'[j])
<1>0. s \in Channels /\ s - 1 \in Channels \ {s}
  BY KAssumption DEF Stages, Channels
<1>1. CASE Add(s, x)
  BY <1>0, <1>1, AddInOrder
<1>2. CASE UNCHANGED chan
  BY <1>2
<1> QED
  BY <1>1, <1>2 DEF SendOrDrop, channels

LEMMA WorkInOrder ==
  ASSUME IInv, TypeOK', NEW s \in Stages, Work(s), UNCHANGED <<accepted, delivered>>
  PROVE  InOrder'
<1> DEFINE a == 3 * s - 3
           h == 3 * s - 2
           b == 3 * s - 1
           c == 3 * s
           Chans == \A i \in Channels : Increasing(chan[i])
<1>0. /\ TypeOK /\ WorkerTypeOK /\ InHands /\ Sound(Now, 1..accepted) /\ Chans
      /\ s \in Channels /\ s - 1 \in Channels /\ s - 1 # s
  BY KAssumption DEF IInv, WorkerInv, TypeOK, InOrder, Channels, Stages
<1>1. /\ a \in Places /\ h \in Places /\ b \in Places /\ c \in Places
      /\ a < h /\ h < b /\ b < c /\ h < c /\ a # b /\ a # h /\ h # b /\ b # c /\ a # c /\ h # c
      /\ \A n \in Places : /\ ~(a < n /\ n < h) /\ ~(h < n /\ n < b) /\ ~(b < n /\ n < c)
                           /\ (h < n /\ n < c => n = b)
  BY KAssumption, PlacesAre DEF Stages, Places
<1>2. /\ Now[a] = In(chan[s-1]) /\ Now[h] = Present(hand[s]) /\ Now[b] = Present(held[s]) /\ Now[c] = In(chan[s])
      /\ Now'[a] = In(chan'[s-1]) /\ Now'[h] = Present(hand'[s]) /\ Now'[b] = Present(held'[s])
      /\ Now'[c] = In(chan'[s])
  <2>1. a = 3 * (s - 1)
    BY DEF Stages
  <2> QED
    BY <1>0, <2>1, NowIs, NowIsNext
<1>3. \A n \in Places \ {a, h, b, c} : Now'[n] = Now[n]
  BY WorkPlaces
<1>4. SUFFICES Sound(Now', 1..accepted) /\ Chans'
  BY DEF InOrder, IInv
<1> HIDE DEF a, h, b, c
\* What comes to channel s is younger than what is in it.
<1>5. \A n \in {h, b} : \A x \in Now[n], y \in In(chan[s]) : y < x
  <2>1. \A n \in {h, b} : n \in Places /\ n < c
    BY <1>1
  <2> QED
    BY <1>0, <1>1, <1>2, <2>1 DEF Sound, Ordered, Older
<1>n. \A x \in Items : Present(x) = {x}
  BY ItemsAreSomething DEF Present
<1>e. Present(None) = {}
  BY DEF Present
<1>6. ASSUME UNCHANGED <<hand, chan>>, held'[s] = held[s] \/ held'[s] = None
      PROVE  Sound(Now', 1..accepted) /\ Chans'
  <2>1. \A n \in Places : Now'[n] \subseteq Now[n]
    BY <1>2, <1>3, <1>6, <1>e
  <2> QED
    BY <1>0, <1>6, <2>1, LossesKeepOrder
<1>7. CASE WorkerStart(s) \/ CheckShutdown(s) \/ CheckPause(s) \/ NoReset(s) \/ ResetStoreRun(s) \/ ResetUnpause(s)
  BY <1>6, <1>7 DEF WorkerStart, CheckShutdown, CheckPause, NoReset, ResetStoreRun, ResetUnpause, channels
<1>8. CASE TakeNothing(s) \/ TakeClosed(s) \/ StopStage(s) \/ StoreStopped(s)
  BY <1>6, <1>8 DEF TakeNothing, TakeClosed, StopStage, StoreStopped, channels
<1>8a. CASE CountInput(s) \/ CountOutput(s) \/ CountDropped(s)
  BY <1>0, <1>6, <1>8a, CountingStep DEF channels
<1>9. CASE ResetStage(s)
  BY <1>0, <1>6, <1>9 DEF ResetStage, channels, WorkerTypeOK
<1>10. CASE TakeItem(s)
  <2>1. /\ chan[s-1] # << >> /\ chan' = [chan EXCEPT ![s-1] = Tail(@)]
        /\ hand'[s] = Head(chan[s-1]) /\ UNCHANGED held
    BY <1>0, <1>10 DEF TakeItem, WorkerTypeOK
  <2>2. /\ Head(chan[s-1]) \in In(chan[s-1])
        /\ \A y \in In(chan[s-1]) : y = Head(chan[s-1]) \/ Head(chan[s-1]) < y
        /\ In(chan'[s-1]) \subseteq In(chan[s-1]) \ {Head(chan[s-1])}
        /\ chan'[s] = chan[s] /\ Chans'
    BY <1>0, <2>1, TakeInOrder
  <2>3. Head(chan[s-1]) \in Items
    BY <1>0, <2>1 DEF WorkerTypeOK
  <2>4. Moved(Now, Now', a, h, Head(chan[s-1]))
    BY <1>1, <1>2, <1>3, <1>n, <2>1, <2>2, <2>3 DEF Moved
  <2> QED
    BY <1>0, <2>2, <2>4, MovesKeepOrder
<1>11. CASE Process(s)
  <2>1. hand[s] \in Items /\ Now[h] = {hand[s]} /\ hand'[s] = None /\ Now'[h] = {}
    <3>1. wpc[s] = "process"
      BY <1>0, <1>11, ProcessStep
    <3>2. hand[s] \in Items /\ hand'[s] = None
      BY <1>0, <1>11, <3>1 DEF Process, InHands, WorkerTypeOK
    <3> QED
      BY <1>2, <1>n, <1>e, <3>2
  <2>2. CASE s \notin Holders
    <3>1. held[s] = None /\ held'[s] = None
      BY <1>0, <1>11, <2>2 DEF Process, InHands
    <3>2. In(chan'[s]) \subseteq In(chan[s]) \union {hand[s]} /\ chan'[s-1] = chan[s-1] /\ Chans'
      <4>1. CASE Filtered(s)
        BY <1>0, <4>1 DEF Filtered, channels
      <4>2. CASE SendOrDrop(s, "process", hand[s])
        BY <1>0, <1>5, <2>1, <4>2, SendOrDropInOrder
      <4> QED
        BY <1>11, <2>2, <4>1, <4>2 DEF Process
    <3>3. Moved(Now, Now', h, c, hand[s])
      BY <1>1, <1>2, <1>3, <1>e, <2>1, <3>1, <3>2 DEF Moved
    <3> QED
      BY <1>0, <3>2, <3>3, MovesKeepOrder
  <2>3. CASE s \in Holders /\ held[s] = None
    <3>1. held'[s] = hand[s] /\ UNCHANGED chan
      BY <1>0, <1>11, <2>3 DEF Process, Filtered, channels, WorkerTypeOK
    <3>2. Moved(Now, Now', h, b, hand[s])
      BY <1>1, <1>2, <1>3, <1>n, <2>1, <3>1 DEF Moved
    <3> QED
      BY <1>0, <3>1, <3>2, MovesKeepOrder
  <2>4. CASE s \in Holders /\ held[s] # None
    <3>1. held[s] \in Items /\ held'[s] = hand[s] /\ SendOrDrop(s, "process", held[s])
      BY <1>0, <1>11, <2>4 DEF Process, WorkerTypeOK
    <3>2. Now[b] = {held[s]} /\ Now'[b] = {hand[s]}
      BY <1>2, <1>n, <2>1, <3>1
    <3>3. In(chan'[s]) \subseteq In(chan[s]) \union {held[s]} /\ chan'[s-1] = chan[s-1] /\ Chans'
      BY <1>0, <1>5, <3>1, <3>2, SendOrDropInOrder
    \* First what is held back moves on, then what is in the hand takes its place.
    <3> DEFINE Between == [n \in Places |-> IF n = b THEN {} ELSE IF n = c THEN Now'[c] ELSE Now[n]]
    <3>4. /\ Between[b] = {} /\ Between[c] = Now'[c]
          /\ \A n \in Places \ {b, c} : Between[n] = Now[n]
      BY <1>1
    <3> HIDE DEF Between
    <3>5. Moved(Now, Between, b, c, held[s])
      BY <1>1, <1>2, <3>2, <3>3, <3>4 DEF Moved
    <3>6. Moved(Between, Now', h, b, hand[s])
      BY <1>1, <1>2, <1>3, <2>1, <3>2, <3>3, <3>4 DEF Moved
    <3>7. Sound(Between, 1..accepted)
      BY <1>0, <3>5, MovesKeepOrder
    <3> QED
      BY <3>3, <3>6, <3>7, MovesKeepOrder
  <2> QED
    BY <2>2, <2>3, <2>4
\* Tick and flush give out what is held back.
<1>12. ASSUME held[s] # None, held'[s] = None, UNCHANGED hand,
              (\E from : SendOrDrop(s, from, held[s])) \/ (Add(s, held[s]) \/ UNCHANGED chan)
       PROVE  Sound(Now', 1..accepted) /\ Chans'
  <2>1. held[s] \in Items /\ Now[b] = {held[s]} /\ Now'[b] = {}
    BY <1>0, <1>2, <1>12, <1>n, <1>e DEF WorkerTypeOK
  <2>2. In(chan'[s]) \subseteq In(chan[s]) \union {held[s]} /\ chan'[s-1] = chan[s-1] /\ Chans'
    <3>1. CASE \E from : SendOrDrop(s, from, held[s])
      BY <1>0, <1>5, <2>1, <3>1, SendOrDropInOrder
    <3>2. CASE Add(s, held[s])
      BY <1>0, <1>5, <2>1, <3>2, AddInOrder
    <3>3. CASE UNCHANGED chan
      BY <1>0, <3>3
    <3> QED
      BY <1>12, <3>1, <3>2, <3>3
  <2>3. Moved(Now, Now', b, c, held[s])
    BY <1>1, <1>2, <1>3, <1>12, <2>1, <2>2 DEF Moved
  <2> QED
    BY <1>0, <2>2, <2>3, MovesKeepOrder
<1>13. CASE Tick(s)
  <2>1. UNCHANGED hand /\ (UNCHANGED <<held, chan>> \/ (/\ held[s] # None /\ SendOrDrop(s, "tick", held[s])
                                                        /\ held' = [held EXCEPT ![s] = None]))
    BY <1>13 DEF Tick, channels
  <2>2. held' = [held EXCEPT ![s] = None] => held'[s] = None
    BY <1>0 DEF WorkerTypeOK
  <2> QED
    BY <1>6, <1>12, <2>1, <2>2
<1>14. CASE Flush(s)
  <2>1. held[s] # None /\ held'[s] = None /\ UNCHANGED hand
    BY <1>0, <1>14 DEF Flush, Step, InHands, WorkerTypeOK
  <2>2. Add(s, held[s]) \/ UNCHANGED chan
    BY <1>14 DEF Flush
  <2> QED
    BY <1>12, <2>1, <2>2
<1>15. CASE Panic(s) \/ Exit(s)
  <2>1. Discard(s-1) /\ UNCHANGED <<hand, held>>
    BY <1>15 DEF Panic, Exit
  <2>2. In(chan'[s-1]) = {} /\ chan'[s] = chan[s] /\ Chans'
    BY <1>0, <2>1, DiscardInOrder
  <2>3. \A n \in Places : Now'[n] \subseteq Now[n]
    BY <1>2, <1>3, <2>1, <2>2
  <2> QED
    BY <1>0, <2>2, <2>3, LossesKeepOrder
<1> QED
  BY <1>7, <1>8, <1>8a, <1>9, <1>10, <1>11, <1>13, <1>14, <1>15 DEF Work

LEMMA SamePlaces ==
  ASSUME TypeOK, TypeOK', UNCHANGED <<hand, held>>, NEW n \in Places,
         \A i \in Channels : n = 3 * i => chan'[i] = chan[i], n = 3 * K + 1 => delivered' = delivered
  PROVE  Now'[n] = Now[n]
BY PlaceIs, NowIs, NowIsNext

LEMMA OrderKeeps ==
  ASSUME IInv, Next
  PROVE  InOrder'
<1>0. /\ TypeOK /\ TypeOK' /\ WorkerTypeOK /\ Sound(Now, 1..accepted) /\ Increasing(delivered)
      /\ \A i \in Channels : Increasing(chan[i])
  BY OwnerTypesKeep DEF IInv, InOrder, TypeOK
<1>k. K \in Nat \ {0} /\ 0 \in Channels /\ K \in Channels /\ \A i \in Channels : i \in 0..K
  BY KAssumption DEF Channels
<1>1. CASE UNCHANGED <<hand, held, chan, accepted, delivered>>
  <2>1. \A n \in Places : Now'[n] = Now[n]
    BY <1>0, <1>1, SamePlaces
  <2>2. Sound(Now', 1..accepted)
    BY <1>0, <2>1, LossesKeepOrder
  <2> QED
    BY <1>0, <1>1, <2>2 DEF InOrder
<1>2. CASE Send
  <2>1. Add(0, accepted + 1) /\ accepted' = accepted + 1 /\ UNCHANGED <<hand, held, delivered>>
    BY <1>2 DEF Send, threads
  <2>2. accepted + 1 \in Items /\ accepted \in Nat
    BY <1>0, <1>2, ItemsAssumption DEF Send, TypeOK, Items
  <2>3. 3 * 0 = 0 /\ 0 \in Places
    BY <1>k, PlacesAre
  <2>4. Now[0] = In(chan[0]) /\ Now'[0] = In(chan'[0])
    BY <1>0, <1>k, <2>3, NowIs, NowIsNext
  <2>5. \A y \in In(chan[0]) : y < accepted + 1
    <3>1. In(chan[0]) \subseteq 1..accepted
      BY <1>0, <2>3, <2>4 DEF Sound
    <3> QED
      BY <2>2, <3>1
  <2>6. /\ In(chan'[0]) = In(chan[0]) \union {accepted + 1} /\ \A i \in Channels \ {0} : chan'[i] = chan[i]
        /\ \A i \in Channels : Increasing(chan'[i])
    BY <1>0, <1>k, <2>1, <2>2, <2>5, AddInOrder
  <2>7. ASSUME NEW n \in Places \ {0} PROVE Now'[n] = Now[n]
    <3>1. \A i \in Channels : n = 3 * i => i # 0
      BY <2>3, <2>7
    <3> QED
      BY <1>0, <2>1, <2>6, <3>1, SamePlaces
  <2>8. Now'[0] \subseteq Now[0] \union {accepted + 1} /\ \A n \in Places \ {0} : Now'[n] \subseteq Now[n]
    BY <2>4, <2>6, <2>7
  <2>9. Sound(Now', 1..accepted + 1)
    BY <1>0, <2>2, <2>8, EntersInOrder
  <2> QED
    BY <1>0, <2>1, <2>6, <2>9 DEF InOrder
<1>3. CASE Recv
  <2> DEFINE x == Head(chan[K])
  <2>1. /\ chan[K] # << >> /\ chan' = [chan EXCEPT ![K] = Tail(@)] /\ delivered' = Append(delivered, x)
        /\ UNCHANGED <<hand, held, accepted>>
    BY <1>3 DEF Recv, threads
  <2>2. /\ x \in In(chan[K]) /\ \A y \in In(chan[K]) : y = x \/ x < y
        /\ In(chan'[K]) \subseteq In(chan[K]) \ {x}
        /\ \A i \in Channels \ {K} : chan'[i] = chan[i]
        /\ \A i \in Channels : Increasing(chan'[i])
    BY <1>0, <1>k, <2>1, TakeInOrder
  <2>3. x \in Items
    BY <1>0, <1>k, <2>1 DEF WorkerTypeOK
  <2> HIDE DEF x
  <2>4. 3 * K \in Places /\ 3 * K + 1 \in Places /\ 3 * K < 3 * K + 1
        /\ \A n \in Places : ~(3 * K < n /\ n < 3 * K + 1)
    BY <1>k, PlacesAre DEF Places
  <2>5. /\ Now[3 * K] = In(chan[K]) /\ Now'[3 * K] = In(chan'[K])
        /\ Now[3 * K + 1] = In(delivered) /\ Now'[3 * K + 1] = In(delivered')
    BY <1>0, <1>k, NowIs, NowIsNext
  <2>6. \A y \in In(delivered) : y < x
    BY <1>0, <2>2, <2>4, <2>5 DEF Sound, Ordered, Older
  <2>7. In(delivered') = In(delivered) \union {x} /\ Increasing(delivered')
    BY <1>0, <2>1, <2>3, <2>6, AppendInOrder DEF TypeOK
  <2>8. ASSUME NEW n \in Places \ {3 * K, 3 * K + 1} PROVE Now'[n] = Now[n]
    <3>1. \A i \in Channels : n = 3 * i => i # K
      BY <2>8
    <3> QED
      BY <1>0, <2>1, <2>2, <2>8, <3>1, SamePlaces
  <2>9. Moved(Now, Now', 3 * K, 3 * K + 1, x)
    BY <2>2, <2>4, <2>5, <2>7, <2>8 DEF Moved
  <2>10. Sound(Now', 1..accepted)
    BY <1>0, <2>9, MovesKeepOrder
  <2> QED
    BY <2>1, <2>2, <2>7, <2>10 DEF InOrder
<1>4. CASE Release
  <2>1. UNCHANGED <<hand, held, accepted, delivered>> /\ (UNCHANGED chan \/ Discard(K))
    BY <1>4 DEF Release, threads, channels
  <2>2. CASE Discard(K)
    <3>1. In(chan'[K]) = {} /\ \A i \in Channels \ {K} : chan'[i] = chan[i]
      BY <1>0, <1>k, <2>2, DiscardInOrder
    <3>2. \A i \in Channels : Increasing(chan'[i])
      BY <1>0, <1>k, <2>2, DiscardInOrder
    <3>3. ASSUME NEW n \in Places PROVE Now'[n] \subseteq Now[n]
      <4>1. CASE n = 3 * K
        BY <1>0, <1>k, <3>1, <4>1, NowIs, NowIsNext
      <4>2. CASE n # 3 * K
        <5>1. \A i \in Channels : n = 3 * i => i # K
          BY <4>2
        <5> QED
          BY <1>0, <2>1, <3>1, <5>1, SamePlaces
      <4> QED
        BY <4>1, <4>2
    <3>4. Sound(Now', 1..accepted)
      BY <1>0, <3>3, LossesKeepOrder
    <3> QED
      BY <1>0, <2>1, <3>2, <3>4 DEF InOrder
  <2> QED
    BY <1>1, <2>1, <2>2
<1>5. CASE Quietly
  BY <1>1, <1>5, QuietOnes DEF threads, channels
<1>6. CASE CloneSenderDropped \/ CommandStage \/ FlagStage \/ EndShutdown
  BY <1>1, <1>6 DEF CloneSenderDropped, CommandStage, FlagStage, EndShutdown, threads, channels, ends
<1>7. CASE \E s \in Stages : WorkerStep(s)
  BY <1>0, <1>7, WorkInOrder DEF WorkerStep, ends
<1> QED
  BY <1>2, <1>3, <1>4, <1>5, <1>6, <1>7 DEF Next, Calls, OwnerStep, Quietly

---------------------------------------------------------------------------
(* The invariant holds                                                     *)

LEMMA InvInit == Init => IInv
<1> SUFFICES ASSUME Init PROVE IInv
  OBVIOUS
<1>1. WorkerInv
  BY WorkerInvInit DEF Init
<1>2. TypeOK
  <2>1. /\ inputTx \subseteq HoldersOf("input") /\ outputRx \subseteq HoldersOf("output")
        /\ pstate \in {"Running", "Stopping", "Stopped"} /\ call \in Methods \union {"none", "release", "gone"}
        /\ at \in 1 .. K+1 /\ handles \subseteq Stages /\ accepted \in 0..MaxItems /\ delivered \in Seq(Items)
    BY KAssumption, ItemsAssumption DEF Init
  <2>2. half \in BOOLEAN /\ dropping \in BOOLEAN /\ timedOut \in BOOLEAN
    BY DEF Init
  <2>3. calls \in [Methods -> Nat]
    BY DEF Init
  <2> QED
    BY <1>1, <2>1, <2>2, <2>3 DEF TypeOK, WorkerInv
<1>3. Turns /\ Joined /\ StoppedIsLast
  BY DEF Init, WorkerInit, Turns, Joined, StoppedIsLast
<1>4. Balanced
  <2>1. ASSUME NEW i \in Channels PROVE ChannelBalance(i)
    <3>1. Rest(i) = 0
      BY <2>1 DEF Init, WorkerInit, Rest
    <3>2. SentInto(i) = 0 /\ TakenFrom(i) = 0
      BY <2>1, KAssumption DEF Init, WorkerInit, SentInto, TakenFrom, PutOut, Took, Owed, Channels, Stages
    <3> QED
      BY <3>1, <3>2 DEF ChannelBalance
  <2>2. ASSUME NEW s \in Stages PROVE StageBalance(s)
    BY <2>2 DEF Init, WorkerInit, StageBalance, Size, Took, PutOut, GaveUp, Owed
  <2> QED
    BY <2>1, <2>2 DEF Init, WorkerInit, Balanced
<1>5. InOrder
  <2>1. /\ \A i \in Channels : chan[i] = << >>
        /\ \A s \in Stages : hand[s] = None /\ held[s] = None
        /\ delivered = << >>
    BY DEF Init, WorkerInit
  <2>2. In(<< >>) = {} /\ Increasing(<< >>) /\ Present(None) = {}
    BY DEF In, Increasing, Present
  <2>3. \A n \in Places : Now[n] = {}
    BY <1>2, <2>1, <2>2, PlaceIs, NowIs
  <2> QED
    BY <2>1, <2>2, <2>3 DEF InOrder, Sound, Ordered, Older
<1> QED
  BY <1>1, <1>2, <1>3, <1>4, <1>5 DEF IInv

LEMMA Stutters ==
  ASSUME IInv, UNCHANGED vars
  PROVE  IInv'
<1>1. UNCHANGED <<threads, control, metrics, channels, inputTx, outputRx, late, owner, accepted, delivered>>
  BY DEF vars, workerVars
<1>2. WorkerInv'
  BY <1>1, EndsKeep DEF IInv
<1>3. TypeOK'
  BY <1>1, <1>2 DEF IInv, TypeOK, WorkerInv, owner
<1>4. Turns' /\ Joined' /\ StoppedIsLast'
  BY <1>1 DEF IInv, Turns, Joined, StoppedIsLast, threads, control, owner
<1>5. Balanced'
  <2>1. \A i \in Channels : ChannelBalance(i) => ChannelBalance(i)'
    BY <1>1, ChannelsStayBalanced DEF ChannelBalance, Rest, channels
  <2>2. \A s \in Stages : StageBalance(s) => StageBalance(s)'
    BY <1>1, StagesStayBalanced
  <2> QED
    BY <1>1, <2>1, <2>2 DEF IInv, Balanced, control, owner
<1>6. InOrder'
  <2>1. Now' = Now
    BY <1>1 DEF Now, threads, channels
  <2> QED
    BY <1>1, <2>1 DEF IInv, InOrder, channels
<1> QED
  BY <1>2, <1>3, <1>4, <1>5, <1>6 DEF IInv

LEMMA Invariance == Spec => []IInv
<1>1. Init => IInv
  BY InvInit
<1>2. IInv /\ [Next]_vars => IInv'
  <2> SUFFICES ASSUME IInv, [Next]_vars PROVE IInv'
    OBVIOUS
  <2>1. CASE Next
    BY <2>1, WorkersKeep, OwnerTypesKeep, JoinedKeeps, StoppedKeeps, BalancedKeeps, OrderKeeps DEF IInv
  <2>2. CASE UNCHANGED vars
    BY <2>2, Stutters
  <2> QED
    BY <2>1, <2>2
<1> QED
  BY <1>1, <1>2, PTL DEF Spec

---------------------------------------------------------------------------
(* What follows                                                            *)

\* The types of the variables: whatever the calls and their order, no channel holds
\* more than its capacity.
THEOREM TypeCorrect == Spec => []TypeOK
<1>1. IInv => TypeOK
  BY DEF IInv
<1> QED
  BY <1>1, Invariance, PTL

\* Items keep the order in which they entered, in the channels, at the stages and
\* at the output, whatever the stages filter, hold back, drop, flush or lose.
THEOREM ItemsKeepOrder == Spec => []OrderKept
<1>1. ASSUME IInv PROVE OrderKept
  <2>0. /\ TypeOK /\ Increasing(delivered) /\ \A i \in Channels : Increasing(chan[i])
        /\ \A m, n \in Places : m < n => Older(Now[n], Now[m])
    BY <1>1 DEF IInv, InOrder, Sound, Ordered
  <2>k. /\ K \in Nat /\ (\A i \in Channels : i \in 0..K) /\ (\A s \in Stages : s \in 1..K)
    BY KAssumption DEF Channels, Stages
  <2>1. ASSUME NEW i \in Channels PROVE Older(In(delivered), In(chan[i]))
    <3>1. 3 * i < 3 * K + 1
      BY <2>k
    <3> QED
      BY <2>0, <3>1, PlacesAre, NowIs
  <2>2. ASSUME NEW s \in Stages PROVE Older(Present(held[s]), Present(hand[s]))
    <3>1. 3 * s - 2 < 3 * s - 1
      BY <2>k
    <3> QED
      BY <2>0, <3>1, PlacesAre, NowIs
  <2>3. ASSUME NEW s \in Stages PROVE Older(In(delivered), Inside(s))
    <3>1. 3 * s - 2 < 3 * K + 1 /\ 3 * s - 1 < 3 * K + 1
      BY <2>k
    <3>2. Older(In(delivered), Present(hand[s])) /\ Older(In(delivered), Present(held[s]))
      BY <2>0, <3>1, PlacesAre, NowIs
    <3> QED
      BY <3>2 DEF Older, Inside
  <2>4. ASSUME NEW s \in Stages, NEW t \in Stages, t < s PROVE Older(Inside(s), Inside(t))
    <3>1. 3 * t - 2 < 3 * s - 2 /\ 3 * t - 2 < 3 * s - 1 /\ 3 * t - 1 < 3 * s - 2 /\ 3 * t - 1 < 3 * s - 1
      BY <2>k, <2>4
    <3>2. /\ Older(Present(hand[s]), Present(hand[t])) /\ Older(Present(hand[s]), Present(held[t]))
          /\ Older(Present(held[s]), Present(hand[t])) /\ Older(Present(held[s]), Present(held[t]))
      BY <2>0, <3>1, PlacesAre, NowIs
    <3> QED
      BY <3>2 DEF Older, Inside
  <2>5. ASSUME NEW s \in Stages, NEW i \in Channels, i >= s PROVE Older(In(chan[i]), Inside(s))
    <3>1. 3 * s - 2 < 3 * i /\ 3 * s - 1 < 3 * i
      BY <2>k, <2>5
    <3>2. Older(In(chan[i]), Present(hand[s])) /\ Older(In(chan[i]), Present(held[s]))
      BY <2>0, <3>1, PlacesAre, NowIs
    <3> QED
      BY <3>2 DEF Older, Inside
  <2>6. ASSUME NEW s \in Stages, NEW i \in Channels, ~(i >= s) PROVE Older(Inside(s), In(chan[i]))
    <3>1. 3 * i < 3 * s - 2 /\ 3 * i < 3 * s - 1
      BY <2>k, <2>6
    <3>2. Older(Present(hand[s]), In(chan[i])) /\ Older(Present(held[s]), In(chan[i]))
      BY <2>0, <3>1, PlacesAre, NowIs
    <3> QED
      BY <3>2 DEF Older, Inside
  <2>7. ASSUME NEW i \in Channels, NEW j \in Channels, j < i PROVE Older(In(chan[i]), In(chan[j]))
    <3>1. 3 * j < 3 * i
      BY <2>k, <2>7
    <3> QED
      BY <2>0, <3>1, PlacesAre, NowIs
  <2> QED
    BY <2>0, <2>1, <2>2, <2>3, <2>4, <2>5, <2>6, <2>7 DEF OrderKept
<1> QED
  BY <1>1, Invariance, PTL

\* As long as nobody resets them the counters of neighbouring stages agree, in every
\* interleaving, but for the one item each thread has moved and is about to count: a
\* stage never shows more than one item above what the stage before it shows, and never
\* more put out and dropped than taken in.
THEOREM CountersBalance == Spec => []FlowBalance
<1>1. ASSUME IInv PROVE FlowBalance
  <2>1. ASSUME calls["reset"] = 0, NEW i \in Channels
        PROVE  SentInto(i) = TakenFrom(i) + Len(chan[i]) + lost[i]
    <3>1. SentInto(i) = TakenFrom(i) + (Len(chan[i]) + lost[i])
      BY <1>1, <2>1 DEF IInv, Balanced, ChannelBalance, Rest
    <3>2. Len(chan[i]) \in Nat /\ lost[i] \in Nat
      <4>1. chan[i] \in Seq(Items) /\ lost[i] \in Nat
        BY <1>1, <2>1 DEF IInv, TypeOK, WorkerTypeOK
      <4> QED
        BY <4>1
    <3>3. TakenFrom(i) \in Nat
      <4>1. i # K => i + 1 \in Stages
        BY KAssumption DEF Channels, Stages
      <4>2. i # K => Took(i+1) \in Nat
        BY <1>1, <4>1, CountTypes DEF IInv, TypeOK
      <4>3. Len(delivered) \in Nat
        BY <1>1 DEF IInv, TypeOK
      <4> QED
        BY <4>2, <4>3 DEF TakenFrom
    <3> QED
      BY <3>1, <3>2, <3>3
  <2>2. ASSUME NEW s \in Stages PROVE Cardinality(Inside(s)) = Size(held[s]) + Size(hand[s])
    <3>0. hand[s] \in Items \union {None} /\ held[s] \in Items \union {None}
      BY <1>1 DEF IInv, TypeOK, WorkerTypeOK
    <3>a. Older(Present(held[s]), Present(hand[s]))
      <4>1. 3 * s - 2 < 3 * s - 1
        BY KAssumption DEF Stages
      <4> QED
        BY <1>1, <4>1, PlacesAre, NowIs DEF IInv, InOrder, Sound, Ordered
    <3>b. ASSUME NEW x PROVE Cardinality({x}) = 1 /\ IsFiniteSet({x})
      BY FS_Singleton
    <3>1. CASE held[s] = None /\ hand[s] = None
      BY <3>1, FS_EmptySet DEF Inside, Present, Size
    <3>2. CASE held[s] # None /\ hand[s] = None
      <4>1. Inside(s) = {held[s]}
        BY <3>2 DEF Inside, Present
      <4>2. Cardinality(Inside(s)) = 1
        BY <3>b, <4>1
      <4> QED
        BY <3>2, <4>2 DEF Size
    <3>3. CASE held[s] = None /\ hand[s] # None
      <4>1. Inside(s) = {hand[s]}
        BY <3>3 DEF Inside, Present
      <4>2. Cardinality(Inside(s)) = 1
        BY <3>b, <4>1
      <4> QED
        BY <3>3, <4>2 DEF Size
    <3>4. CASE held[s] # None /\ hand[s] # None
      <4>1. Inside(s) = {held[s]} \union {hand[s]}
        BY <3>4 DEF Inside, Present
      <4>2. held[s] \in Int /\ hand[s] \in Int /\ held[s] < hand[s]
        BY <3>0, <3>a, <3>4, ItemsAssumption DEF Older, Present, Items
      <4>3. hand[s] \notin {held[s]}
        BY <4>2
      <4>4. Cardinality(Inside(s)) = 2
        <5>1. Cardinality({held[s]} \union {hand[s]}) = Cardinality({held[s]}) + 1
          BY <3>b, <4>3, FS_AddElement
        <5>2. Cardinality(Inside(s)) = Cardinality({held[s]}) + 1
          BY <4>1, <5>1
        <5>3. Cardinality({held[s]}) = 1
          BY <3>b
        <5> QED
          BY <5>2, <5>3
      <4> QED
        BY <3>4, <4>4 DEF Size
    <3> QED
      BY <3>1, <3>2, <3>3, <3>4
  <2>3. ASSUME calls["reset"] = 0, NEW s \in Stages
        PROVE  Took(s) = PutOut(s) + GaveUp(s) + Cardinality(Inside(s)) + (IF s \in Holders THEN 0 ELSE filtered[s])
    <3>1. Took(s) = PutOut(s) + GaveUp(s) + Size(held[s]) + Size(hand[s]) + (IF s \in Holders THEN 0 ELSE filtered[s])
      BY <1>1, <2>3 DEF IInv, Balanced, StageBalance
    <3>2. PutOut(s) \in Nat /\ GaveUp(s) \in Nat /\ filtered[s] \in Nat
      BY <1>1, CountTypes DEF IInv, TypeOK
    <3>3. Size(held[s]) \in Nat /\ Size(hand[s]) \in Nat
      BY DEF Size
    <3>4. (IF s \in Holders THEN 0 ELSE filtered[s]) \in Nat
      BY <3>2
    <3> QED
      BY <2>2, <3>1, <3>2, <3>3, <3>4
  \* What a stage took in the stage before it put out, each but for one item.
  <2>4. ASSUME calls["reset"] = 0, NEW s \in Stages \ {K} PROVE inputs[s+1] <= outputs[s] + 1
    <3>1. s + 1 \in Stages /\ s \in Channels /\ s # 0
      BY KAssumption DEF Stages, Channels
    <3>2. PutOut(s) = Took(s+1) + Rest(s)
      BY <1>1, <2>4, <3>1 DEF IInv, Balanced, ChannelBalance, SentInto, TakenFrom
    <3>3. WorkerTypeOK
      BY <1>1 DEF IInv, TypeOK
    <3>4. Rest(s) \in Nat /\ outputs[s] \in Nat /\ inputs[s+1] \in Nat
      BY <3>1, <3>3, CountTypes
    <3>5. PutOut(s) <= outputs[s] + 1 /\ inputs[s+1] <= Took(s+1) /\ Took(s+1) \in Nat /\ PutOut(s) \in Nat
      BY <3>4 DEF PutOut, Took, Owed
    <3> QED
      BY <3>2, <3>4, <3>5
  \* A stage that has yet to count an item it took has it in its hand.
  <2>5. ASSUME calls["reset"] = 0, NEW s \in Stages PROVE outputs[s] + drops[s] <= inputs[s]
    <3>1. Took(s) = PutOut(s) + GaveUp(s) + Size(held[s]) + Size(hand[s]) + (IF s \in Holders THEN 0 ELSE filtered[s])
      BY <1>1, <2>5 DEF IInv, Balanced, StageBalance
    <3>2. /\ inputs[s] \in Nat /\ outputs[s] \in Nat /\ drops[s] \in Nat
          /\ (IF s \in Holders THEN 0 ELSE filtered[s]) \in Nat
      BY <1>1 DEF IInv, TypeOK, WorkerTypeOK
    <3>3. Size(held[s]) \in Nat /\ Size(hand[s]) \in Nat
      BY DEF Size
    <3>4. outputs[s] <= PutOut(s) /\ drops[s] <= GaveUp(s) /\ PutOut(s) \in Nat /\ GaveUp(s) \in Nat
      BY <3>2 DEF PutOut, GaveUp, Owed
    <3>5. Took(s) <= inputs[s] + Size(hand[s])
      <4>1. wpc[s] = "countInput" => hand[s] # None
        BY <1>1 DEF IInv, WorkerInv, InHands
      <4> QED
        BY <3>2, <4>1 DEF Took, Owed, Size
    <3>6. Took(s) \in Nat
      BY <3>2 DEF Took, Owed
    <3> QED
      BY <3>1, <3>2, <3>3, <3>4, <3>5, <3>6
  <2> QED
    BY <2>1, <2>3, <2>4, <2>5 DEF FlowBalance
<1> QED
  BY <1>1, Invariance, PTL

\* Items are lost with a channel only where someone gave up receiving from it.
THEOREM LossesExplained == Spec => []LossHasACause
<1>1. IInv => LossHasACause
  BY DEF IInv, WorkerInv, LossCaused, Cause, LossHasACause
<1> QED
  BY <1>1, Invariance, PTL

\* A stage that was told to shut down takes one more item at most.
THEOREM OneMoreAtMost == Spec => []ShutdownTakesOneMore
<1>1. IInv => ShutdownTakesOneMore
  BY DEF IInv, WorkerInv, OneMore, ShutdownTakesOneMore
<1> QED
  BY <1>1, Invariance, PTL

\* A stage that says Stopped has flushed, and a pipeline that says so, when no join
\* failed, has joined every thread and has only results left in its channels.
THEOREM StopIsComplete == Spec => []ShutdownIsComplete
<1>1. ASSUME IInv PROVE ShutdownIsComplete
  <2>1. \A s \in Stages : state[s] = "Stopped" => wpc[s] \in {"return", "exited"} /\ hand[s] = None /\ held[s] = None
    BY <1>1 DEF IInv, StoppedIsLast, WorkerInv, InHands
  <2>2. pstate = "Stopped" /\ ~timedOut => \A s \in Stages : wpc[s] = "exited"
    BY <1>1 DEF IInv, Joined
  <2>3. ASSUME \A s \in Stages : wpc[s] = "exited", NEW i \in Channels \ {K} PROVE chan[i] = << >>
    <3>1. i + 1 \in Stages
      BY KAssumption DEF Channels, Stages
    <3>2. ~ReceiverAlive(i)
      BY <2>3, <3>1 DEF ReceiverAlive, Ended
    <3> QED
      BY <1>1, <3>2 DEF IInv, WorkerInv, NothingUnread
  <2> QED
    BY <2>1, <2>2, <2>3 DEF ShutdownIsComplete
<1> QED
  BY <1>1, Invariance, PTL
=============================================================================
