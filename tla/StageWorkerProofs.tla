-------------------------- MODULE StageWorkerProofs --------------------------
(***************************************************************************)
(* What holds of the workers of StageWorker whoever owns them, for any     *)
(* number of stages of whatever kinds: lemmas about one step of a worker,  *)
(* of the two ends, of the control words and of the channel ends, from     *)
(* which the proofs about MultiStagePipeline and StageHandle are made.     *)
(***************************************************************************)
EXTENDS StageWorker, TLAPS

---------------------------------------------------------------------------
(* The invariant of the workers                                            *)

\* What a stage has in its hands goes with where it is in stage_worker; only a
\* holder keeps anything back, and nothing once it has flushed.
InHands ==
  \A s \in Stages :
    /\ hand[s] # None <=> wpc[s] \in {"countInput", "process", "panicked"}
    /\ wpc[s] = "flush" => held[s] # None
    /\ wpc[s] \in {"countFlush", "stopped", "return", "exited"} => held[s] = None
    /\ s \notin Holders => held[s] = None

\* A stage that took an item after its shutdown is on its way from that item to its end.
OneMore ==
  \A s \in Stages :
    /\ late[s] <= 1
    /\ late[s] > 0 => /\ shutdown[s]
                      /\ wpc[s] \in {"countInput", "process", "countOutput", "countDropped", "loop",
                                     "stop", "flush", "countFlush", "stopped", "return",
                                     "exited", "panicked"}

\* Nobody puts anything into a channel without a receiver.
NothingUnread == \A i \in Channels : ~ReceiverAlive(i) => chan[i] = << >>

\* A stage that ends without having been told to has drained a closed channel.
Ending == {"stop", "flush", "countFlush", "stopped", "return", "exited"}
EndsDrained ==
  \A s \in Stages : wpc[s] \in Ending /\ ~shutdown[s] => chan[s-1] = << >> /\ ~SenderAlive(s-1)

\* Why the items of channel i may be lost.
Cause(i) == IF i = K THEN outputRx = {} ELSE shutdown[i+1] \/ wpc[i+1] = "panicked"
LossCaused == \A i \in Channels : lost[i] > 0 => Cause(i)

WorkerInv == WorkerTypeOK /\ InHands /\ OneMore /\ NothingUnread /\ EndsDrained /\ LossCaused

LEMMA WorkerInvInit == WorkerInit => WorkerInv
<1> SUFFICES ASSUME WorkerInit PROVE WorkerInv
  OBVIOUS
<1>1. WorkerTypeOK
  BY CapAssumption DEF WorkerInit, WorkerTypeOK, WorkerPcs
<1> QED
  BY <1>1 DEF WorkerInit, WorkerInv, InHands, OneMore, NothingUnread, EndsDrained, Ending, LossCaused

---------------------------------------------------------------------------
(* Types                                                                   *)

LEMMA SendTypes ==
  ASSUME WorkerTypeOK, NEW i \in Channels, NEW x \in Items, Room(i), Add(i, x)
  PROVE  chan' \in [Channels -> Seq(Items)] /\ \A j \in Channels : Len(chan'[j]) <= Cap
<1>1. Len(chan[i]) + 1 <= Cap
  BY CapAssumption DEF WorkerTypeOK, Room
<1>2. chan[i] \in Seq(Items) /\ Append(chan[i], x) \in Seq(Items) /\ Len(Append(chan[i], x)) = Len(chan[i]) + 1
  BY DEF WorkerTypeOK
<1> QED
  BY <1>1, <1>2 DEF WorkerTypeOK, Add

LEMMA TakeTypes ==
  ASSUME WorkerTypeOK, NEW i \in Channels, chan[i] # << >>, chan' = [chan EXCEPT ![i] = Tail(@)]
  PROVE  /\ chan' \in [Channels -> Seq(Items)] /\ \A j \in Channels : Len(chan'[j]) <= Cap
         /\ Head(chan[i]) \in Items
<1>1. chan[i] \in Seq(Items) /\ Len(chan[i]) <= Cap
  BY DEF WorkerTypeOK
<1>2. /\ Tail(chan[i]) \in Seq(Items) /\ Len(Tail(chan[i])) = Len(chan[i]) - 1
      /\ Head(chan[i]) \in Items /\ Len(chan[i]) \in Nat
  BY <1>1
<1> QED
  BY <1>1, <1>2, CapAssumption DEF WorkerTypeOK

LEMMA DiscardTypes ==
  ASSUME WorkerTypeOK, NEW i \in Channels, Discard(i)
  PROVE  /\ chan' \in [Channels -> Seq(Items)] /\ \A j \in Channels : Len(chan'[j]) <= Cap
         /\ lost' \in [Channels -> Nat]
BY CapAssumption DEF WorkerTypeOK, Discard

LEMMA SendOrDropTypes ==
  ASSUME WorkerTypeOK, NEW s \in Stages, NEW from, NEW x \in Items, SendOrDrop(s, from, x)
  PROVE  /\ chan' \in [Channels -> Seq(Items)] /\ \A j \in Channels : Len(chan'[j]) <= Cap
         /\ lost' \in [Channels -> Nat]
         /\ wpc' \in [Stages -> WorkerPcs]
<1>1. s \in Channels
  BY KAssumption DEF Stages, Channels
<1>2. CASE Room(s) /\ Step(s, from, "countOutput") /\ Add(s, x) /\ UNCHANGED lost
  <2>1. chan' \in [Channels -> Seq(Items)] /\ \A j \in Channels : Len(chan'[j]) <= Cap
    BY <1>1, <1>2, SendTypes
  <2>2. lost' \in [Channels -> Nat] /\ wpc' \in [Stages -> WorkerPcs]
    BY <1>2 DEF WorkerTypeOK, WorkerPcs, Step
  <2> QED
    BY <2>1, <2>2
<1>3. CASE ~Room(s) /\ Step(s, from, "countDropped") /\ UNCHANGED channels
  BY <1>3 DEF WorkerTypeOK, channels, WorkerPcs, Step
<1> QED
  BY <1>2, <1>3 DEF SendOrDrop

LEMMA WorkTypes ==
  ASSUME WorkerInv, NEW s \in Stages, Work(s)
  PROVE  WorkerTypeOK'
<1> USE DEF WorkerInv
<1>0. s \in Channels /\ s - 1 \in Channels
  BY KAssumption DEF Stages, Channels
<1>1. CASE WorkerStart(s) \/ CheckShutdown(s) \/ CheckPause(s) \/ NoReset(s)
  BY <1>1 DEF WorkerStart, CheckShutdown, CheckPause, NoReset, Step, WorkerTypeOK, WorkerPcs,
              control, metrics, channels
<1>2. CASE ResetStage(s)
  BY <1>2 DEF ResetStage, Step, WorkerTypeOK, WorkerPcs, control, channels
<1>a. CASE ResetStoreRun(s)
  BY <1>a DEF ResetStoreRun, StoreCommand, Step, WorkerTypeOK, WorkerPcs, metrics, channels
<1>b. CASE ResetUnpause(s)
  BY <1>b DEF ResetUnpause, StoreFlag, Step, WorkerTypeOK, WorkerPcs, metrics, channels
<1>3. CASE TakeItem(s)
  <2>1. /\ chan' \in [Channels -> Seq(Items)] /\ \A j \in Channels : Len(chan'[j]) <= Cap
        /\ Head(chan[s-1]) \in Items
    BY <1>0, <1>3, TakeTypes DEF TakeItem
  <2>2. late' \in [Stages -> Nat]
    BY <1>3 DEF TakeItem, Count, WorkerTypeOK
  <2>3. wpc' \in [Stages -> WorkerPcs]
    BY <1>3 DEF TakeItem, Step, WorkerTypeOK, WorkerPcs
  <2>4. hand' \in [Stages -> Items \union {None}]
    BY <1>3, <2>1 DEF TakeItem, WorkerTypeOK
  <2>5. UNCHANGED <<held, control, metrics, lost>>
    BY <1>3 DEF TakeItem
  <2> QED
    BY <2>1, <2>2, <2>3, <2>4, <2>5 DEF WorkerTypeOK, control, metrics
<1>3a. CASE CountInput(s) \/ CountOutput(s) \/ CountDropped(s)
  <2>1. inputs' \in [Stages -> Nat] /\ outputs' \in [Stages -> Nat] /\ drops' \in [Stages -> Nat]
    <3>1. /\ inputs' = inputs \/ inputs' = Count(inputs, s)
          /\ outputs' = outputs \/ outputs' = Count(outputs, s)
          /\ drops' = drops \/ drops' = Count(drops, s)
      BY <1>3a DEF CountInput, CountOutput, CountDropped
    <3>2. ASSUME NEW f \in [Stages -> Nat] PROVE Count(f, s) \in [Stages -> Nat]
      BY DEF Count
    <3> QED
      BY <3>1, <3>2 DEF WorkerTypeOK
  <2>2. wpc' \in [Stages -> WorkerPcs]
    BY <1>3a DEF CountInput, CountOutput, CountDropped, Step, WorkerTypeOK, WorkerPcs
  <2>3. UNCHANGED <<hand, held, control, filtered, channels, late>>
    BY <1>3a DEF CountInput, CountOutput, CountDropped
  <2> QED
    BY <2>1, <2>2, <2>3 DEF WorkerTypeOK, control, channels
<1>4. CASE TakeNothing(s) \/ TakeClosed(s) \/ StopStage(s) \/ StoreStopped(s)
  BY <1>4 DEF TakeNothing, TakeClosed, StopStage, StoreStopped, Step, WorkerTypeOK, WorkerPcs,
              Ended, control, metrics, channels
<1>5. CASE Process(s)
  <2>2. \/ Filtered(s)
        \/ SendOrDrop(s, "process", held[s]) /\ held[s] # None /\ UNCHANGED filtered
        \/ SendOrDrop(s, "process", hand[s]) /\ UNCHANGED filtered
    BY <1>5 DEF Process
  <2>0. wpc[s] = "process"
    BY <2>2 DEF Filtered, SendOrDrop, Step
  <2>1. hand[s] \in Items /\ (held[s] = None \/ held[s] \in Items)
    BY <2>0 DEF WorkerTypeOK, InHands
  <2>3. /\ chan' \in [Channels -> Seq(Items)] /\ \A j \in Channels : Len(chan'[j]) <= Cap
        /\ lost' \in [Channels -> Nat] /\ wpc' \in [Stages -> WorkerPcs]
        /\ filtered' \in [Stages -> Nat]
    <3>1. CASE Filtered(s)
      BY <3>1 DEF Filtered, Count, WorkerTypeOK, channels, Step, WorkerPcs
    <3>2. CASE SendOrDrop(s, "process", held[s]) /\ held[s] # None /\ UNCHANGED filtered
      BY <2>1, <3>2, SendOrDropTypes DEF WorkerTypeOK
    <3>3. CASE SendOrDrop(s, "process", hand[s]) /\ UNCHANGED filtered
      BY <2>1, <3>3, SendOrDropTypes DEF WorkerTypeOK
    <3> QED
      BY <2>2, <3>1, <3>2, <3>3
  <2>4. held' \in [Stages -> Items \union {None}]
    <3>1. held' = held \/ held' = [held EXCEPT ![s] = hand[s]]
      BY <1>5 DEF Process
    <3> QED
      BY <2>1, <3>1 DEF WorkerTypeOK
  <2> QED
    BY <1>5, <2>1, <2>3, <2>4 DEF Process, WorkerTypeOK, control
<1>6. CASE Panic(s) \/ Exit(s)
  BY <1>0, <1>6, DiscardTypes DEF Panic, Exit, Step, WorkerTypeOK, WorkerPcs, Ended, control, metrics
<1>7. CASE Tick(s)
  <2>1. CASE Step(s, "tick", "loop") /\ UNCHANGED <<held, channels>>
    BY <1>7, <2>1 DEF Tick, Step, WorkerTypeOK, WorkerPcs, control, channels, metrics
  <2>2. CASE held[s] # None /\ SendOrDrop(s, "tick", held[s]) /\ held' = [held EXCEPT ![s] = None]
    <3>1. held[s] \in Items
      BY <2>2 DEF WorkerTypeOK
    <3> QED
      BY <1>7, <2>2, <3>1, SendOrDropTypes DEF Tick, WorkerTypeOK, control, metrics
  <2> QED
    BY <1>7, <2>1, <2>2 DEF Tick
<1>8. CASE Flush(s)
  <2>1. held[s] \in Items
    BY <1>8 DEF Flush, Step, InHands, WorkerTypeOK
  <2>2. /\ chan' \in [Channels -> Seq(Items)] /\ \A j \in Channels : Len(chan'[j]) <= Cap
        /\ lost' \in [Channels -> Nat]
    <3>1. CASE Room(s) /\ Add(s, held[s]) /\ UNCHANGED lost
      BY <1>0, <2>1, <3>1, SendTypes DEF WorkerTypeOK
    <3>2. CASE lost' = Count(lost, s) /\ UNCHANGED chan
      BY <1>0, <3>2 DEF Count, WorkerTypeOK
    <3> QED
      BY <1>8, <3>1, <3>2 DEF Flush
  <2>3. held' \in [Stages -> Items \union {None}]
    BY <1>8 DEF Flush, WorkerTypeOK
  <2>4. wpc' \in [Stages -> WorkerPcs] /\ UNCHANGED <<hand, control, metrics, late>>
    BY <1>8 DEF Flush, Step, WorkerTypeOK, WorkerPcs
  <2> QED
    BY <2>2, <2>3, <2>4 DEF WorkerTypeOK, control, metrics
<1> QED
  BY <1>1, <1>2, <1>a, <1>b, <1>3, <1>3a, <1>4, <1>5, <1>6, <1>7, <1>8 DEF Work

---------------------------------------------------------------------------
(* One step of a worker                                                    *)

LEMMA StepIs ==
  ASSUME WorkerTypeOK, NEW s \in Stages, NEW from, NEW to, Step(s, from, to)
  PROVE  wpc[s] = from /\ wpc'[s] = to /\ \A t \in Stages \ {s} : wpc'[t] = wpc[t]
BY DEF Step, WorkerTypeOK

\* Sending goes on to one of two counts.
LEMMA SendOrDropStep ==
  ASSUME WorkerTypeOK, NEW s \in Stages, NEW from, NEW x, SendOrDrop(s, from, x)
  PROVE  /\ wpc[s] = from /\ wpc'[s] \in {"countOutput", "countDropped"}
         /\ \A t \in Stages \ {s} : wpc'[t] = wpc[t]
BY DEF SendOrDrop, Step, WorkerTypeOK

\* Where a step that sends, or that does not, goes.
LEMMA ProcessStep ==
  ASSUME WorkerTypeOK, NEW s \in Stages, Process(s)
  PROVE  /\ wpc[s] = "process" /\ wpc'[s] \in {"loop", "countOutput", "countDropped"}
         /\ \A t \in Stages \ {s} : wpc'[t] = wpc[t]
<1>1. Step(s, "process", "loop") \/ \E x : SendOrDrop(s, "process", x)
  BY DEF Process, Filtered
<1> QED
  BY <1>1, StepIs, SendOrDropStep

LEMMA TickStep ==
  ASSUME WorkerTypeOK, NEW s \in Stages, Tick(s)
  PROVE  /\ wpc[s] = "tick" /\ wpc'[s] \in {"loop", "countOutput", "countDropped"}
         /\ \A t \in Stages \ {s} : wpc'[t] = wpc[t]
<1>1. Step(s, "tick", "loop") \/ \E x : SendOrDrop(s, "tick", x)
  BY DEF Tick
<1> QED
  BY <1>1, StepIs, SendOrDropStep

LEMMA CountingStep ==
  ASSUME WorkerTypeOK, NEW s \in Stages, CountInput(s) \/ CountOutput(s) \/ CountDropped(s)
  PROVE  /\ \/ wpc[s] = "countInput" /\ wpc'[s] = "process"
            \/ wpc[s] \in {"countOutput", "countDropped"} /\ wpc'[s] = "loop"
            \/ wpc[s] = "countFlush" /\ wpc'[s] = "stopped"
         /\ \A t \in Stages \ {s} : wpc'[t] = wpc[t]
         /\ UNCHANGED <<hand, held, control, filtered, channels, late>>
BY StepIs DEF CountInput, CountOutput, CountDropped

\* What a worker does to what is with the other stages: nothing.
LEMMA WorkIsLocal ==
  ASSUME WorkerInv, NEW s \in Stages, Work(s)
  PROVE  /\ \A t \in Stages \ {s} : /\ wpc'[t] = wpc[t] /\ hand'[t] = hand[t]
                                    /\ held'[t] = held[t] /\ late'[t] = late[t]
         /\ shutdown' = shutdown
         /\ wpc[s] \notin Ended
<1> USE DEF WorkerInv, Ended
<1>1. CASE WorkerStart(s) \/ CheckShutdown(s) \/ CheckPause(s) \/ NoReset(s) \/ ResetStage(s) \/ ResetStoreRun(s)
  BY <1>1 DEF WorkerStart, CheckShutdown, CheckPause, NoReset, ResetStage, ResetStoreRun, Step, WorkerTypeOK, control
<1>2. CASE ResetUnpause(s)
  BY <1>2 DEF ResetUnpause, StoreFlag, Step, WorkerTypeOK
<1>3. CASE TakeItem(s) \/ TakeNothing(s) \/ TakeClosed(s)
  BY <1>3 DEF TakeItem, TakeNothing, TakeClosed, Count, Step, WorkerTypeOK, control
<1>3a. CASE CountInput(s) \/ CountOutput(s) \/ CountDropped(s)
  BY <1>3a, CountingStep DEF control
<1>4. CASE Panic(s)
  BY <1>4 DEF Panic, Step, WorkerTypeOK, control
<1>4a. CASE Process(s)
  BY <1>4a, ProcessStep DEF Process, WorkerTypeOK, control
<1>4b. CASE Tick(s)
  BY <1>4b, TickStep DEF Tick, WorkerTypeOK, control
<1>5. CASE StopStage(s) \/ Flush(s) \/ StoreStopped(s) \/ Exit(s)
  BY <1>5 DEF StopStage, Flush, StoreStopped, Exit, Step, WorkerTypeOK, control
<1> QED
  BY <1>1, <1>2, <1>3, <1>3a, <1>4, <1>4a, <1>4b, <1>5 DEF Work

\* What a worker does to the channel it takes from, and to the one it sends into.
LEMMA WorkOnChannels ==
  ASSUME WorkerInv, NEW s \in Stages, Work(s)
  PROVE  /\ \A i \in Channels \ {s-1, s} : chan'[i] = chan[i] /\ lost'[i] = lost[i]
         /\ chan'[s] # chan[s] => ReceiverAlive(s)
         /\ lost'[s] # lost[s] => wpc[s] = "flush" /\ ~ReceiverAlive(s)
         /\ chan[s-1] = << >> \/ wpc'[s] \in Ended => chan'[s-1] = << >>
         /\ lost'[s-1] # lost[s-1] => \/ wpc'[s] = "panicked"
                                      \/ wpc[s] = "return" /\ chan[s-1] # << >>
<1> USE DEF WorkerInv
<1>0. s \in Channels /\ s - 1 \in Channels /\ s # s - 1
  BY KAssumption DEF Stages, Channels
<1>1. CASE UNCHANGED channels /\ wpc'[s] \notin Ended
  BY <1>0, <1>1 DEF channels
<1>2. CASE WorkerStart(s) \/ CheckShutdown(s) \/ CheckPause(s) \/ NoReset(s) \/ ResetStage(s) \/ ResetStoreRun(s)
  BY <1>1, <1>2, StepIs DEF WorkerStart, CheckShutdown, CheckPause, NoReset, ResetStage, ResetStoreRun, Ended
<1>3. CASE ResetUnpause(s) \/ TakeNothing(s) \/ TakeClosed(s) \/ StopStage(s) \/ StoreStopped(s)
  BY <1>1, <1>3, StepIs DEF ResetUnpause, TakeNothing, TakeClosed, StopStage, StoreStopped, Ended
<1>3a. CASE CountInput(s) \/ CountOutput(s) \/ CountDropped(s)
  BY <1>1, <1>3a, CountingStep DEF Ended
<1>4. CASE TakeItem(s)
  <2>1. wpc'[s] \notin Ended /\ lost' = lost /\ chan[s-1] # << >>
    BY <1>4, StepIs DEF TakeItem, Ended
  <2>2. \A i \in Channels \ {s-1} : chan'[i] = chan[i]
    BY <1>4 DEF TakeItem, WorkerTypeOK
  <2> QED
    BY <1>0, <2>1, <2>2
<1>5. ASSUME NEW from, NEW x, SendOrDrop(s, from, x)
      PROVE  /\ \A i \in Channels \ {s-1, s} : chan'[i] = chan[i] /\ lost'[i] = lost[i]
             /\ chan'[s] # chan[s] => ReceiverAlive(s)
             /\ lost'[s] = lost[s] /\ chan'[s-1] = chan[s-1] /\ lost'[s-1] = lost[s-1]
  BY <1>0, <1>5 DEF SendOrDrop, Room, Add, channels, WorkerTypeOK
<1>6. CASE Process(s)
  <2>1. wpc'[s] \notin Ended
    BY <1>6, ProcessStep DEF Ended
  <2>2. UNCHANGED channels \/ \E x : SendOrDrop(s, "process", x)
    BY <1>6 DEF Process, Filtered
  <2> QED
    BY <1>1, <1>5, <2>1, <2>2
<1>7. CASE Tick(s)
  <2>1. wpc'[s] \notin Ended
    BY <1>7, TickStep DEF Ended
  <2>2. UNCHANGED channels \/ \E x : SendOrDrop(s, "tick", x)
    BY <1>7 DEF Tick, channels
  <2> QED
    BY <1>1, <1>5, <2>1, <2>2
<1>8. CASE Flush(s)
  <2>1. wpc[s] = "flush" /\ wpc'[s] \notin Ended
    BY <1>8, StepIs DEF Flush, Ended
  <2> QED
    BY <1>0, <1>8, <2>1 DEF Flush, Room, Add, Count, WorkerTypeOK
<1>9. CASE Panic(s)
  BY <1>0, <1>9, StepIs, SMTT(20) DEF Panic, Discard, WorkerTypeOK
<1>10. CASE Exit(s)
  <2>1. wpc[s] = "return" /\ wpc'[s] = "exited"
    BY <1>10, StepIs DEF Exit
  <2>2. /\ \A i \in Channels \ {s-1} : chan'[i] = chan[i] /\ lost'[i] = lost[i]
        /\ chan'[s-1] = << >> /\ lost'[s-1] = lost[s-1] + Len(chan[s-1])
    BY <1>0, <1>10 DEF Exit, Discard, WorkerTypeOK
  <2>3. chan[s-1] = << >> => lost'[s-1] = lost[s-1]
    BY <1>0, <2>2 DEF WorkerTypeOK
  <2> QED
    BY <1>0, <2>1, <2>2, <2>3
<1> QED
  BY <1>2, <1>3, <1>3a, <1>4, <1>6, <1>7, <1>8, <1>9, <1>10 DEF Work

---------------------------------------------------------------------------
(* A step of a worker keeps the invariant                                  *)

LEMMA WorkInHands ==
  ASSUME WorkerInv, NEW s \in Stages, Work(s)
  PROVE  InHands'
<1> USE DEF WorkerInv
<1> DEFINE Fits(w, x, h) == /\ x # None <=> w \in {"countInput", "process", "panicked"}
                            /\ w = "flush" => h # None
                            /\ w \in {"countFlush", "stopped", "return", "exited"} => h = None
                            /\ s \notin Holders => h = None
<1>0. Fits(wpc[s], hand[s], held[s])
  BY DEF InHands
<1>1. SUFFICES Fits(wpc'[s], hand'[s], held'[s])
  <2> HIDE DEF Fits
  <2>1. Fits(wpc'[s], hand'[s], held'[s])
    BY <1>1
  <2> QED
    BY <2>1, WorkIsLocal DEF InHands, Fits
<1>2. hand[s] # None => hand[s] \in Items
  BY DEF WorkerTypeOK
<1>3. CASE WorkerStart(s) \/ CheckShutdown(s) \/ CheckPause(s) \/ NoReset(s) \/ ResetStoreRun(s) \/ ResetUnpause(s)
  BY <1>0, <1>3, StepIs DEF WorkerStart, CheckShutdown, CheckPause, NoReset, ResetStoreRun, ResetUnpause
<1>4. CASE ResetStage(s)
  BY <1>0, <1>4, StepIs DEF ResetStage, WorkerTypeOK
<1>5. CASE TakeItem(s)
  <2>1. Head(chan[s-1]) # None
    <3>1. s - 1 \in Channels /\ chan[s-1] \in Seq(Items) /\ chan[s-1] # << >>
      BY <1>5, KAssumption DEF TakeItem, WorkerTypeOK, Stages, Channels
    <3>2. Head(chan[s-1]) \in Items
      BY <3>1
    <3> QED
      BY <3>2, ItemsAssumption DEF Items
  <2> QED
    BY <1>0, <1>5, <2>1, StepIs DEF TakeItem, WorkerTypeOK
<1>6. CASE TakeNothing(s) \/ TakeClosed(s) \/ StopStage(s) \/ StoreStopped(s) \/ Panic(s) \/ Exit(s)
  BY <1>0, <1>6, StepIs DEF TakeNothing, TakeClosed, StopStage, StoreStopped, Panic, Exit
<1>7. CASE Process(s)
  <2>1. hand'[s] = None /\ (s \notin Holders => held' = held)
    BY <1>7 DEF Process, WorkerTypeOK
  <2> QED
    BY <1>0, <1>7, <2>1, ProcessStep
<1>8. CASE Tick(s)
  <2>1. hand' = hand /\ held'[s] \in {held[s], None}
    BY <1>8 DEF Tick, WorkerTypeOK
  <2> QED
    BY <1>0, <1>8, <2>1, TickStep
<1>9. CASE Flush(s)
  BY <1>0, <1>9, StepIs DEF Flush, WorkerTypeOK
<1>10. CASE CountInput(s) \/ CountOutput(s) \/ CountDropped(s)
  BY <1>0, <1>10, CountingStep
<1> QED
  BY <1>3, <1>4, <1>5, <1>6, <1>7, <1>8, <1>9, <1>10 DEF Work

LEMMA WorkOneMore ==
  ASSUME WorkerInv, NEW s \in Stages, Work(s)
  PROVE  OneMore'
<1> USE DEF WorkerInv
<1> DEFINE Fits(w, n, d) == /\ n <= 1
                            /\ n > 0 => /\ d
                                        /\ w \in {"countInput", "process", "countOutput",
                                                  "countDropped", "loop", "stop", "flush",
                                                  "countFlush", "stopped", "return",
                                                  "exited", "panicked"}
<1>0. Fits(wpc[s], late[s], shutdown[s]) /\ late[s] \in Nat /\ shutdown' = shutdown
  BY WorkIsLocal DEF OneMore, WorkerTypeOK
<1>1. SUFFICES Fits(wpc'[s], late'[s], shutdown[s])
  <2> HIDE DEF Fits
  <2>1. Fits(wpc'[s], late'[s], shutdown'[s])
    BY <1>0, <1>1
  <2> QED
    BY <2>1, WorkIsLocal DEF OneMore, Fits
<1>2. CASE WorkerStart(s) \/ CheckShutdown(s) \/ CheckPause(s) \/ NoReset(s)
  BY <1>0, <1>2, StepIs DEF WorkerStart, CheckShutdown, CheckPause, NoReset
<1>3. CASE ResetStage(s) \/ ResetStoreRun(s) \/ ResetUnpause(s)
  BY <1>0, <1>3, StepIs DEF ResetStage, ResetStoreRun, ResetUnpause
<1>4. CASE TakeItem(s)
  BY <1>0, <1>4, StepIs, SMTT(20) DEF TakeItem, Count, WorkerTypeOK
<1>5. CASE TakeNothing(s) \/ TakeClosed(s)
  BY <1>0, <1>5, StepIs DEF TakeNothing, TakeClosed
<1>6. CASE Process(s) \/ Tick(s)
  BY <1>0, <1>6, ProcessStep, TickStep DEF Process, Tick
<1>6a. CASE Panic(s)
  BY <1>0, <1>6a, StepIs DEF Panic
<1>6b. CASE CountInput(s) \/ CountOutput(s) \/ CountDropped(s)
  BY <1>0, <1>6b, CountingStep
<1>7. CASE StopStage(s) \/ Flush(s) \/ StoreStopped(s) \/ Exit(s)
  BY <1>0, <1>7, StepIs DEF StopStage, Flush, StoreStopped, Exit
<1> QED
  BY <1>2, <1>3, <1>4, <1>5, <1>6, <1>6a, <1>6b, <1>7 DEF Work

LEMMA WorkNothingUnread ==
  ASSUME WorkerInv, NEW s \in Stages, Work(s), UNCHANGED outputRx
  PROVE  NothingUnread'
<1> USE DEF WorkerInv
<1>0. K \in Nat /\ s \in 1..K
  BY KAssumption DEF Stages
<1>1. SUFFICES ASSUME NEW i \in Channels, ~ReceiverAlive(i)'
               PROVE  chan'[i] = << >>
  BY DEF NothingUnread
<1>2. i \in 0..K
  BY DEF Channels
<1>3. CASE i = s - 1
  <2>1. wpc'[s] \in Ended
    BY <1>0, <1>1, <1>3 DEF ReceiverAlive
  <2> QED
    BY <1>3, <2>1, WorkOnChannels
<1>4. CASE i # s - 1
  <2>1. ~ReceiverAlive(i)
    <3>1. CASE i = K
      BY <1>1, <3>1 DEF ReceiverAlive
    <3>2. CASE i # K
      <4>1. i + 1 \in Stages \ {s}
        BY <1>0, <1>2, <1>4, <3>2 DEF Stages
      <4> QED
        BY <1>1, <3>2, <4>1, WorkIsLocal DEF ReceiverAlive
    <3> QED
      BY <3>1, <3>2
  <2>2. chan'[i] = chan[i]
    BY <1>0, <1>2, <1>4, <2>1, WorkOnChannels
  <2> QED
    BY <2>1, <2>2 DEF NothingUnread
<1> QED
  BY <1>3, <1>4

LEMMA WorkEndsDrained ==
  ASSUME WorkerInv, NEW s \in Stages, Work(s), UNCHANGED inputTx
  PROVE  EndsDrained'
<1> USE DEF WorkerInv
<1>0. K \in Nat /\ s \in 1..K /\ s - 1 \in Channels
  BY KAssumption DEF Stages, Channels
<1>1. SUFFICES ASSUME NEW t \in Stages, wpc'[t] \in Ending, ~shutdown'[t]
               PROVE  chan'[t-1] = << >> /\ ~SenderAlive(t-1)'
  BY DEF EndsDrained
<1>2. ~shutdown[t] /\ t \in 1..K /\ t - 1 \in Channels
  BY <1>0, <1>1, WorkIsLocal DEF Stages, Channels
\* A sender that is gone stays so.
<1>3. ~SenderAlive(t-1) => ~SenderAlive(t-1)'
  <2>1. CASE t = 1
    BY <2>1 DEF SenderAlive
  <2>2. CASE t # 1
    <3>1. t - 1 \in Stages /\ t - 1 # 0
      BY <1>0, <1>2, <2>2 DEF Stages
    <3> QED
      BY <3>1, WorkIsLocal DEF SenderAlive
  <2> QED
    BY <2>1, <2>2
<1>4. CASE t # s
  <2>1. chan[t-1] = << >> /\ ~SenderAlive(t-1)
    BY <1>1, <1>2, <1>4, WorkIsLocal DEF EndsDrained
  <2>2. t - 1 # s
    <3>1. t - 1 # 0 => wpc[t-1] \in Ended
      BY <2>1 DEF SenderAlive
    <3> QED
      BY <1>0, <3>1, WorkIsLocal
  <2>3. t - 1 # s - 1
    BY <1>0, <1>2, <1>4
  <2>4. chan'[t-1] = chan[t-1]
    BY <1>2, <2>2, <2>3, WorkOnChannels
  <2> QED
    BY <1>3, <2>1, <2>4
<1>5. CASE t = s
  <2>1. wpc[s] \in Ending \/ TakeClosed(s)
    <3> USE <1>1, <1>5, StepIs DEF Ending
    <3>1. CASE WorkerStart(s) \/ CheckPause(s) \/ NoReset(s) \/ ResetStage(s) \/ ResetStoreRun(s) \/ ResetUnpause(s)
      BY <3>1 DEF WorkerStart, CheckPause, NoReset, ResetStage, ResetStoreRun, ResetUnpause
    <3>2. CASE CheckShutdown(s)
      BY <1>2, <3>2 DEF CheckShutdown
    <3>3. CASE TakeItem(s) \/ TakeNothing(s) \/ Panic(s)
      BY <3>3 DEF TakeItem, TakeNothing, Panic
    <3>3a. CASE Process(s) \/ Tick(s) \/ CountInput(s) \/ CountOutput(s) \/ CountDropped(s)
      BY <3>3a, ProcessStep, TickStep, CountingStep
    <3>4. CASE StopStage(s) \/ Flush(s) \/ StoreStopped(s) \/ Exit(s)
      BY <3>4 DEF StopStage, Flush, StoreStopped, Exit
    <3> QED
      BY <3>1, <3>2, <3>3, <3>3a, <3>4 DEF Work
  <2>2. chan[s-1] = << >> /\ ~SenderAlive(s-1)
    BY <1>2, <1>5, <2>1 DEF EndsDrained, TakeClosed
  <2> QED
    BY <1>3, <1>5, <2>2, WorkOnChannels
<1> QED
  BY <1>4, <1>5

\* A reason for a loss remains one.
LEMMA WorkKeepsCause ==
  ASSUME WorkerInv, NEW s \in Stages, Work(s), UNCHANGED outputRx, NEW i \in Channels, Cause(i)
  PROVE  Cause(i)'
<1>1. CASE i = K
  BY <1>1 DEF Cause
<1>2. CASE i # K
  <2>1. i + 1 \in Stages
    BY <1>2, KAssumption DEF Channels, Stages
  <2>2. i + 1 = s => wpc[i+1] # "panicked"
    BY WorkIsLocal DEF Ended
  <2> QED
    BY <1>2, <2>1, <2>2, WorkIsLocal DEF Cause
<1> QED
  BY <1>1, <1>2

LEMMA WorkLossCaused ==
  ASSUME WorkerInv, NEW s \in Stages, Work(s), UNCHANGED outputRx
  PROVE  LossCaused'
<1> USE DEF WorkerInv
<1>0. K \in Nat /\ s \in 1..K /\ s \in Channels /\ s - 1 \in Channels /\ s - 1 # K /\ (s - 1) + 1 = s
  BY KAssumption DEF Stages, Channels
<1>1. SUFFICES ASSUME NEW i \in Channels, lost'[i] > 0 PROVE Cause(i)'
  BY DEF LossCaused
<1>2. CASE lost'[i] = lost[i]
  BY <1>1, <1>2, WorkKeepsCause DEF LossCaused
<1>3. CASE lost'[i] # lost[i]
  <2>1. i = s - 1 \/ i = s
    BY <1>3, WorkOnChannels
  <2>2. CASE i = s - 1 /\ wpc'[s] = "panicked"
    BY <1>0, <2>2 DEF Cause
  <2>3. CASE i = s - 1 /\ wpc[s] = "return" /\ chan[s-1] # << >>
    <3>1. shutdown[s]
      BY <2>3 DEF EndsDrained, Ending
    <3>2. Cause(i)
      BY <1>0, <2>3, <3>1 DEF Cause
    <3> QED
      BY <3>2, WorkKeepsCause
  <2>4. CASE i = s
    <3>1. wpc[s] = "flush" /\ ~ReceiverAlive(s)
      BY <1>3, <2>4, WorkOnChannels
    <3>2. Cause(s)
      <4>1. CASE s = K
        BY <3>1, <4>1 DEF Cause, ReceiverAlive
      <4>2. CASE s # K
        <5>1. s + 1 \in Stages /\ wpc[s+1] \in Ended /\ (s + 1) - 1 = s /\ s # 0
          BY <1>0, <3>1, <4>2 DEF ReceiverAlive, Stages
        <5>2. wpc[s+1] = "exited" /\ ~shutdown[s+1] => wpc[s] \in Ended
          BY <5>1 DEF EndsDrained, Ending, SenderAlive
        <5>3. wpc[s+1] = "panicked" \/ shutdown[s+1]
          BY <3>1, <5>1, <5>2 DEF Ended
        <5> QED
          BY <4>2, <5>3 DEF Cause
      <4> QED
        BY <4>1, <4>2
    <3> QED
      BY <1>0, <2>4, <3>2, WorkKeepsCause
  <2> QED
    BY <1>3, <2>1, <2>2, <2>3, <2>4, WorkOnChannels
<1> QED
  BY <1>2, <1>3

LEMMA WorkKeeps ==
  ASSUME WorkerInv, NEW s \in Stages, Work(s), UNCHANGED <<inputTx, outputRx>>
  PROVE  WorkerInv'
BY WorkTypes, WorkInHands, WorkOneMore, WorkNothingUnread, WorkEndsDrained, WorkLossCaused DEF WorkerInv

---------------------------------------------------------------------------
(* What others do to the channels and to the control words                 *)

LEMMA SendKeeps ==
  ASSUME WorkerInv, inputTx # {}, Room(0), NEW x \in Items, Add(0, x),
         UNCHANGED <<threads, control, metrics, lost, inputTx, outputRx, late>>
  PROVE  WorkerInv'
<1> USE DEF WorkerInv
<1>0. 0 \in Channels /\ K \in Nat
  BY KAssumption DEF Channels
<1>1. /\ UNCHANGED <<wpc, hand, held, command, shutdown, paused, state, inputs, outputs, filtered, drops,
                     lost, inputTx, outputRx, late>>
      /\ \A i \in Channels \ {0} : chan'[i] = chan[i]
  BY DEF threads, control, metrics, Add, WorkerTypeOK
<1>2. WorkerTypeOK'
  BY <1>0, <1>1, SendTypes DEF WorkerTypeOK
<1>3. InHands' /\ OneMore' /\ LossCaused'
  BY <1>1 DEF InHands, OneMore, LossCaused, Cause
<1>4. NothingUnread'
  BY <1>0, <1>1 DEF NothingUnread, ReceiverAlive, Room
<1>5. EndsDrained'
  <2>1. SUFFICES ASSUME NEW s \in Stages, wpc[s] \in Ending, ~shutdown[s]
                 PROVE  chan'[s-1] = << >> /\ ~SenderAlive(s-1)'
    BY <1>1 DEF EndsDrained
  <2>2. chan[s-1] = << >> /\ ~SenderAlive(s-1) /\ s - 1 \in Channels
    BY <2>1, <1>0 DEF EndsDrained, Stages, Channels
  <2>3. s - 1 # 0
    BY <2>2 DEF SenderAlive
  <2> QED
    BY <1>1, <2>2, <2>3 DEF SenderAlive
<1> QED
  BY <1>2, <1>3, <1>4, <1>5

LEMMA ReceiveKeeps ==
  ASSUME WorkerInv, chan[K] # << >>, chan' = [chan EXCEPT ![K] = Tail(@)],
         UNCHANGED <<threads, control, metrics, lost, inputTx, outputRx, late>>
  PROVE  WorkerInv'
<1> USE DEF WorkerInv
<1>0. K \in Channels /\ K \in Nat
  BY KAssumption DEF Channels
<1>1. /\ UNCHANGED <<wpc, hand, held, command, shutdown, paused, state, inputs, outputs, filtered, drops,
                     lost, inputTx, outputRx, late>>
      /\ \A i \in Channels \ {K} : chan'[i] = chan[i]
  BY DEF threads, control, metrics, WorkerTypeOK
<1>2. WorkerTypeOK'
  BY <1>0, <1>1, TakeTypes DEF WorkerTypeOK
<1>3. InHands' /\ OneMore' /\ LossCaused'
  BY <1>1 DEF InHands, OneMore, LossCaused, Cause
<1>4. NothingUnread'
  BY <1>0, <1>1 DEF NothingUnread, ReceiverAlive
<1>5. EndsDrained'
  <2>1. \A s \in Stages : s - 1 \in Channels \ {K}
    BY <1>0 DEF Stages, Channels
  <2> QED
    BY <1>1, <2>1 DEF EndsDrained, SenderAlive
<1> QED
  BY <1>2, <1>3, <1>4, <1>5

\* Nobody takes a shutdown back.
LEMMA CommandKeeps ==
  ASSUME WorkerInv, WorkerTypeOK', \A s \in Stages : shutdown[s] => shutdown'[s],
         UNCHANGED <<threads, channels, inputTx, outputRx, late>>
  PROVE  WorkerInv'
<1> USE DEF WorkerInv
<1>1. UNCHANGED <<wpc, hand, held, chan, lost, inputTx, outputRx, late>>
  BY DEF threads, channels
<1>2. InHands' /\ OneMore' /\ NothingUnread' /\ EndsDrained'
  BY <1>1 DEF InHands, OneMore, NothingUnread, EndsDrained, ReceiverAlive, SenderAlive
<1>3. LossCaused'
  <2>1. \A i \in Channels : i # K => i + 1 \in Stages
    BY KAssumption DEF Channels, Stages
  <2> QED
    BY <1>1, <2>1 DEF LossCaused, Cause
<1> QED
  BY <1>2, <1>3

\* The last receiver of the output takes the items with it.
LEMMA EndsKeep ==
  ASSUME WorkerInv, UNCHANGED <<threads, control, metrics, late>>,
         inputTx = {} => inputTx' = {}, outputRx = {} => outputRx' = {},
         \/ Discard(K) /\ outputRx' = {}
         \/ UNCHANGED channels /\ (outputRx' = {} => outputRx = {})
  PROVE  WorkerInv'
<1> USE DEF WorkerInv
<1>0. K \in Channels /\ K \in Nat
  BY KAssumption DEF Channels
<1>1. UNCHANGED <<wpc, hand, held, command, shutdown, paused, state, inputs, outputs, filtered, drops, late>>
  BY DEF threads, control, metrics
<1>2. /\ \A i \in Channels \ {K} : chan'[i] = chan[i] /\ lost'[i] = lost[i]
      /\ (chan'[K] = chan[K] \/ chan'[K] = << >>)
      /\ outputRx' = {} => chan'[K] = << >>
      /\ lost'[K] # lost[K] => outputRx' = {}
      /\ chan' \in [Channels -> Seq(Items)] /\ \A i \in Channels : Len(chan'[i]) <= Cap
      /\ lost' \in [Channels -> Nat]
  <2>1. CASE Discard(K) /\ outputRx' = {}
    BY <1>0, <2>1, DiscardTypes DEF Discard, WorkerTypeOK
  <2>2. CASE UNCHANGED channels /\ (outputRx' = {} => outputRx = {})
    BY <1>0, <2>2 DEF channels, WorkerTypeOK, NothingUnread, ReceiverAlive
  <2> QED
    BY <2>1, <2>2
<1>3. WorkerTypeOK'
  BY <1>1, <1>2 DEF WorkerTypeOK
<1>4. InHands' /\ OneMore'
  BY <1>1 DEF InHands, OneMore
<1>5. NothingUnread'
  BY <1>1, <1>2 DEF NothingUnread, ReceiverAlive
<1>6. EndsDrained'
  <2>1. \A s \in Stages : s - 1 \in Channels \ {K}
    BY <1>0 DEF Stages, Channels
  <2> QED
    BY <1>1, <1>2, <2>1 DEF EndsDrained, SenderAlive
<1>7. LossCaused'
  BY <1>1, <1>2 DEF LossCaused, Cause
<1> QED
  BY <1>3, <1>4, <1>5, <1>6, <1>7
==============================================================================
