--------------------------- MODULE PipelineRunner ---------------------------
(***************************************************************************)
(* The single-stage pipeline: a BackpressureProducer (src/src/buffer/      *)
(* split.rs) pushes into a ring buffer from which the thread of            *)
(* spawn_pipeline (src/src/pipeline/runner.rs) polls, under a              *)
(* PipelineHandle; or its consumer end is with a thread that drives a      *)
(* PipelineRunner itself.  The ring buffer is the queue BoundedFifo, which *)
(* RingBuffer implements.  An item is the number of the push that offered  *)
(* it.  The stage passes an item on to the callback or filters it.         *)
(***************************************************************************)
EXTENDS Integers, Sequences

CONSTANTS
  Capacity,   \* N - 1 of the ring buffer
  MaxOffers,  \* bound: calls of push
  MaxPolls,   \* bound: empty_polls stays there once it has come so far
  Period      \* processed_count is published every so many items: 1000

ASSUME CapacityAssumption == Capacity \in Nat
ASSUME PeriodAssumption == Period \in Nat \ {0}
ASSUME OffersAssumption == MaxOffers \in Nat /\ MaxPolls \in Nat

VARIABLES
  policy,             \* BackpressureProducer::policy
  ppc, offered,       \* the producer: where it is in push; how many it has offered
  dropped_count,      \* BackpressureProducer::dropped_count
  sent, received, answer,   \* the ring buffer
  driver,             \* who has the PipelineRunner: "thread" or "caller"
  rpc, item,          \* that thread: where it is; the item it processes
  processed, output_count, filtered_count, empty_polls,   \* PipelineStats
  processed_count,    \* PipelineHandle::processed_count
  stop_flag,          \* PipelineHandle::stop_flag
  handle,             \* its owner: "held", or in "join", or "dropped" or "joined"
  results,            \* history: the outputs given to the callback
  before,             \* history: the counts that reset_stats has cleared
  drainFrom           \* history: the items accepted when the last drain began

producer == <<policy, ppc, offered, dropped_count>>
ring == <<sent, received, answer>>
stats == <<processed, output_count, filtered_count, empty_polls>>
drains == <<before, drainFrom>>
vars == <<producer, ring, driver, rpc, item, stats, processed_count, stop_flag, handle,
          results, drains>>

Ring == INSTANCE BoundedFifo WITH Producers <- {"producer"}, Consumers <- {"consumer"},
                                  Values <- 1..MaxOffers

Init ==
  /\ policy \in {"DropOldest", "DropNewest", "Block"}
  /\ ppc = "idle" /\ offered = 0 /\ dropped_count = 0
  /\ Ring!Init
  /\ \/ driver = "thread" /\ rpc = "check" /\ handle = "held"
     \/ driver = "caller" /\ rpc = "own" /\ handle = "none"
  /\ item = 0
  /\ processed = 0 /\ output_count = 0 /\ filtered_count = 0 /\ empty_polls = 0
  /\ processed_count = 0
  /\ stop_flag = FALSE
  /\ results = << >>
  /\ before = [processed |-> 0, output |-> 0] /\ drainFrom = 0

---------------------------------------------------------------------------
(* BackpressureProducer::push                                              *)

runner == <<driver, rpc, item, stats, processed_count, stop_flag, handle, results, drains>>

Offer ==
  /\ ppc = "idle" /\ offered < MaxOffers
  /\ ppc' = "push"
  /\ offered' = offered + 1
  /\ UNCHANGED <<policy, dropped_count, ring, runner>>

PushOk ==
  /\ ppc = "push"
  /\ Ring!PushOk("producer", offered)
  /\ ppc' = "idle"
  /\ UNCHANGED <<policy, offered, dropped_count, runner>>

\* Mutant: a blocking push, too, gives up.
PushFullGivesUp ==
  /\ ppc = "push"
  /\ Ring!PushFull("producer")
  /\ ppc' = "idle"
  /\ UNCHANGED <<policy, offered, dropped_count, runner>>

\* Mutant: every try of a blocking push is counted as a drop.
PushFullCountsTries ==
  /\ ppc = "push"
  /\ Ring!PushFull("producer")
  /\ IF policy = "Block" THEN dropped_count' = dropped_count + 1 /\ UNCHANGED ppc
                         ELSE ppc' = "countDrop" /\ UNCHANGED dropped_count
  /\ UNCHANGED <<policy, offered, runner>>

\* DropOldest drops what DropNewest drops; Block tries again.
PushFull ==
  /\ ppc = "push"
  /\ Ring!PushFull("producer")
  /\ ppc' = IF policy = "Block" THEN "push" ELSE "countDrop"
  /\ UNCHANGED <<policy, offered, dropped_count, runner>>

CountDrop ==
  /\ ppc = "countDrop"
  /\ dropped_count' = dropped_count + 1
  /\ ppc' = "idle"
  /\ UNCHANGED <<policy, offered, ring, runner>>

---------------------------------------------------------------------------
(* PipelineRunner::poll and drain, the thread of spawn_pipeline            *)

pipe == <<producer, driver, processed_count, stop_flag, handle>>
AfterPoll == IF driver = "thread" THEN "publish" ELSE "own"

CheckStop ==
  /\ rpc = "check"
  /\ rpc' = IF stop_flag THEN "last" ELSE "poll"
  /\ UNCHANGED <<pipe, ring, item, stats, results, drains>>

\* consumer.pop() of either.
Take(from, to) ==
  /\ rpc = from /\ rpc' = to
  /\ Ring!PopSome("consumer")
  /\ item' = received'[Len(received')]
  /\ processed' = processed + 1
  /\ UNCHANGED <<pipe, output_count, filtered_count, empty_polls, results, drains>>

PollItem == Take("poll", "process")

\* Mutant: the stage is given up when the buffer is found empty.
PollEmptyEnds ==
  /\ rpc = "poll" /\ rpc' = "last"
  /\ Ring!Empty("consumer")
  /\ UNCHANGED <<pipe, item, stats, results, drains>>

PollEmpty ==
  /\ rpc = "poll" /\ rpc' = AfterPoll
  /\ Ring!Empty("consumer")
  /\ empty_polls' = IF empty_polls < MaxPolls THEN empty_polls + 1 ELSE empty_polls
  /\ UNCHANGED <<pipe, item, processed, output_count, filtered_count, results, drains>>

\* Mutant: the callback gets the filtered items, too.
ThroughStageAll(from, to) ==
  /\ rpc = from /\ rpc' = to
  /\ results' = Append(results, item)
  /\ \/ output_count' = output_count + 1 /\ UNCHANGED filtered_count
     \/ filtered_count' = filtered_count + 1 /\ UNCHANGED output_count
  /\ UNCHANGED <<pipe, ring, item, processed, empty_polls, drains>>

\* stage.process, of either.
ThroughStage(from, to) ==
  /\ rpc = from /\ rpc' = to
  /\ \/ /\ output_count' = output_count + 1
        /\ results' = Append(results, item)
        /\ UNCHANGED filtered_count
     \/ /\ filtered_count' = filtered_count + 1
        /\ UNCHANGED <<output_count, results>>
  /\ UNCHANGED <<pipe, ring, item, processed, empty_polls, drains>>

PollProcess == ThroughStage("process", AfterPoll)

\* A panic of stage.process, or of the callback that is given the output (poll has
\* none): the thread of spawn_pipeline is gone, its count unpublished and the flag
\* not set; a caller that catches the panic still has its runner.
PanicIn(from) ==
  /\ rpc = from /\ rpc' = IF driver = "thread" THEN "panicked" ELSE "own"
  /\ \/ UNCHANGED <<output_count, results>>
     \/ /\ driver = "thread" \/ from = "drainItem"
        /\ output_count' = output_count + 1
        /\ results' = Append(results, item)
  /\ drainFrom' = 0
  /\ UNCHANGED <<pipe, ring, item, processed, filtered_count, empty_polls, before>>

StartDrain ==
  /\ rpc = "own" /\ rpc' = "drain"
  /\ drainFrom' = Len(sent)
  /\ UNCHANGED <<pipe, ring, item, stats, results, before>>

DrainItem == Take("drain", "drainItem")

\* drain does not count the poll that finds the buffer empty.
DrainEmpty ==
  /\ rpc = "drain" /\ rpc' = "own"
  /\ Ring!Empty("consumer")
  /\ UNCHANGED <<pipe, item, stats, results, drains>>

DrainProcess == ThroughStage("drainItem", "drain")

---------------------------------------------------------------------------
(* The caller's own calls between: poll, reset_stats                       *)

StartPoll ==
  /\ rpc = "own" /\ rpc' = "poll"
  /\ UNCHANGED <<pipe, ring, item, stats, results, drains>>

ResetStats ==
  /\ rpc = "own"
  /\ processed' = 0 /\ output_count' = 0 /\ filtered_count' = 0 /\ empty_polls' = 0
  /\ before' = [processed |-> before.processed + processed, output |-> before.output + output_count]
  /\ UNCHANGED <<pipe, ring, rpc, item, results, drainFrom>>

---------------------------------------------------------------------------
(* The rest of the loop in spawn_pipeline                                  *)

Publish ==
  /\ rpc = "publish" /\ rpc' = "check"
  /\ processed_count' = IF processed % Period = 0 THEN processed ELSE processed_count
  /\ UNCHANGED <<producer, ring, driver, item, stats, stop_flag, handle, results, drains>>

\* Mutant: the last count is not published.
PublishLastNot ==
  /\ rpc = "last" /\ rpc' = "done"
  /\ UNCHANGED <<pipe, ring, item, stats, results, drains>>

PublishLast ==
  /\ rpc = "last" /\ rpc' = "done"
  /\ processed_count' = processed
  /\ UNCHANGED <<producer, ring, driver, item, stats, stop_flag, handle, results, drains>>

---------------------------------------------------------------------------
(* PipelineHandle: join waits and then drops the handle, and so sets the   *)
(* flag last; drop sets it first.  join panics if the thread did.          *)

ThreadEnded == {"done", "panicked"}
worker == <<producer, ring, driver, rpc, item, stats, processed_count, results, drains>>

Stop == /\ handle = "held" /\ ~stop_flag
        /\ stop_flag' = TRUE
        /\ UNCHANGED <<handle, worker>>

Join == /\ handle = "held"
        /\ handle' = "join"
        /\ UNCHANGED <<stop_flag, worker>>

\* Mutant: drop joins the thread without stopping it.
DropJoins == /\ handle = "held"
             /\ handle' = "drop"
             /\ UNCHANGED <<stop_flag, worker>>

Drop == /\ handle = "held"
        /\ handle' = "drop"
        /\ stop_flag' = TRUE
        /\ UNCHANGED worker

\* Mutant: drop does not wait for the thread.
JoinDetached ==
  /\ \/ handle = "join" /\ rpc = "done" /\ handle' = "joined"
     \/ handle = "join" /\ rpc = "panicked" /\ handle' = "failed"
     \/ handle = "drop" /\ handle' = "dropped"
  /\ stop_flag' = TRUE
  /\ UNCHANGED worker

Joined ==
  /\ rpc \in ThreadEnded
  /\ \/ handle = "join" /\ handle' = IF rpc = "done" THEN "joined" ELSE "failed"
     \/ handle = "drop" /\ handle' = "dropped"
  /\ stop_flag' = TRUE
  /\ UNCHANGED worker

---------------------------------------------------------------------------
Push == PushOk \/ PushFull \/ CountDrop
Run == \/ CheckStop \/ PollItem \/ PollEmpty \/ PollProcess \/ Publish \/ PublishLast
       \/ DrainItem \/ DrainEmpty \/ DrainProcess

Panics == PanicIn("process") \/ PanicIn("drainItem")

Next == Offer \/ Push \/ Run \/ Panics \/ StartPoll \/ StartDrain \/ ResetStats
        \/ Stop \/ Join \/ Drop \/ Joined

Spec == Init /\ [][Next]_vars

\* The threads run: the producer once it is inside push, the runner thread until it
\* panics, which it need not, and the owner once it waits in join.
FairSpec == Spec /\ WF_vars(Push) /\ WF_vars(Run) /\ WF_vars(Joined)

---------------------------------------------------------------------------
(* Properties                                                              *)

\* The types of the variables; the ring never holds more than its capacity, and no
\* offer is counted as dropped twice.
TypeOK ==
  /\ policy \in {"DropOldest", "DropNewest", "Block"}
  /\ ppc \in {"idle", "push", "countDrop"}
  /\ offered \in 0..MaxOffers
  /\ dropped_count \in 0..offered
  /\ sent \in Seq(1..MaxOffers) /\ received \in Seq(1..MaxOffers)
  /\ Len(sent) - Len(received) <= Capacity
  /\ answer \in [{"producer", "consumer"} -> {"none", "ok", "full", "popped", "peeked", "empty"}]
  /\ driver \in {"thread", "caller"}
  /\ rpc \in {"check", "poll", "process", "publish", "last", "done", "panicked",
             "own", "drain", "drainItem"}
  /\ item \in 0..MaxOffers
  /\ processed \in Nat /\ output_count \in Nat /\ filtered_count \in Nat
  /\ empty_polls \in 0..MaxPolls
  /\ processed_count \in Nat
  /\ stop_flag \in BOOLEAN
  /\ handle \in {"held", "join", "joined", "failed", "drop", "dropped", "none"}
  /\ results \in Seq(1..MaxOffers)
  /\ before \in [processed : Nat, output : Nat] /\ drainFrom \in Nat

\* Every item that was offered is in exactly one place, and counted there: not
\* yet pushed, waiting in the ring, processed, or dropped; a Block producer drops
\* none and so loses none (BackpressureProducer::push).
OffersAccounted ==
  /\ offered = Len(sent) + dropped_count + (IF ppc = "idle" THEN 0 ELSE 1)
  /\ before.processed + processed = Len(received)
  /\ policy = "Block" => dropped_count = 0

\* The callback sees items in the order in which they were offered, whatever
\* was dropped, filtered or lost in a panic between them, and as many as output_count
\* says; and a drain that returns has processed all that was accepted before it began.
ResultsInOrder ==
  /\ Len(results) = before.output + output_count
  /\ rpc = "own" => drainFrom <= Len(received)
  /\ \A j, k \in 1..Len(results) : j < k => results[j] < results[k]
  /\ \A j \in 1..Len(results) : \E k \in 1..Len(received) : received[k] = results[j]

\* processed_count, read by another thread, is never ahead of the truth and less
\* than one period behind it, and exact once the thread has come to its end. When
\* join or drop is over the callback is called no more. join answers statistics
\* exactly if no panic ended the thread, and they balance; drop does not tell
\* (runner.rs:207), and after a panic the count stays up to a period behind and one
\* item has neither an output nor is filtered.
PublishedCountIsClose ==
  /\ processed_count <= processed
  /\ rpc = "check" => processed - processed_count < Period
  /\ rpc = "done" => processed_count = processed /\ processed = output_count + filtered_count
  /\ rpc = "panicked" => /\ processed - processed_count <= Period
                         /\ processed - (output_count + filtered_count) \in {0, 1}
  /\ handle = "joined" => rpc = "done"
  /\ handle = "failed" => rpc = "panicked"
  /\ handle = "dropped" => rpc \in ThreadEnded

\* stop() ends the thread, whatever is still in the ring, and drop returns to its
\* caller.
StopEnds ==
  /\ stop_flag ~> rpc \in ThreadEnded
  /\ handle = "drop" ~> handle = "dropped"

\* A push that blocks on a full ring goes through, and what was accepted is processed,
\* unless the runner is stopped or its stage or callback panics: then the push would
\* spin for ever (after a panic even is_stopped answers that nobody stopped it).
Serving == ~stop_flag /\ rpc # "panicked"
AcceptedIsProcessed ==
  /\ (driver = "thread" /\ ppc = "push" /\ policy = "Block") ~> (ppc = "idle" \/ ~Serving)
  /\ \A k \in 1..MaxOffers :
       driver = "thread" /\ Len(sent) >= k ~> (Len(received) >= k \/ ~Serving)

\* split.rs:176 "Drop the oldest data in the buffer to make room for new data":
\* after a push under DropOldest the item is in the ring, or was.
DropOldestKeepsNewest ==
  (policy = "DropOldest" /\ ppc = "idle" /\ offered > 0) =>
    \E k \in 1..Len(sent) : sent[k] = offered
=============================================================================
