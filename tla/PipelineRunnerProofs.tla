------------------------- MODULE PipelineRunnerProofs -------------------------
(***************************************************************************)
(* Proofs about the threads that are under a handle.                       *)
(*                                                                         *)
(* PipelineRunner, for every capacity of the ring, every period and any    *)
(* number of items: every item is accounted for, results keep the order of *)
(* the offers, and the published count is close to the truth and exact if  *)
(* the thread ends without a panic.                                        *)
(*                                                                         *)
(* StageHandle, for any number of stages of whatever kinds, each under a   *)
(* handle that its owner commands, joins and drops at any moment: what     *)
(* holds of the workers (StageWorkerProofs) holds under these owners too,  *)
(* join and drop wait for the thread, the state a handle shows is the      *)
(* thread's last unless the builder overwrote it, and a stage that ends    *)
(* with its input has lost nothing.                                        *)
(***************************************************************************)
EXTENDS PipelineRunner, StageHandle, StageWorkerProofs

---------------------------------------------------------------------------
(* Sequences and remainders                                                *)

LEMMA ItemsOf ==
  ASSUME NEW S, NEW s \in Seq(S)
  PROVE  Len(s) \in Nat /\ \A k \in 1..Len(s) : s[k] \in S
  OBVIOUS

LEMMA AppendIs ==
  ASSUME NEW S, NEW s \in Seq(S), NEW e \in S
  PROVE  /\ Append(s, e) \in Seq(S)
         /\ Len(Append(s, e)) = Len(s) + 1
         /\ \A k \in 1..Len(s) : Append(s, e)[k] = s[k]
         /\ Append(s, e)[Len(s) + 1] = e
  OBVIOUS

LEMMA Remainder ==
  ASSUME NEW p \in Int, p > 0, NEW a \in Int
  PROVE  a - p * (a \div p) = a % p /\ a \div p \in Int
  OBVIOUS

LEMMA MultipleIs ==
  ASSUME NEW p \in Nat, p > 0, NEW q \in Nat
  PROVE  (p * q) % p = 0
  OBVIOUS

LEMMA NextMultiple ==
  ASSUME NEW a \in Nat, NEW p \in Nat, p > 0, a % p = 0
  PROVE  (a + p) % p = 0
<1> DEFINE q == a \div p
<1>1. a - p * q = 0 /\ q \in Nat
  BY Remainder
<1> HIDE DEF q
<1>2. a + p = p * (q + 1) /\ q + 1 \in Nat
  BY <1>1
<1>3. (p * (q + 1)) % p = 0
  BY <1>2, MultipleIs
<1> QED
  BY <1>2, <1>3

---------------------------------------------------------------------------
(* The invariant                                                           *)

\* The ring hands on what it got, in order; an offer under way is the latest.
Flow ==
  /\ Len(received) <= Len(sent)
  /\ \A k \in 1..Len(received) : received[k] = sent[k]
  /\ \A j, k \in 1..Len(sent) : j < k => sent[j] < sent[k]
  /\ \A k \in 1..Len(sent) : sent[k] <= offered
  /\ ppc = "push" => \A k \in 1..Len(sent) : sent[k] < offered
  /\ ppc # "idle" => offered > 0

\* A Block producer never comes to count a drop.
Offers ==
  /\ OffersAccounted
  /\ ppc = "countDrop" => policy # "Block"

\* The item in the stage is the last one taken, and everything in the results came
\* before it.
InStage == rpc \in {"process", "drainItem"}
Results ==
  /\ Len(results) = before.output + output_count
  /\ \A j, k \in 1..Len(results) : j < k => results[j] < results[k]
  /\ \A j \in 1..Len(results) : \E k \in 1..Len(received) : received[k] = results[j]
  /\ InStage => /\ Len(received) > 0 /\ item = received[Len(received)]
                /\ \A j \in 1..Len(results) : results[j] < item
  /\ drainFrom <= Len(sent)
  /\ rpc \notin {"drain", "drainItem"} => drainFrom <= Len(received)

\* Where the runner's program is, by who runs it; the published count is a multiple
\* of the period until the last one.
Published ==
  /\ driver = "caller" => /\ rpc \in {"own", "poll", "process", "drain", "drainItem"}
                          /\ handle = "none" /\ processed_count = 0
  /\ driver = "thread" => rpc \notin {"own", "drain", "drainItem"}
  /\ processed_count <= processed
  /\ driver = "thread" /\ rpc # "done" => processed_count % Period = 0
  /\ driver = "thread" /\ rpc \in {"check", "poll", "last"} => processed - processed_count < Period
  /\ driver = "thread" /\ rpc \in {"process", "publish"} => processed - processed_count <= Period
  /\ rpc = "done" => processed_count = processed
  /\ handle = "joined" => rpc = "done"
  /\ handle = "failed" => rpc = "panicked"
  /\ handle = "dropped" => rpc \in {"done", "panicked"}
  /\ rpc = "panicked" => processed - processed_count <= Period

\* What the thread has processed has come out or is filtered, but for the item in the
\* stage and for one whose processing panicked.
Balance ==
  driver = "thread" =>
    /\ InStage => processed = output_count + filtered_count + 1
    /\ rpc = "panicked" => \/ processed = output_count + filtered_count
                          \/ processed = output_count + filtered_count + 1
    /\ ~InStage /\ rpc # "panicked" => processed = output_count + filtered_count

IInv == TypeOK /\ Flow /\ Offers /\ Results /\ Published /\ Balance

\* The types in three parts: the sequences of items, the bounds, and the rest.
Numbers == 1..MaxOffers
Answers == [{"producer", "consumer"} -> {"none", "ok", "full", "popped", "peeked", "empty"}]
BoundsOK == dropped_count <= offered /\ Len(sent) - Len(received) <= Capacity
SeqsOK == sent \in Seq(Numbers) /\ received \in Seq(Numbers) /\ results \in Seq(Numbers)
ShapesOK ==
  /\ policy \in {"DropOldest", "DropNewest", "Block"}
  /\ ppc \in {"idle", "push", "countDrop"}
  /\ offered \in Nat /\ offered <= MaxOffers /\ dropped_count \in Nat
  /\ answer \in Answers
  /\ driver \in {"thread", "caller"}
  /\ rpc \in {"check", "poll", "process", "publish", "last", "done", "panicked", "own", "drain", "drainItem"}
  /\ item \in Numbers \union {0}
  /\ processed \in Nat /\ output_count \in Nat /\ filtered_count \in Nat
  /\ empty_polls \in 0..MaxPolls
  /\ processed_count \in Nat
  /\ stop_flag \in BOOLEAN
  /\ handle \in {"held", "join", "joined", "failed", "drop", "dropped", "none"}
  /\ before \in [processed : Nat, output : Nat] /\ drainFrom \in Nat

LEMMA ItemsAre ==
  /\ \A k \in Numbers : k \in Nat /\ k > 0 /\ k <= MaxOffers
  /\ \A k \in Nat : k > 0 /\ k <= MaxOffers => k \in Numbers
  /\ 0..MaxOffers = Numbers \union {0}
  BY OffersAssumption DEF Numbers

LEMMA TypeParts == TypeOK <=> SeqsOK /\ ShapesOK /\ BoundsOK
<1>1. offered \in 0..MaxOffers <=> offered \in Nat /\ offered <= MaxOffers
  BY OffersAssumption
<1>2. item \in 0..MaxOffers <=> item \in Numbers \union {0}
  BY ItemsAre
<1>1a. offered \in Nat => (dropped_count \in 0..offered <=> dropped_count \in Nat /\ dropped_count <= offered)
  OBVIOUS
<1>3. TypeOK => SeqsOK /\ BoundsOK
  <2>1. TypeOK => dropped_count \in 0..offered /\ offered \in Nat
    BY <1>1, Zenon DEF TypeOK
  <2>2. TypeOK => Len(sent) - Len(received) <= Capacity
    BY Zenon DEF TypeOK
  <2> QED
    BY <2>1, <2>2 DEF TypeOK, SeqsOK, BoundsOK, Numbers
<1>4. TypeOK => ShapesOK
  BY <1>1, <1>1a, <1>2 DEF TypeOK, ShapesOK, Answers
<1>5. SeqsOK /\ ShapesOK /\ BoundsOK => TypeOK
  BY <1>1, <1>1a, <1>2, Zenon DEF TypeOK, ShapesOK, SeqsOK, BoundsOK, Numbers, Answers
<1> QED
  BY <1>3, <1>4, <1>5

LEMMA InvInit == Init => IInv
<1> SUFFICES ASSUME Init PROVE IInv
  OBVIOUS
<1> USE DEF Init, Ring!Init
<1>1. Len(sent) = 0 /\ Len(received) = 0 /\ Len(results) = 0
  OBVIOUS
<1>2. {"producer"} \cup {"consumer"} = {"producer", "consumer"}
  OBVIOUS
<1>2a. answer \in Answers
  BY <1>2 DEF Answers
<1>2b. ShapesOK
  <2>0. 0 \in Numbers \union {0} /\ 0 <= MaxOffers
    BY OffersAssumption
  <2>1. 0 \in 0..MaxPolls
    BY OffersAssumption
  <2>2. before \in [processed : Nat, output : Nat]
    OBVIOUS
  <2>3. /\ rpc \in {"check", "poll", "process", "publish", "last", "done", "panicked", "own", "drain", "drainItem"}
        /\ driver \in {"thread", "caller"} /\ ppc \in {"idle", "push", "countDrop"}
        /\ handle \in {"held", "join", "joined", "failed", "drop", "dropped", "none"}
    OBVIOUS
  <2>4. policy \in {"DropOldest", "DropNewest", "Block"} /\ stop_flag \in BOOLEAN
    OBVIOUS
  <2>5. /\ offered \in Nat /\ offered <= MaxOffers /\ dropped_count \in Nat
        /\ item \in Numbers \union {0} /\ empty_polls \in 0..MaxPolls
        /\ processed \in Nat /\ output_count \in Nat /\ filtered_count \in Nat
        /\ processed_count \in Nat /\ drainFrom \in Nat
    BY <2>0, <2>1
  <2> QED
    BY <1>2a, <2>2, <2>3, <2>4, <2>5, Zenon DEF ShapesOK
<1>2c. SeqsOK
  BY DEF SeqsOK
<1>2e. BoundsOK
  BY <1>1, CapacityAssumption DEF BoundsOK
<1>2d. TypeOK
  BY <1>2b, <1>2c, <1>2e, TypeParts
<1>3. Flow /\ Offers
  BY <1>1 DEF Flow, Offers, OffersAccounted
<1>4. Results
  BY <1>1 DEF Results, InStage
<1>5. 0 % Period = 0
  BY PeriodAssumption
<1>6. Published
  BY <1>5, PeriodAssumption DEF Published, InStage
<1>7. Balance
  BY DEF Balance, InStage
<1> QED
  BY <1>2d, <1>3, <1>4, <1>6, <1>7 DEF IInv

---------------------------------------------------------------------------
(* Steps in groups, by what they leave alone                               *)

\* What the owner of the handle does, and what only moves the runner on.
OwnerStep == Stop \/ Join \/ Drop \/ Joined
MoveStep == CheckStop \/ StartPoll \/ StartDrain
TakeStep == PollItem \/ DrainItem
EmptyStep == PollEmpty \/ DrainEmpty
StageStep == PollProcess \/ DrainProcess
CountStep == Publish \/ PublishLast

LEMMA NextIs ==
  Next <=> \/ Offer \/ PushOk \/ PushFull \/ CountDrop
           \/ TakeStep \/ EmptyStep \/ StageStep \/ MoveStep \/ CountStep
           \/ ResetStats \/ OwnerStep \/ Panics
  BY DEF Next, Run, Push, TakeStep, StageStep, EmptyStep, MoveStep, CountStep, OwnerStep

\* An item that is taken is the next one sent.
LEMMA TakeIs ==
  ASSUME TypeOK, TakeStep
  PROVE  LET e == sent[Len(received) + 1]
         IN  /\ Len(received) < Len(sent) /\ e \in Numbers
             /\ received' = Append(received, e) /\ item' = e
             /\ processed' = processed + 1
             /\ (rpc = "poll" /\ rpc' = "process") \/ (rpc = "drain" /\ rpc' = "drainItem")
             /\ answer' \in Answers
             /\ UNCHANGED <<sent, policy, ppc, offered, dropped_count, driver, processed_count,
                            stop_flag, handle, output_count, filtered_count, empty_polls,
                            results, before, drainFrom>>
<1> DEFINE e == sent[Len(received) + 1]
<1>1. sent \in Seq(Numbers) /\ received \in Seq(Numbers) /\ answer \in Answers
  BY TypeParts DEF SeqsOK, ShapesOK
<1>2. Ring!PopSome("consumer")
  BY DEF TakeStep, PollItem, DrainItem, Take
<1>3. /\ item' = received'[Len(received')] /\ processed' = processed + 1
      /\ UNCHANGED <<policy, ppc, offered, dropped_count, driver, processed_count, stop_flag, handle,
                     output_count, filtered_count, empty_polls, results, before, drainFrom>>
  BY DEF TakeStep, PollItem, DrainItem, Take, pipe, producer, drains
<1>4. (rpc = "poll" /\ rpc' = "process") \/ (rpc = "drain" /\ rpc' = "drainItem")
  <2>1. PollItem => rpc = "poll" /\ rpc' = "process"
    BY DEF PollItem, Take
  <2>2. DrainItem => rpc = "drain" /\ rpc' = "drainItem"
    BY DEF DrainItem, Take
  <2> QED
    BY <2>1, <2>2 DEF TakeStep
<1>5. /\ Len(sent) - Len(received) > 0 /\ received' = Append(received, e) /\ sent' = sent
      /\ answer' = [answer EXCEPT !["consumer"] = "popped"]
  BY <1>2 DEF Ring!PopSome, Ring!Size, Ring!Answer
<1>6. Len(sent) \in Nat /\ Len(received) \in Nat
  BY <1>1
<1>7. Len(received) < Len(sent) /\ Len(received) + 1 \in 1..Len(sent)
  BY <1>5, <1>6
<1>8. e \in Numbers
  BY <1>1, <1>7, ItemsOf
<1>9. item' = e
  <2>1. Len(received') = Len(received) + 1 /\ received'[Len(received) + 1] = e
    BY <1>1, <1>5, <1>8, AppendIs
  <2> QED
    BY <1>3, <2>1
<1>10. answer' \in Answers
  BY <1>1, <1>5 DEF Answers
<1> HIDE DEF e
<1>11. /\ Len(received) < Len(sent) /\ e \in Numbers /\ received' = Append(received, e) /\ item' = e
       /\ sent' = sent
  BY <1>5, <1>7, <1>8, <1>9
<1> QED
  BY <1>3, <1>4, <1>10, <1>11 DEF e

LEMMA EmptyIs ==
  ASSUME TypeOK, EmptyStep
  PROVE  /\ Len(received) = Len(sent)
         /\ \/ rpc = "poll" /\ rpc' = (IF driver = "thread" THEN "publish" ELSE "own")
            \/ rpc = "drain" /\ rpc' = "own"
         /\ answer' \in Answers
         /\ empty_polls' \in 0..MaxPolls
         /\ UNCHANGED <<sent, received, policy, ppc, offered, dropped_count, driver, processed_count,
                        stop_flag, handle, item, processed, output_count, filtered_count,
                        results, before, drainFrom>>
<1>1. Len(sent) \in Nat /\ Len(received) \in Nat
  BY DEF TypeOK
<1> QED
  BY <1>1, OffersAssumption, SMTT(20) DEF TypeOK, EmptyStep, PollEmpty, DrainEmpty, AfterPoll, Ring!Empty, Ring!Size,
     Ring!Answer, pipe, producer, stats, drains, Answers

LEMMA StageIs ==
  ASSUME TypeOK, StageStep
  PROVE  /\ \/ rpc = "process" /\ rpc' = (IF driver = "thread" THEN "publish" ELSE "own")
            \/ rpc = "drainItem" /\ rpc' = "drain"
         /\ \/ /\ output_count' = output_count + 1
               /\ results' = Append(results, item)
               /\ filtered_count' = filtered_count
            \/ /\ filtered_count' = filtered_count + 1
               /\ UNCHANGED <<output_count, results>>
         /\ UNCHANGED <<sent, received, answer, policy, ppc, offered, dropped_count, driver,
                        processed_count, stop_flag, handle, item, processed, empty_polls,
                        before, drainFrom>>
  BY DEF StageStep, PollProcess, DrainProcess, ThroughStage, AfterPoll, pipe, producer, ring, drains

LEMMA PanicIs ==
  ASSUME TypeOK, Panics
  PROVE  /\ InStage /\ rpc' = (IF driver = "thread" THEN "panicked" ELSE "own")
         /\ \/ UNCHANGED <<output_count, results>>
            \/ output_count' = output_count + 1 /\ results' = Append(results, item)
         /\ drainFrom' = 0
         /\ UNCHANGED <<sent, received, answer, policy, ppc, offered, dropped_count, driver,
                        processed_count, stop_flag, handle, item, processed, empty_polls,
                        filtered_count, before>>
  BY DEF Panics, PanicIn, InStage, pipe, producer, ring

LEMMA PushIs ==
  ASSUME TypeOK, Flow, PushOk
  PROVE  /\ ppc = "push" /\ ppc' = "idle" /\ offered \in Numbers
         /\ sent' = Append(sent, offered)
         /\ answer' \in Answers
         /\ UNCHANGED <<received, policy, offered, dropped_count, runner>>
<1>1. offered \in Numbers
  BY TypeParts, ItemsAre DEF ShapesOK, Flow, PushOk
<1> QED
  BY <1>1 DEF TypeOK, PushOk, Ring!PushOk, Ring!Answer, Answers

\* The steps of the rest, in the plain.
LEMMA FullIs ==
  ASSUME TypeOK, PushFull
  PROVE  /\ ppc = "push" /\ ppc' = (IF policy = "Block" THEN "push" ELSE "countDrop")
         /\ answer' \in Answers
         /\ UNCHANGED <<sent, received, policy, offered, dropped_count, runner>>
  BY DEF TypeOK, PushFull, Ring!PushFull, Ring!Answer, Answers

---------------------------------------------------------------------------
(* Every step keeps the types                                              *)

\* The item in the stage is one that was taken.
LEMMA ItemInStage ==
  ASSUME TypeOK, Results, InStage
  PROVE  Len(received) \in 1..Len(received) /\ item = received[Len(received)] /\ item \in Numbers
<1>1. received \in Seq(Numbers)
  BY TypeParts DEF SeqsOK
<1>2. Len(received) > 0 /\ item = received[Len(received)]
  BY DEF Results
<1>3. Len(received) \in 1..Len(received)
  BY <1>1, <1>2
<1> QED
  BY <1>1, <1>2, <1>3, ItemsOf

LEMMA SeqsNext ==
  ASSUME TypeOK, Flow, Results, [Next]_vars
  PROVE  SeqsOK'
<1>1. sent \in Seq(Numbers) /\ received \in Seq(Numbers) /\ results \in Seq(Numbers)
  BY TypeParts DEF SeqsOK
<1> SUFFICES sent' \in Seq(Numbers) /\ received' \in Seq(Numbers) /\ results' \in Seq(Numbers)
  BY DEF SeqsOK
<1>2. CASE PushOk
  BY <1>1, <1>2, PushIs, AppendIs, SMTT(20) DEF runner
<1>3. CASE TakeStep
  BY <1>1, <1>3, TakeIs, AppendIs, SMTT(20)
<1>4. CASE StageStep \/ Panics
  <2>1. InStage
    BY <1>4, StageIs, PanicIs DEF InStage
  <2>2. item \in Numbers
    BY <2>1, ItemInStage
  <2>3. UNCHANGED <<sent, received>> /\ (results' = results \/ results' = Append(results, item))
    BY <1>4, StageIs, PanicIs
  <2> QED
    BY ONLY <1>1, <2>2, <2>3, AppendIs
<1>5. CASE UNCHANGED <<sent, received, results>>
  BY <1>1, <1>5
<1>6. CASE Offer \/ PushFull \/ CountDrop
  BY <1>5, <1>6, FullIs DEF Offer, CountDrop, ring, runner
<1>7. CASE EmptyStep
  BY <1>5, <1>7, EmptyIs
<1>8. CASE MoveStep \/ ResetStats
  BY <1>5, <1>8 DEF MoveStep, CheckStop, StartPoll, StartDrain, ResetStats, ring
<1>9. CASE CountStep \/ OwnerStep
  BY <1>5, <1>9 DEF CountStep, Publish, PublishLast, OwnerStep, Stop, Join, Drop, Joined, worker, ring
<1>10. CASE UNCHANGED vars
  BY <1>5, <1>10 DEF vars, ring
<1> QED
  BY <1>2, <1>3, <1>4, <1>6, <1>7, <1>8, <1>9, <1>10, NextIs

LEMMA ShapesNext ==
  ASSUME TypeOK, Flow, [Next]_vars
  PROVE  ShapesOK'
<1>1. ShapesOK
  BY TypeParts
<1>2. Len(sent) \in Nat /\ Len(received) \in Nat
  BY DEF TypeOK
<1> USE DEF ShapesOK
<1>3. CASE Offer
  BY <1>1, <1>3, OffersAssumption DEF Offer, ring, runner, stats, drains
<1>4. CASE PushOk
  BY <1>1, <1>4, PushIs DEF runner, stats, drains
<1>5. CASE PushFull
  BY <1>1, <1>5, FullIs DEF runner, stats, drains
<1>6. CASE CountDrop
  BY <1>1, <1>6 DEF CountDrop, ring, runner, stats, drains
<1>7. CASE TakeStep
  <2>1. item' \in Numbers \union {0}
    BY <1>7, TakeIs
  <2>2. processed' \in Nat /\ rpc' \in {"process", "drainItem"} /\ answer' \in Answers
    BY <1>1, <1>7, TakeIs
  <2>3. UNCHANGED <<policy, ppc, offered, dropped_count, driver, processed_count, stop_flag, handle,
                    output_count, filtered_count, empty_polls, before, drainFrom>>
    BY <1>7, TakeIs
  <2> QED
    BY <1>1, <2>1, <2>2, <2>3
<1>8. CASE EmptyStep
  BY <1>1, <1>8, EmptyIs
<1>9. CASE StageStep
  <2>1. output_count' \in Nat /\ filtered_count' \in Nat
    BY <1>1, <1>9, StageIs, SMTT(20)
  <2>2. rpc' \in {"publish", "own", "drain"}
    BY <1>9, StageIs
  <2>3. UNCHANGED <<answer, policy, ppc, offered, dropped_count, driver, processed_count,
                    stop_flag, handle, item, processed, empty_polls, before, drainFrom>>
    BY <1>9, StageIs
  <2> QED
    BY <1>1, <2>1, <2>2, <2>3, SMTT(20)
<1>10. CASE MoveStep
  BY <1>1, <1>2, <1>10, SMTT(20) DEF MoveStep, CheckStop, StartPoll, StartDrain, pipe, producer, ring, stats, drains
<1>11. CASE CountStep
  BY <1>1, <1>11 DEF CountStep, Publish, PublishLast, producer, ring, stats, drains
<1>12. CASE ResetStats
  BY <1>1, <1>12, OffersAssumption, SMTT(20) DEF ResetStats, pipe, producer, ring
<1>13. CASE OwnerStep
  <2>1. CASE Stop
    BY <1>1, <2>1, SMTT(20) DEF Stop, worker, producer, ring, stats, drains
  <2>4. CASE Join
    BY <1>1, <2>4, SMTT(20) DEF Join, worker, producer, ring, stats, drains
  <2>2. CASE Drop
    BY <1>1, <2>2, SMTT(20) DEF Drop, worker, producer, ring, stats, drains
  <2>3. CASE Joined
    BY <1>1, <2>3, SMTT(20) DEF Joined, worker, producer, ring, stats, drains
  <2> QED
    BY <1>13, <2>1, <2>2, <2>3, <2>4 DEF OwnerStep
<1>14. CASE UNCHANGED vars
  BY <1>1, <1>14 DEF vars, producer, ring, stats, drains
<1>15. CASE Panics
  <2>1. output_count' \in Nat /\ rpc' \in {"panicked", "own"} /\ drainFrom' \in Nat
    BY <1>1, <1>15, PanicIs
  <2>2. UNCHANGED <<answer, policy, ppc, offered, dropped_count, driver, filtered_count,
                    processed_count, stop_flag, handle, item, processed, empty_polls, before>>
    BY <1>15, PanicIs
  <2> QED
    BY <1>1, <2>1, <2>2, SMTT(20)
<1> QED
  BY <1>3, <1>4, <1>5, <1>6, <1>7, <1>8, <1>9, <1>10, <1>11, <1>12, <1>13, <1>14, <1>15, NextIs

\* A push finds room, and what was dropped had been offered.
LEMMA BoundsNext ==
  ASSUME TypeOK, Flow, SeqsOK', ShapesOK', OffersAccounted', [Next]_vars
  PROVE  BoundsOK'
<1>1. dropped_count' <= offered'
  <2>1. /\ Len(sent') \in Nat /\ dropped_count' \in Nat
        /\ offered' = Len(sent') + dropped_count' + (IF ppc' = "idle" THEN 0 ELSE 1)
    BY DEF SeqsOK, ShapesOK, OffersAccounted
  <2> QED
    BY ONLY <2>1
<1>2. /\ sent \in Seq(Numbers) /\ received \in Seq(Numbers) /\ Capacity \in Nat
      /\ Len(sent) \in Nat /\ Len(received) \in Nat
      /\ Len(sent) - Len(received) <= Capacity
  BY TypeParts, CapacityAssumption DEF SeqsOK, BoundsOK
<1> SUFFICES Len(sent') - Len(received') <= Capacity
  BY <1>1 DEF BoundsOK
<1>3. CASE PushOk
  <2>1. Len(sent) - Len(received) < Capacity
    BY <1>3 DEF PushOk, Ring!PushOk, Ring!Size
  <2>2. Len(sent') = Len(sent) + 1 /\ received' = received
    BY <1>2, <1>3, PushIs, AppendIs
  <2> QED
    BY ONLY <1>2, <2>1, <2>2
<1>4. CASE TakeStep
  <2>1. Len(received') = Len(received) + 1 /\ sent' = sent
    BY <1>2, <1>4, TakeIs, AppendIs
  <2> QED
    BY ONLY <1>2, <2>1
<1>5. CASE UNCHANGED <<sent, received>>
  BY <1>2, <1>5
<1>6. CASE Offer \/ PushFull \/ CountDrop
  BY <1>5, <1>6, FullIs DEF Offer, CountDrop, ring, runner
<1>7. CASE EmptyStep \/ StageStep \/ Panics
  BY <1>5, <1>7, EmptyIs, StageIs, PanicIs
<1>8. CASE MoveStep \/ ResetStats
  BY <1>5, <1>8 DEF MoveStep, CheckStop, StartPoll, StartDrain, ResetStats, ring
<1>9. CASE CountStep \/ OwnerStep
  BY <1>5, <1>9 DEF CountStep, Publish, PublishLast, OwnerStep, Stop, Join, Drop, Joined, worker, ring
<1>10. CASE UNCHANGED vars
  BY <1>5, <1>10 DEF vars, ring
<1> QED
  BY <1>3, <1>4, <1>6, <1>7, <1>8, <1>9, <1>10, NextIs

---------------------------------------------------------------------------
(* The order of the items                                                  *)

LEMMA FlowNext ==
  ASSUME TypeOK, Flow, [Next]_vars
  PROVE  Flow'
<1> USE DEF Flow
<1>1. /\ sent \in Seq(Numbers) /\ received \in Seq(Numbers)
      /\ Len(sent) \in Nat /\ Len(received) \in Nat
      /\ offered \in Nat
      /\ \A k \in 1..Len(sent) : sent[k] \in Nat
  <2>1. sent \in Seq(Numbers) /\ received \in Seq(Numbers) /\ offered \in Nat
    BY TypeParts DEF SeqsOK, ShapesOK
  <2> QED
    BY <2>1, ItemsOf, ItemsAre
<1>2. CASE Offer
  BY <1>1, <1>2 DEF Offer, ring
<1>3. CASE PushOk
  <2>1. /\ Len(sent') = Len(sent) + 1
        /\ \A k \in 1..Len(sent) : sent'[k] = sent[k]
        /\ sent'[Len(sent) + 1] = offered
        /\ ppc = "push" /\ ppc' = "idle" /\ offered' = offered /\ received' = received
    BY <1>1, <1>3, PushIs, AppendIs
  <2>2. \A k \in 1..Len(sent') : k \in 1..Len(sent) \/ k = Len(sent) + 1
    BY <1>1, <2>1
  <2>3. \A k \in 1..Len(received) : k \in 1..Len(sent)
    BY <1>1
  <2>4. \A k \in 1..Len(sent) : sent[k] < offered
    BY <2>1
  <2>5. \A k \in 1..Len(received') : received'[k] = sent'[k]
    BY <2>1, <2>3
  <2>6. \A j, k \in 1..Len(sent') : j < k => sent'[j] < sent'[k]
    <3>1. TAKE j \in 1..Len(sent'), k \in 1..Len(sent')
    <3>2. CASE k \in 1..Len(sent)
      <4>1. j < k => j \in 1..Len(sent)
        BY <1>1, <2>1, <3>2
      <4> QED
        BY <2>1, <3>2, <4>1
    <3>3. CASE k = Len(sent) + 1
      <4>1. j < k => j \in 1..Len(sent)
        BY <1>1, <2>1, <3>3
      <4> QED
        BY <2>1, <2>4, <3>3, <4>1
    <3> QED
      BY <2>2, <3>2, <3>3
  <2>7. \A k \in 1..Len(sent') : sent'[k] <= offered'
    BY <1>1, <2>1, <2>2
  <2>8. Len(received') <= Len(sent')
    BY <1>1, <2>1
  <2> QED
    BY <1>1, <2>1, <2>5, <2>6, <2>7, <2>8
<1>4. CASE PushFull
  BY <1>4, FullIs
<1>5. CASE CountDrop
  BY <1>1, <1>5 DEF CountDrop, ring
<1>6. CASE TakeStep
  <2> DEFINE e == sent[Len(received) + 1]
  <2>1. /\ Len(received) < Len(sent) /\ e \in Numbers
        /\ received' = Append(received, e)
        /\ UNCHANGED <<sent, ppc, offered>>
    BY <1>6, TakeIs
  <2>2. /\ Len(received') = Len(received) + 1
        /\ \A k \in 1..Len(received) : received'[k] = received[k]
        /\ received'[Len(received) + 1] = e
    BY <1>1, <2>1, AppendIs
  <2>3. \A k \in 1..Len(received') : k \in 1..Len(received) \/ k = Len(received) + 1
    BY <1>1, <2>2
  <2> QED
    BY <1>1, <2>1, <2>2, <2>3
<1>7. ASSUME UNCHANGED <<sent, received, offered, ppc>> PROVE Flow'
  BY <1>7
<1>8. CASE EmptyStep \/ StageStep \/ Panics
  BY <1>7, <1>8, EmptyIs, StageIs, PanicIs
<1>9. CASE MoveStep \/ ResetStats
  BY <1>7, <1>9 DEF MoveStep, CheckStop, StartPoll, StartDrain, ResetStats, pipe, producer, ring
<1>10. CASE CountStep \/ OwnerStep
  BY <1>7, <1>10 DEF CountStep, Publish, PublishLast, OwnerStep, Stop, Join, Drop, Joined,
     pipe, worker, producer, ring
<1>11. CASE UNCHANGED vars
  BY <1>7, <1>11 DEF vars, producer, ring
<1> QED
  BY <1>2, <1>3, <1>4, <1>5, <1>6, <1>8, <1>9, <1>10, <1>11, NextIs

---------------------------------------------------------------------------
(* The account of the items                                                *)

LEMMA OffersNext ==
  ASSUME TypeOK, Flow, Offers, [Next]_vars
  PROVE  Offers'
<1> USE DEF Offers, OffersAccounted
<1>1. /\ sent \in Seq(Numbers) /\ received \in Seq(Numbers)
      /\ Len(sent) \in Nat /\ Len(received) \in Nat
      /\ offered \in Nat /\ dropped_count \in Nat /\ processed \in Nat
      /\ before \in [processed : Nat, output : Nat]
      /\ before.processed \in Nat
  BY TypeParts, SMTT(20) DEF SeqsOK, ShapesOK
<1>2. CASE Offer
  BY <1>1, <1>2, SMTT(20) DEF Offer, ring, runner, stats, drains
<1>3. CASE PushOk
  <2>1. Len(sent') = Len(sent) + 1
    BY <1>1, <1>3, PushIs, AppendIs
  <2> QED
    BY <1>1, <1>3, <2>1, PushIs DEF runner, stats, drains
<1>4. CASE PushFull
  BY <1>1, <1>4, FullIs DEF runner, stats, drains
<1>5. CASE CountDrop
  BY <1>1, <1>5 DEF CountDrop, ring, runner, stats, drains
<1>6. CASE TakeStep
  <2>1. Len(received') = Len(received) + 1
    BY <1>1, <1>6, TakeIs, AppendIs
  <2> QED
    BY <1>1, <1>6, <2>1, TakeIs
<1>7. CASE EmptyStep \/ StageStep \/ Panics
  BY <1>7, EmptyIs, StageIs, PanicIs
<1>8. CASE MoveStep \/ CountStep \/ OwnerStep
  BY <1>8 DEF MoveStep, CheckStop, StartPoll, StartDrain, CountStep, Publish, PublishLast,
     OwnerStep, Stop, Join, Drop, Joined, pipe, worker, producer, ring, stats, drains
<1>9. CASE ResetStats
  <2>1. /\ UNCHANGED <<sent, received, policy, ppc, offered, dropped_count>>
        /\ processed' = 0 /\ before'.processed = before.processed + processed
    BY <1>9 DEF ResetStats, pipe, producer, ring
  <2> QED
    BY <1>1, <2>1
<1>10. CASE UNCHANGED vars
  BY <1>10 DEF vars, producer, ring, stats, drains
<1> QED
  BY <1>2, <1>3, <1>4, <1>5, <1>6, <1>7, <1>8, <1>9, <1>10, NextIs

---------------------------------------------------------------------------
(* The results                                                             *)

LEMMA ResultsNext ==
  ASSUME TypeOK, Flow, Results, Published, [Next]_vars
  PROVE  Results'
<1> USE DEF Results, InStage
<1>1. /\ sent \in Seq(Numbers) /\ received \in Seq(Numbers)
      /\ results \in Seq(Numbers)
      /\ Len(sent) \in Nat /\ Len(received) \in Nat /\ Len(results) \in Nat
      /\ output_count \in Nat /\ drainFrom \in Nat
      /\ before.output \in Nat /\ Len(received) <= Len(sent)
  BY TypeParts, SMTT(20) DEF SeqsOK, ShapesOK, Flow
<1>0. /\ \A k \in 1..Len(sent) : sent[k] \in Nat
      /\ \A k \in 1..Len(received) : received[k] \in Nat
      /\ \A k \in 1..Len(results) : results[k] \in Nat
  BY <1>1, ItemsOf, ItemsAre
<1>2. CASE PushOk
  <2>1. Len(sent') = Len(sent) + 1
    BY <1>1, <1>2, PushIs, AppendIs
  <2>2. UNCHANGED <<received, results, before, output_count, rpc, item, drainFrom>>
    BY <1>2, PushIs DEF runner, stats, drains
  <2> QED
    BY <1>1, <2>1, <2>2
<1>3. CASE Offer \/ PushFull \/ CountDrop
  BY <1>3, FullIs DEF Offer, CountDrop, ring, runner, stats, drains
<1>4. CASE TakeStep
  <2> DEFINE e == sent[Len(received) + 1]
  <2>1. /\ Len(received) < Len(sent) /\ e \in Numbers /\ item' = e
        /\ received' = Append(received, e)
        /\ (rpc = "poll" /\ rpc' = "process") \/ (rpc = "drain" /\ rpc' = "drainItem")
        /\ UNCHANGED <<sent, results, before, output_count, drainFrom>>
    BY <1>4, TakeIs
  <2>2. /\ Len(received') = Len(received) + 1
        /\ \A k \in 1..Len(received) : received'[k] = received[k]
        /\ received'[Len(received) + 1] = e
    BY <1>1, <2>1, AppendIs
  <2>3. \A k \in 1..Len(received) : received[k] < e
    <3>1. TAKE k \in 1..Len(received)
    <3>2. k \in 1..Len(sent) /\ Len(received) + 1 \in 1..Len(sent) /\ k < Len(received) + 1
      BY <1>1, <2>1
    <3>3. received[k] = sent[k]
      BY DEF Flow
    <3> QED
      BY <3>2, <3>3 DEF Flow
  <2>4. \A j \in 1..Len(results) : \E k \in 1..Len(received') : received'[k] = results[j]
    BY <1>1, <2>2
  <2>5. \A j \in 1..Len(results) : results[j] < e
    BY <2>3
  <2> HIDE DEF e
  <2> QED
    BY <1>1, <2>1, <2>2, <2>4, <2>5
<1>5. CASE EmptyStep
  BY <1>1, <1>5, EmptyIs
<1>6. CASE StageStep \/ Panics
  <2>1. /\ InStage /\ rpc' \notin {"process", "drainItem"}
        /\ rpc' # "drain" => drainFrom' <= Len(received)
        /\ drainFrom' <= Len(sent)
        /\ UNCHANGED <<sent, received, before>>
    BY <1>1, <1>6, StageIs, PanicIs
  <2>2. /\ Len(received) \in 1..Len(received) /\ item = received[Len(received)] /\ item \in Numbers
        /\ item \in Nat
    BY <2>1, ItemInStage, ItemsAre DEF InStage
  <2>3. CASE UNCHANGED <<output_count, results>>
    BY <2>1, <2>3
  <2>4. CASE output_count' = output_count + 1 /\ results' = Append(results, item)
    <3>1. /\ Len(results') = Len(results) + 1
          /\ \A k \in 1..Len(results) : results'[k] = results[k]
          /\ results'[Len(results) + 1] = item
      BY ONLY <1>1, <2>2, <2>4, AppendIs
    <3>2. \A k \in 1..Len(results') : k \in 1..Len(results) \/ k = Len(results) + 1
      BY <1>1, <3>1
    <3>3. \A j, k \in 1..Len(results') : j < k => results'[j] < results'[k]
      <4>1. TAKE j \in 1..Len(results'), k \in 1..Len(results')
      <4>2. CASE k \in 1..Len(results)
        <5>1. j < k => j \in 1..Len(results)
          BY <1>1, <3>1, <4>2
        <5>2. \A i, m \in 1..Len(results) : i < m => results[i] < results[m]
          OBVIOUS
        <5> QED
          BY ONLY <3>1, <4>2, <5>1, <5>2
      <4>3. CASE k = Len(results) + 1
        <5>1. j < k => j \in 1..Len(results)
          BY <1>1, <3>1, <4>3
        <5>2. \A i \in 1..Len(results) : results[i] < item
          BY <2>1
        <5> QED
          BY ONLY <3>1, <4>3, <5>1, <5>2
      <4> QED
        BY <3>2, <4>2, <4>3
    <3>4. \A j \in 1..Len(results') : \E k \in 1..Len(received) : received[k] = results'[j]
      BY <2>2, <3>1, <3>2
    <3>5. Len(results') = before'.output + output_count'
      <4>1. /\ Len(results) = before.output + output_count /\ before'.output = before.output
            /\ Len(results') = Len(results) + 1 /\ output_count' = output_count + 1
            /\ before.output \in Nat /\ output_count \in Nat
        BY <1>1, <2>1, <2>4, <3>1
      <4> QED
        BY ONLY <4>1
    <3> QED
      BY <1>1, <2>1, <3>3, <3>4, <3>5
  <2> QED
    BY <1>6, <2>3, <2>4, StageIs, PanicIs
<1>7. CASE MoveStep
  <2>1. /\ UNCHANGED <<sent, received, results, before, output_count, item>>
        /\ rpc \notin {"process", "drainItem", "drain"} /\ rpc' \notin {"process", "drainItem"}
        /\ (drainFrom' = drainFrom /\ rpc' # "drain") \/ (drainFrom' = Len(sent) /\ rpc' = "drain")
    BY <1>7 DEF MoveStep, CheckStop, StartPoll, StartDrain, pipe, producer, ring, stats, drains
  <2> QED
    BY <1>1, <2>1
<1>8. CASE CountStep
  BY <1>8 DEF CountStep, Publish, PublishLast, pipe, producer, ring, stats, drains
<1>9. CASE ResetStats
  <2>1. /\ UNCHANGED <<sent, received, results, drainFrom, rpc, item>>
        /\ output_count' = 0 /\ before'.output = before.output + output_count
    BY <1>9 DEF ResetStats, pipe, ring
  <2> QED
    BY <1>1, <2>1
<1>10. CASE OwnerStep \/ UNCHANGED vars
  BY <1>10 DEF vars, OwnerStep, Stop, Join, Drop, Joined, worker, producer, ring, stats, drains
<1> QED
  BY <1>2, <1>3, <1>4, <1>5, <1>6, <1>7, <1>8, <1>9, <1>10, NextIs

---------------------------------------------------------------------------
(* The published count                                                     *)

LEMMA PublishedNext ==
  ASSUME TypeOK, Flow, Published, [Next]_vars
  PROVE  Published'
<1> USE DEF Published, InStage
<1>1. /\ processed \in Nat /\ processed_count \in Nat /\ output_count \in Nat
      /\ filtered_count \in Nat /\ Period \in Nat /\ Period > 0
  BY PeriodAssumption DEF TypeOK
<1>2. CASE Offer \/ CountDrop
  BY <1>2 DEF Offer, CountDrop, runner, stats
<1>3. CASE PushOk \/ PushFull
  BY <1>3, PushIs, FullIs DEF runner, stats
<1>4. CASE TakeStep
  <2>1. /\ (rpc = "poll" /\ rpc' = "process") \/ (rpc = "drain" /\ rpc' = "drainItem")
        /\ processed' = processed + 1
        /\ UNCHANGED <<driver, processed_count, handle, output_count, filtered_count>>
    BY <1>4, TakeIs
  <2> QED
    BY <1>1, <2>1
<1>5. CASE EmptyStep
  BY <1>1, <1>5, EmptyIs
<1>6. CASE StageStep
  BY <1>1, <1>6, StageIs
<1>6a. CASE Panics
  BY <1>1, <1>6a, PanicIs
<1>7. CASE MoveStep
  BY <1>1, <1>7 DEF MoveStep, CheckStop, StartPoll, StartDrain, pipe, stats
<1>8. CASE Publish
  <2>1. driver = "thread" /\ rpc = "publish" /\ rpc' = "check"
    BY <1>8 DEF Publish, TypeOK
  <2>2. UNCHANGED <<driver, handle, processed, output_count, filtered_count>>
    BY <1>8 DEF Publish, stats
  <2>3. CASE processed % Period = 0
    BY <1>1, <1>8, <2>1, <2>2, <2>3 DEF Publish
  <2>4. CASE processed % Period # 0
    <3>1. processed_count' = processed_count
      BY <1>8, <2>4 DEF Publish
    <3>2. processed # processed_count + Period
      BY <1>1, <2>1, <2>4, NextMultiple
    <3>3. processed - processed_count < Period
      BY <1>1, <2>1, <3>2
    <3> QED
      BY <1>1, <2>1, <2>2, <3>1, <3>3
  <2> QED
    BY <2>3, <2>4
<1>9. CASE PublishLast
  BY <1>1, <1>9 DEF PublishLast, TypeOK, stats
<1>10. CASE ResetStats
  <2>1. driver = "caller"
    BY <1>10 DEF ResetStats, TypeOK
  <2> QED
    BY <1>1, <1>10, <2>1 DEF ResetStats, pipe
<1>11. CASE OwnerStep
  BY <1>1, <1>11 DEF OwnerStep, Stop, Join, Drop, Joined, worker, stats, ThreadEnded
<1>12. CASE UNCHANGED vars
  BY <1>12 DEF vars, stats
<1> QED
  BY <1>2, <1>3, <1>4, <1>5, <1>6, <1>6a, <1>7, <1>8, <1>9, <1>10, <1>11, <1>12, NextIs DEF CountStep

LEMMA BalanceNext ==
  ASSUME TypeOK, Flow, Balance, Published, [Next]_vars
  PROVE  Balance'
<1> USE DEF Balance, InStage
<1>1. processed \in Nat /\ output_count \in Nat /\ filtered_count \in Nat
  BY DEF TypeOK
<1>2. CASE UNCHANGED <<driver, rpc, processed, output_count, filtered_count>>
  BY <1>2
<1>3. CASE Offer \/ CountDrop
  BY <1>2, <1>3 DEF Offer, CountDrop, runner, stats
<1>4. CASE PushOk \/ PushFull
  BY <1>2, <1>4, PushIs, FullIs DEF runner, stats
<1>5. CASE TakeStep
  <2>1. /\ (rpc = "poll" /\ rpc' = "process") \/ (rpc = "drain" /\ rpc' = "drainItem")
        /\ processed' = processed + 1
        /\ UNCHANGED <<driver, output_count, filtered_count>>
    BY <1>5, TakeIs
  <2> QED
    BY <1>1, <2>1
<1>6. CASE EmptyStep
  <2>1. /\ rpc \in {"poll", "drain"} /\ rpc' \in {"publish", "own"}
        /\ UNCHANGED <<driver, processed, output_count, filtered_count>>
    BY <1>6, EmptyIs
  <2> QED
    BY <2>1
<1>7. CASE StageStep
  <2>1. /\ rpc \in {"process", "drainItem"} /\ rpc' \in {"publish", "own", "drain"}
        /\ UNCHANGED <<driver, processed>>
    BY <1>7, StageIs
  <2>2. \/ output_count' = output_count + 1 /\ filtered_count' = filtered_count
        \/ filtered_count' = filtered_count + 1 /\ output_count' = output_count
    BY <1>7, StageIs
  <2> QED
    BY <1>1, <2>1, <2>2
<1>8. CASE Panics
  <2>1. InStage /\ rpc' \in {"panicked", "own"} /\ (driver = "thread" => rpc' = "panicked")
        /\ UNCHANGED <<driver, processed, filtered_count>>
    BY <1>8, PanicIs
  <2>2. output_count' = output_count \/ output_count' = output_count + 1
    BY <1>8, PanicIs
  <2> QED
    BY <1>1, <2>1, <2>2
<1>9. CASE MoveStep \/ CountStep
  <2>1. /\ ~InStage /\ rpc # "panicked" /\ ~InStage' /\ rpc' # "panicked"
        /\ UNCHANGED <<driver, processed, output_count, filtered_count>>
    BY <1>9 DEF MoveStep, CheckStop, StartPoll, StartDrain, CountStep, Publish, PublishLast, pipe, stats
  <2> QED
    BY <2>1
<1>10. CASE ResetStats
  <2>1. driver # "thread" /\ driver' = driver
    BY <1>10 DEF ResetStats, Published, TypeOK, pipe
  <2> QED
    BY <2>1
<1>11. CASE OwnerStep
  BY <1>2, <1>11 DEF OwnerStep, Stop, Join, Drop, Joined, worker, stats
<1>12. CASE UNCHANGED vars
  BY <1>2, <1>12 DEF vars, stats
<1> QED
  BY <1>3, <1>4, <1>5, <1>6, <1>7, <1>8, <1>9, <1>10, <1>11, <1>12, NextIs

---------------------------------------------------------------------------
(* The theorems                                                            *)

THEOREM Invariance == Spec => []IInv
<1>1. IInv /\ [Next]_vars => IInv'
  <2> SUFFICES ASSUME IInv, [Next]_vars PROVE IInv'
    OBVIOUS
  <2>1. SeqsOK' /\ ShapesOK' /\ Offers' /\ OffersAccounted'
    BY SeqsNext, ShapesNext, OffersNext DEF IInv, Offers
  <2>2. BoundsOK'
    BY <2>1, BoundsNext DEF IInv
  <2>3. TypeOK'
    BY <2>1, <2>2, TypeParts, PTL
  <2> QED
    BY <2>1, <2>3, FlowNext, ResultsNext, PublishedNext, BalanceNext DEF IInv
<1> QED
  BY <1>1, InvInit, PTL DEF Spec

\* The types hold in every state.
THEOREM TypeCorrect == Spec => []TypeOK
<1>1. IInv => TypeOK
  BY DEF IInv
<1> QED
  BY <1>1, Invariance, PTL

\* Whatever the policy and whoever drives the runner, every item that was offered is
\* in the ring, processed, dropped and counted, or in the producer's hands.
THEOREM NothingUncounted == Spec => []OffersAccounted
<1>1. IInv => OffersAccounted
  BY DEF IInv, Offers
<1> QED
  BY <1>1, Invariance, PTL

\* The callback sees each item at most once and in the order of the offers, and a
\* drain leaves nothing behind that was accepted before it.
THEOREM OrderOfResults == Spec => []ResultsInOrder
<1>1. IInv => ResultsInOrder
  BY DEF IInv, Results, ResultsInOrder
<1> QED
  BY <1>1, Invariance, PTL

\* For every period, the published count is less than one period behind between two
\* items, and exact when the thread has come to its end; join returns only for such a
\* thread. A thread that panicked, which drop does not tell from it, leaves the count
\* at most one period behind.
THEOREM CountIsClose == Spec => []PublishedCountIsClose
<1>1. IInv => PublishedCountIsClose
  <2> SUFFICES ASSUME IInv PROVE PublishedCountIsClose
    OBVIOUS
  <2>1. /\ processed \in Nat /\ output_count \in Nat /\ filtered_count \in Nat
        /\ processed_count \in Nat
    BY DEF IInv, TypeOK
  <2>2. rpc \in {"check", "done", "panicked"} => driver = "thread" /\ ~InStage
    BY DEF IInv, TypeOK, Published, InStage
  <2>3. /\ rpc = "done" => processed = output_count + filtered_count
        /\ rpc = "panicked" => processed - (output_count + filtered_count) \in {0, 1}
    BY <2>1, <2>2 DEF IInv, Balance
  <2> QED
    BY <2>2, <2>3 DEF IInv, Published, PublishedCountIsClose, ThreadEnded
<1> QED
  BY <1>1, Invariance, PTL


---------------------------------------------------------------------------
(* StageHandle: the invariant                                              *)

OwnerTypes ==
  /\ hpc \in [Stages -> {"unborn", "spawned", "held", "flag", "join", "gone"} \union Dropping]
  /\ calling \in [Stages -> {"Run", "Pause", "Resume", "Reset", "Shutdown"}]
  /\ thread \in [Stages -> {"here", "joined", "failed"}]
  /\ commanded \in 0..HandleCommands /\ accepted \in 0..MaxItems
  /\ overwritten \in [Stages -> BOOLEAN]

\* A handle that is joined, or that drop has awaited, has a thread that ended.
JoinedTruly ==
  \A s \in Stages : /\ thread[s] = "joined" => wpc[s] = "exited"
                    /\ thread[s] = "failed" => wpc[s] = "panicked"
                    /\ hpc[s] \in {"dropOutput", "gone"} => thread[s] # "here"

\* The builder stores Running once, and the state follows the worker if that store
\* came before the worker's own last two.
StateFollows ==
  \A s \in Stages :
    /\ hpc[s] \in {"unborn", "spawned"} => ~overwritten[s]
    /\ overwritten[s] => state[s] # "Created"
    /\ ~overwritten[s] => /\ wpc[s] \in {"flush", "countFlush", "stopped"} => state[s] = "Stopping"
                          /\ wpc[s] \in {"return", "exited"} => state[s] = "Stopped"

HandleInv == OwnerTypes /\ WorkerInv /\ JoinedTruly /\ StateFollows

LEMMA HandleInvInit == HandleInit => HandleInv
<1> SUFFICES ASSUME HandleInit PROVE HandleInv
  OBVIOUS
<1>1. WorkerInv
  BY WorkerInvInit DEF HandleInit
<1>2. OwnerTypes
  BY HandleBounds, ItemsAssumption DEF HandleInit, OwnerTypes
<1>3. JoinedTruly /\ StateFollows
  BY DEF HandleInit, WorkerInit, JoinedTruly, StateFollows
<1> QED
  BY <1>1, <1>2, <1>3 DEF HandleInv

---------------------------------------------------------------------------
(* The workers, under these owners                                         *)

LEMMA ReleaseKeeps ==
  ASSUME WorkerInv, NEW who \in outputRx, ReleaseOutput(who), UNCHANGED <<threads, control, metrics, late>>,
         inputTx' = inputTx
  PROVE  WorkerInv'
<1>1. outputRx' = {} <=> outputRx = {who}
  BY DEF ReleaseOutput
<1>2. \/ Discard(K) /\ outputRx' = {}
      \/ UNCHANGED channels /\ (outputRx' = {} => outputRx = {})
  BY <1>1 DEF ReleaseOutput
<1> QED
  BY <1>2, EndsKeep

\* Steps of the owners that write no control word and no channel.
LEMMA NoWordKeeps ==
  ASSUME WorkerInv, UNCHANGED <<threads, control, metrics, channels, late>>,
         inputTx = {} => inputTx' = {}, outputRx = {} <=> outputRx' = {}
  PROVE  WorkerInv'
BY EndsKeep

LEMMA WordKeeps ==
  ASSUME HandleInv, NEW s \in Stages,
         \/ StoreRunning(s)
         \/ StartDrop(s)
         \/ SetFlag(s)
         \/ \E cmd \in {"Pause", "Resume", "Reset", "Shutdown"} : SetCommand(s, cmd)
  PROVE  WorkerInv'
<1> USE DEF HandleInv, WorkerInv
<1>0. UNCHANGED <<threads, metrics, channels, inputTx, outputRx, late>>
  BY DEF StoreRunning, StartDrop, SetFlag, SetCommand
<1>1. CASE StoreRunning(s)
  <2>1. WorkerTypeOK'
    BY <1>0, <1>1 DEF StoreRunning, WorkerTypeOK, threads, metrics, channels
  <2> QED
    BY <1>0, <1>1, <2>1, CommandKeeps DEF StoreRunning
<1>2. ASSUME NEW cmd \in {"Run", "Pause", "Resume", "Reset", "Shutdown"}, StoreCommand(s, cmd),
             UNCHANGED <<shutdown, paused, state>>
      PROVE  WorkerInv'
  <2>1. WorkerTypeOK'
    BY <1>0, <1>2 DEF StoreCommand, WorkerTypeOK, threads, metrics, channels
  <2> QED
    BY <1>0, <1>2, <2>1, CommandKeeps
<1>3. CASE SetFlag(s)
  <2>1. StoreFlag(s, calling[s]) /\ UNCHANGED <<command, state>>
    BY <1>3 DEF SetFlag
  <2>2. /\ \A r \in Stages : shutdown[r] => shutdown'[r]
        /\ shutdown' \in [Stages -> BOOLEAN] /\ paused' \in [Stages -> BOOLEAN]
    BY <2>1 DEF StoreFlag, WorkerTypeOK
  <2>3. WorkerTypeOK'
    BY <1>0, <2>1, <2>2 DEF WorkerTypeOK, threads, metrics, channels
  <2> QED
    BY <1>0, <2>2, <2>3, CommandKeeps
<1> QED
  BY <1>1, <1>2, <1>3 DEF StartDrop, SetCommand

LEMMA WorkersKeep ==
  ASSUME HandleInv, HandleNext
  PROVE  WorkerInv'
<1> USE DEF HandleInv
<1>1. CASE SendIn
  <2>1. accepted + 1 \in Items /\ inputTx # {}
    BY <1>1, ItemsAssumption DEF SendIn, OwnerTypes, Items
  <2>2. Room(0) /\ Add(0, accepted + 1) /\ UNCHANGED <<threads, control, metrics, lost, inputTx, outputRx, late>>
    BY <1>1 DEF SendIn
  <2> QED
    BY <2>1, <2>2, SendKeeps
<1>2. CASE TakeOut
  BY <1>2, ReceiveKeeps DEF TakeOut
<1>3. CASE TakeInput \/ TakeOutput
  BY <1>3, NoWordKeeps DEF TakeInput, TakeOutput
<1>4. CASE DropInput
  BY <1>4, NoWordKeeps DEF DropInput
<1>5. CASE DropOutput
  BY <1>5, ReleaseKeeps DEF DropOutput
<1>6. ASSUME NEW s \in Stages, HandleWork(s) PROVE WorkerInv'
  BY <1>6, WorkKeeps DEF HandleWork
<1>7. ASSUME NEW s \in Stages, Spawn(s) \/ StartJoin(s) \/ EndJoin(s) \/ DropAwaits(s) PROVE WorkerInv'
  BY <1>7, NoWordKeeps DEF Spawn, StartJoin, EndJoin, DropAwaits, workerVars
<1>8. ASSUME NEW s \in Stages, DropTakesInput(s) PROVE WorkerInv'
  BY <1>8, NoWordKeeps DEF DropTakesInput
<1>9. ASSUME NEW s \in Stages, DropFields(s) PROVE WorkerInv'
  <2>1. CASE s = K /\ "handle" \in outputRx
    BY <1>9, <2>1, ReleaseKeeps DEF DropFields
  <2>2. CASE ~(s = K /\ "handle" \in outputRx)
    BY <1>9, <2>2, NoWordKeeps DEF DropFields
  <2> QED
    BY <2>1, <2>2
<1> QED
  BY <1>1, <1>2, <1>3, <1>4, <1>5, <1>6, <1>7, <1>8, <1>9, WordKeeps
     DEF HandleNext, EndsNext, OwnerNext, Dropped

---------------------------------------------------------------------------
(* The owners                                                              *)

\* What a step of the owner of s, of the ends or of a worker leaves as it was.
LEMMA OwnerTypesKeep ==
  ASSUME HandleInv, HandleNext
  PROVE  OwnerTypes'
<1> USE DEF HandleInv, OwnerTypes
<1>1. CASE EndsNext
  <2>1. UNCHANGED <<hpc, calling, thread, commanded, overwritten>> /\ accepted' \in 0..MaxItems
    BY <1>1, ItemsAssumption DEF EndsNext, SendIn, TakeOut, TakeInput, TakeOutput, DropInput, DropOutput,
                                 handles, owners
  <2> QED
    BY <2>1
<1>2. ASSUME NEW s \in Stages, HandleWork(s) PROVE OwnerTypes'
  BY <1>2 DEF HandleWork, owners
<1>3. ASSUME NEW s \in Stages, OwnerNext(s) PROVE OwnerTypes'
  <2>1. hpc' \in [Stages -> {"unborn", "spawned", "held", "flag", "join", "gone"} \union Dropping]
    BY <1>3 DEF OwnerNext, Dropped, Dropping, HandleGoto, Spawn, StoreRunning, SetCommand, SetFlag,
                StartJoin, EndJoin, StartDrop, DropTakesInput, DropAwaits, DropFields
  <2>2. calling' \in [Stages -> {"Run", "Pause", "Resume", "Reset", "Shutdown"}]
    BY <1>3 DEF OwnerNext, Dropped, Spawn, StoreRunning, SetCommand, SetFlag,
                StartJoin, EndJoin, StartDrop, DropTakesInput, DropAwaits, DropFields
  <2>3. thread' \in [Stages -> {"here", "joined", "failed"}]
    BY <1>3 DEF OwnerNext, Dropped, Spawn, StoreRunning, SetCommand, SetFlag, AwaitThread,
                StartJoin, EndJoin, StartDrop, DropTakesInput, DropAwaits, DropFields
  <2>4. commanded' \in 0..HandleCommands /\ accepted' = accepted
    BY <1>3, HandleBounds DEF OwnerNext, Dropped, Spawn, StoreRunning, SetCommand, SetFlag,
                StartJoin, EndJoin, StartDrop, DropTakesInput, DropAwaits, DropFields
  <2>5. overwritten' \in [Stages -> BOOLEAN]
    <3>1. CASE StoreRunning(s)
      <4>1. (state[s] \in {"Stopping", "Stopped"}) \in BOOLEAN
        OBVIOUS
      <4> QED
        BY <3>1, <4>1 DEF StoreRunning
    <3>2. CASE ~StoreRunning(s)
      BY <1>3, <3>2 DEF OwnerNext, Dropped, Spawn, SetCommand, SetFlag,
                        StartJoin, EndJoin, StartDrop, DropTakesInput, DropAwaits, DropFields
    <3> QED
      BY <3>1, <3>2
  <2> QED
    BY <2>1, <2>2, <2>3, <2>4, <2>5
<1> QED
  BY <1>1, <1>2, <1>3 DEF HandleNext

\* A thread that has ended stays so.
LEMMA EndedStays ==
  ASSUME WorkerInv, NEW s \in Stages, Work(s), NEW r \in Stages, wpc[r] \in Ended
  PROVE  wpc'[r] = wpc[r]
<1>1. wpc[s] \notin Ended /\ \A t \in Stages \ {s} : wpc'[t] = wpc[t]
  BY WorkIsLocal
<1> QED
  BY <1>1
LEMMA JoinedKeeps ==
  ASSUME HandleInv, HandleNext
  PROVE  JoinedTruly'
<1> USE DEF HandleInv
<1>0. hpc \in [Stages -> {"unborn", "spawned", "held", "flag", "join", "gone"} \union Dropping]
      /\ thread \in [Stages -> {"here", "joined", "failed"}]
  BY DEF OwnerTypes
<1>1. CASE EndsNext
  <2>1. UNCHANGED <<wpc, hpc, thread>>
    BY <1>1 DEF EndsNext, SendIn, TakeOut, TakeInput, TakeOutput, DropInput, DropOutput, handles, owners, threads
  <2> QED
    BY <2>1 DEF JoinedTruly
<1>2. ASSUME NEW s \in Stages, HandleWork(s) PROVE JoinedTruly'
  <2>1. UNCHANGED <<hpc, thread>>
    BY <1>2 DEF HandleWork, owners
  <2>2. \A r \in Stages : wpc[r] \in Ended => wpc'[r] = wpc[r]
    BY <1>2, EndedStays DEF HandleWork
  <2> QED
    BY <2>1, <2>2 DEF JoinedTruly, Ended
<1>3. ASSUME NEW s \in Stages, OwnerNext(s) PROVE JoinedTruly'
  <2>1. wpc' = wpc
    BY <1>3 DEF OwnerNext, Dropped, Spawn, StoreRunning, SetCommand, SetFlag, StartJoin, EndJoin, StartDrop,
                DropTakesInput, DropAwaits, DropFields, workerVars, threads
  <2>2. CASE EndJoin(s) \/ DropAwaits(s)
    <3>1. AwaitThread(s)
      BY <2>2 DEF EndJoin, DropAwaits
    <3>2. \A r \in Stages \ {s} : thread'[r] = thread[r] /\ hpc'[r] = hpc[r]
      BY <1>0, <2>2, <3>1 DEF EndJoin, DropAwaits, HandleGoto, AwaitThread
    <3>3. /\ thread'[s] # "here"
          /\ thread'[s] = "joined" => thread[s] = "joined" \/ wpc[s] = "exited"
          /\ thread'[s] = "failed" => thread[s] = "failed" \/ wpc[s] = "panicked"
      BY <1>0, <3>1 DEF AwaitThread, Ended
    <3> QED
      BY <2>1, <3>2, <3>3 DEF JoinedTruly
  <2>3. ASSUME thread' = thread, NEW from, NEW to, HandleGoto(s, from, to),
               to \notin {"dropOutput", "gone"} \/ from = "dropOutput"
        PROVE  JoinedTruly'
    <3>1. hpc[s] = from /\ hpc'[s] = to /\ \A r \in Stages \ {s} : hpc'[r] = hpc[r]
      BY <1>0, <2>3 DEF HandleGoto
    <3> QED
      BY <2>1, <2>3, <3>1 DEF JoinedTruly
  <2>4. CASE Spawn(s) \/ StoreRunning(s) \/ StartJoin(s) \/ StartDrop(s)
    BY <2>3, <2>4 DEF Spawn, StoreRunning, StartJoin, StartDrop
  <2>5. CASE \E cmd \in {"Pause", "Resume", "Reset", "Shutdown"} : SetCommand(s, cmd)
    BY <2>3, <2>5 DEF SetCommand
  <2>6. CASE SetFlag(s) \/ DropTakesInput(s) \/ DropFields(s)
    BY <2>3, <2>6 DEF SetFlag, DropTakesInput, DropFields
  <2> QED
    BY <1>3, <2>2, <2>4, <2>5, <2>6 DEF OwnerNext, Dropped
<1> QED
  BY <1>1, <1>2, <1>3 DEF HandleNext

\* How a worker's step moves the state it shows along with where it is.
LEMMA WorkShowsState ==
  ASSUME WorkerInv, NEW s \in Stages, Work(s)
  PROVE  /\ \A r \in Stages \ {s} : state'[r] = state[r]
         /\ state'[s] = "Created" => state[s] = "Created"
         /\ wpc'[s] \in {"flush", "countFlush", "stopped"} =>
              state'[s] = "Stopping" \/ (state'[s] = state[s] /\ wpc[s] \in {"flush", "countFlush"})
         /\ wpc'[s] \in {"return", "exited"} => state'[s] = "Stopped" \/ (state'[s] = state[s] /\ wpc[s] = "return")
<1>0. WorkerTypeOK
  BY DEF WorkerInv
<1> USE <1>0, StepIs
<1>1. CASE WorkerStart(s) \/ StopStage(s) \/ StoreStopped(s)
  BY <1>1, SMTT(20) DEF WorkerStart, StopStage, StoreStopped, WorkerTypeOK
<1>2. CASE CheckShutdown(s) \/ CheckPause(s) \/ NoReset(s) \/ ResetStage(s) \/ ResetStoreRun(s) \/ ResetUnpause(s)
  BY <1>2, SMTT(20) DEF CheckShutdown, CheckPause, NoReset, ResetStage, ResetStoreRun, ResetUnpause, control
<1>3. CASE TakeItem(s) \/ TakeNothing(s) \/ TakeClosed(s) \/ Process(s) \/ Panic(s) \/ Tick(s)
  BY <1>3, ProcessStep, TickStep DEF TakeItem, TakeNothing, TakeClosed, Process, Panic, Tick, control
<1>3a. CASE CountInput(s) \/ CountOutput(s) \/ CountDropped(s)
  BY <1>3a, CountingStep DEF control
<1>4. CASE Flush(s) \/ Exit(s)
  BY <1>4 DEF Flush, Exit, control
<1> QED
  BY <1>1, <1>2, <1>3, <1>3a, <1>4 DEF Work

LEMMA StateFollowsKeeps ==
  ASSUME HandleInv, HandleNext
  PROVE  StateFollows'
<1> USE DEF HandleInv
<1>0. /\ hpc \in [Stages -> {"unborn", "spawned", "held", "flag", "join", "gone"} \union Dropping]
      /\ overwritten \in [Stages -> BOOLEAN]
      /\ state \in [Stages -> {"Created", "Running", "Stopping", "Stopped"}]
  BY DEF OwnerTypes, WorkerInv, WorkerTypeOK
<1>1. CASE EndsNext
  <2>1. UNCHANGED <<wpc, state, hpc, overwritten>>
    BY <1>1 DEF EndsNext, SendIn, TakeOut, TakeInput, TakeOutput, DropInput, DropOutput, handles, owners,
                threads, control
  <2> QED
    BY <2>1 DEF StateFollows
<1>2. ASSUME NEW s \in Stages, HandleWork(s) PROVE StateFollows'
  <2>1. UNCHANGED <<hpc, overwritten>>
    BY <1>2 DEF HandleWork, owners
  <2>2. \A r \in Stages \ {s} : state'[r] = state[r] /\ wpc'[r] = wpc[r]
    BY <1>2, WorkShowsState, WorkIsLocal DEF HandleWork
  <2>3. /\ overwritten[s] => state'[s] # "Created"
        /\ ~overwritten[s] => /\ wpc'[s] \in {"flush", "countFlush", "stopped"} => state'[s] = "Stopping"
                              /\ wpc'[s] \in {"return", "exited"} => state'[s] = "Stopped"
    BY <1>2, WorkShowsState DEF HandleWork, StateFollows
  <2> QED
    BY <2>1, <2>2, <2>3 DEF StateFollows
<1>3. ASSUME NEW s \in Stages, OwnerNext(s) PROVE StateFollows'
  <2>1. wpc' = wpc
    BY <1>3 DEF OwnerNext, Dropped, Spawn, StoreRunning, SetCommand, SetFlag, StartJoin, EndJoin, StartDrop,
                DropTakesInput, DropAwaits, DropFields, workerVars, threads
  <2>2. CASE StoreRunning(s)
    <3>1. /\ hpc[s] = "spawned" /\ hpc'[s] = "held" /\ \A r \in Stages \ {s} : hpc'[r] = hpc[r]
          /\ state'[s] = "Running" /\ \A r \in Stages \ {s} : state'[r] = state[r]
          /\ overwritten'[s] = (state[s] \in {"Stopping", "Stopped"})
          /\ \A r \in Stages \ {s} : overwritten'[r] = overwritten[r]
      BY <1>0, <2>2 DEF StoreRunning, HandleGoto
    <3>2. ~overwritten[s]
      BY <3>1 DEF StateFollows
    <3>3. ~overwritten'[s] => wpc[s] \notin {"flush", "countFlush", "stopped", "return", "exited"}
      BY <3>1, <3>2 DEF StateFollows
    <3> QED
      BY <2>1, <3>1, <3>3 DEF StateFollows
  <2>3. ASSUME UNCHANGED <<state, overwritten>>, NEW from, NEW to, HandleGoto(s, from, to),
               to \notin {"unborn", "spawned"} \/ from = "unborn"
        PROVE  StateFollows'
    <3>1. hpc[s] = from /\ hpc'[s] = to /\ \A r \in Stages \ {s} : hpc'[r] = hpc[r]
      BY <1>0, <2>3 DEF HandleGoto
    <3> QED
      BY <2>1, <2>3, <3>1 DEF StateFollows
  <2>4. CASE Spawn(s) \/ StartJoin(s) \/ EndJoin(s) \/ StartDrop(s)
    BY <2>3, <2>4 DEF Spawn, StartJoin, EndJoin, StartDrop, workerVars, control
  <2>5. CASE \E cmd \in {"Pause", "Resume", "Reset", "Shutdown"} : SetCommand(s, cmd)
    BY <2>3, <2>5 DEF SetCommand
  <2>6. CASE SetFlag(s) \/ DropTakesInput(s) \/ DropAwaits(s) \/ DropFields(s)
    BY <2>3, <2>6 DEF SetFlag, DropTakesInput, DropAwaits, DropFields, workerVars, control
  <2> QED
    BY <1>3, <2>2, <2>4, <2>5, <2>6 DEF OwnerNext, Dropped
<1> QED
  BY <1>1, <1>2, <1>3 DEF HandleNext

LEMMA HandleStutters ==
  ASSUME HandleInv, UNCHANGED handleVars
  PROVE  HandleInv'
<1>1. UNCHANGED <<threads, control, metrics, channels, inputTx, outputRx, late, owners>>
  BY DEF handleVars, workerVars
<1>2. WorkerInv'
  BY <1>1, NoWordKeeps DEF HandleInv
<1>3. OwnerTypes' /\ JoinedTruly' /\ StateFollows'
  BY <1>1 DEF HandleInv, OwnerTypes, JoinedTruly, StateFollows, owners, threads, control
<1> QED
  BY <1>2, <1>3 DEF HandleInv

LEMMA HandleInvariance == HandleSpec => []HandleInv
<1>1. HandleInit => HandleInv
  BY HandleInvInit
<1>2. HandleInv /\ [HandleNext]_handleVars => HandleInv'
  BY WorkersKeep, OwnerTypesKeep, JoinedKeeps, StateFollowsKeeps, HandleStutters DEF HandleInv
<1> QED
  BY <1>1, <1>2, PTL DEF HandleSpec

---------------------------------------------------------------------------
(* StageHandle: what follows                                               *)

\* What the owners of the handles can rely on: join and drop wait for the thread and
\* tell its end truly, Stopped is shown unless the builder overwrote it, and a stage
\* that ended with its input has lost nothing and kept nothing back.
THEOREM HandlesSound == HandleSpec => []HandlesAreSound
<1>1. ASSUME HandleInv PROVE HandlesAreSound
  <2>0. OwnerTypes /\ WorkerTypeOK /\ InHands /\ LossCaused /\ JoinedTruly /\ StateFollows
    BY <1>1 DEF HandleInv, WorkerInv
  <2>1. HandleTypeOK
    BY <2>0 DEF HandleTypeOK, OwnerTypes
  <2>2. JoinIsTrue
    BY <2>0 DEF JoinIsTrue, JoinedTruly, OwnerTypes, Ended
  <2>3. EndIsVisible
    BY <2>0 DEF EndIsVisible, StateFollows
  <2>4. EofLosesNothing
    <3>1. SUFFICES ASSUME NEW s \in Stages, wpc[s] = "exited", ~shutdown[s]
                   PROVE  lost[s-1] = 0 /\ held[s] = None
      BY DEF EofLosesNothing
    <3>2. s - 1 \in Channels /\ s - 1 # K /\ (s - 1) + 1 = s
      BY KAssumption DEF Stages, Channels
    <3>3. lost[s-1] \in Nat /\ ~(lost[s-1] > 0)
      BY <2>0, <3>1, <3>2 DEF LossCaused, Cause, WorkerTypeOK
    <3> QED
      BY <2>0, <3>1, <3>3 DEF InHands
  <2> QED
    BY <2>1, <2>2, <2>3, <2>4 DEF HandlesAreSound
<1> QED
  BY <1>1, HandleInvariance, PTL
==============================================================================
