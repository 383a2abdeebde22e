# TLA+ models of sensor-bridge

This directory holds TLA+ specifications of sensor-bridge, the TLC
configurations that check them on small instances, and proofs, checked by TLAPS,
about some of them for every value of their constants. All paths below are
relative to the repository; `src/src` is the crate.

Run a model with `tlc -config MCRingBuffer.cfg MCRingBuffer.tla`, the proofs
with `tlapm RingBufferProofs.tla`. `PROJECT.json` lists the runs, the lines
that every definition models, the hazards and the properties that are about them,
and for every property a mutation of the model that breaks it.

## The system

sensor-bridge moves sensor readings from producers through stages to consumers.
There are two kinds of pipeline. The small one is a single-producer
single-consumer (SPSC) ring buffer that a polling thread empties through one
stage. The large one has four stages, each on a thread of its own, joined by
bounded channels, under an owner who pauses, resets and shuts them down; its
stages may also be run one by one, each under a handle. Around them are the stages
themselves, the gates that decide whether a reading is let in, the pools and shared
data that carry it, the clock that stamps it, and the metrics.

| component | state | operations | hard behaviour | what makes it correct |
|---|---|---|---|---|
| ring buffer (`buffer/ring.rs`) | head, tail, N slots of `MaybeUninit<T>` | push, pop, peek, len and kin, split, drop | lock-free accesses of two threads, unsafe slots | FIFO, no slot used by both ends, no uninitialised read, no leak, wait-freedom |
| owned handles, backpressure producer (`buffer/split.rs`) | an `Arc` of the buffer, policy, `dropped_count` | push under DropOldest, DropNewest, Block | full buffer, spinning | every offered item is pushed or counted |
| channel (`channel/`) | crossbeam queue, five atomics | send, try_send, send_timeout, recv and variants, reset | counters written after the operation | totals settle, depth and high water mark mean something |
| stage executor (`pipeline/executor.rs`) | the stage object, the item in hand, counters | `stage_worker`, `batch_stage_worker` | commands race with work, shutdown, flush, panic | order, accounting, prompt stop |
| stage control and handle (`pipeline/stage_handle.rs`) | command, state, shutdown, paused; join handle, two channel ends | set_command, set_state; spawn, take_input, take_output, join, Drop | a command is two stores, the worker writes commands too, drop against a full channel | shutdown sticks, join waits, drop returns |
| multi-stage pipeline (`pipeline/multi_stage.rs`) | state, join handles, outer channel ends | build, send, recv, pause, resume, reset, shutdown, join, Drop | calls at any moment, timeouts in join | join and Stopped mean finished |
| runner (`pipeline/runner.rs`) | statistics, stop flag, published count | poll, drain; stop, join, Drop | stop against a busy loop | nothing uncounted, published count close, thread ends |
| stages (`stage/traits.rs`, `pipeline/builder.rs`) | what a stage holds back | process, tick, flush, reset, chained | flush order in `Chain`, nesting | nothing buffered is lost or reordered |
| filters (`stage/filter.rs`) | windows, running sums, estimates | process, reset | a running sum or recursion against the inputs it stands for | equal to their definition over all inputs |
| fusion (`stage/fusion.rs`) | timestamp buffer | push, match, prune | late and unordered timestamps | the closest reading within tolerance |
| transforms (`stage/transform.rs`, `sensor/imu.rs`) | a matrix, a calibration | transform, multiply, convert | composition, handedness, order of correction and scale | composition is multiplication, lengths and handedness kept |
| adaptive quality (`backpressure/controller.rs`, `strategy.rs`) | level, hysteresis counter, sample counter | should_accept, update, set_quality, reset | read-modify-write over several atomics | level in range, follows the load |
| rate limiter (`backpressure/rate_limiter.rs`) | tokens, last_update, counts | try_acquire_n, acquire, acquire_timeout, reset | clock read, swap and addition are three steps | rate never exceeded, a waiter gets its token |
| object pool, buffer pool (`zero_copy/`) | queues of idle objects, counters | acquire, try_acquire, prefill, guard drop, take | counters beside the queue, exhaustion, grown buffers | no object in two hands, bounded, clean, large enough |
| shared data (`zero_copy/shared_data.rs`) | an `Arc` | clone, make_mut, get_mut, is_unique, try_unwrap | uniqueness seen and used later | data does not change under its owner |
| clock (`timestamp.rs`) | last time, sequence number | now_ns, record_time, stamp, reset_seq | concurrent writers, raw times that run backwards | time never runs backwards, no number twice |
| metrics (`metrics/`) | histogram, jitter tracker, counters, aggregator | record, snapshot, reset, tokens, timers | fields counted, read and cleared one by one | they add up once quiet, snapshots close |
| dashboard, export (`metrics/dashboard.rs`, `export.rs`) | thread handle, flag, histories | start, stop, drop, render; record, summarise | a second start, a stop that is for good | no thread left behind, true drawing |
| sensors (`sensor/`) | a sequence of values | sample, reset | - | the readings in order |
| errors, `config.rs`, crate root | - | type definitions | - | - |

They interact by shared memory (the ring buffer; `StageControl`; pools, limiter,
clock and metrics, which any thread may call), by messages over crossbeam channels
(stage to stage), by callbacks (the runner's output, `Stage::process`, `tick`,
`flush`) and by thread join. No state survives the process, so there is no crash
recovery; what fails is a stage that panics, a join that times out, and a queue that
is full.

## Modules

| module | models | state and actions |
|---|---|---|
| `BoundedFifo` | what the buffer promises | the accepted and the returned items; atomic push, pop, peek |
| `RingBuffer` | `ring.rs`, the owned handles of `split.rs` | head, tail, slots; one action per load, store or copy |
| `PipelineRunner` | `BackpressureProducer`, `runner.rs` | over `BoundedFifo`: push with its policy, the polling loop, the handle, the driving caller |
| `StageWorker` | `stage_worker`, `StageControl`, `StageMetrics`, channels | per stage a program counter; one action per access to shared state |
| `MultiStagePipeline` | `multi_stage.rs`, over `StageWorker` | the owner's methods, one store at a time; the two outer ends |
| `StageHandle` | `stage_handle.rs`, over `StageWorker` | an owner per stage, the channel ends, join and drop |
| `ChannelMetrics` | `channel/` | a counted queue; one action per atomic operation |
| `ObjectPool`, `BufferPool`, `SharedData` | `zero_copy/` | one action per access to a queue, a counter or an `Arc` |
| `LatencyStats` | `LatencyHistogram`, `JitterTracker` | one action per atomic, several recorders |
| `CounterSets` | five sets of counters | tables of what is counted and in which order; count, snapshot, reset |
| `MetricsReporting` | tokens, timers, aggregator, `Dashboard` | producers, the dashboard's owner and its threads |
| `SnapshotReports` | recorder, summary, targets, sparkline | what is computed from snapshots |
| `Sums` | the loops that add numbers up (`latency.rs`, `export.rs`); in `Filters` what the running sums should be | the running sum of a sequence, a function of how far the loop has come |
| `RateLimiter`, `AdaptiveController` | `backpressure/` | one action per atomic, integer time, three load bands |
| `MonotonicClock` | `timestamp.rs` | one action per atomic |
| `TimestampSync`, `Filters`, `Transforms`, `StageChain` | `stage/`, `builder.rs`, `imu.rs`, `mock.rs` | one action per call: nothing here is shared |
| `*Proofs` | - | theorems about the module of that name; `ItemPathProofs`, `SharedObjectsProofs` and `PipelineRunnerProofs` about all that the MC module composes; `SumsProofs` holds lemmas that two of them need |
| `MC*` | - | instances for TLC |

`RingBuffer` implements `BoundedFifo` (`ImplementsFifo`, checked and proved),
and `PipelineRunner` is built on `BoundedFifo`, so that what it shows holds with
the real buffer underneath. `StageWorker` is composed twice: with the owner of a
whole pipeline (`MultiStagePipeline`) and with the owners of single stages
(`StageHandle`).

`MCSharedObjects` and `MCItemPath` gather the modules that call neither each other nor
the pipelines. Their product would say nothing about any of them, so a behaviour
exercises the one that `component` or `part` names, and the others stay in their
initial states. `MCPipelineRunner` does the same with the two kinds of thread handle.

### RingBuffer

`push_internal` is four steps: load head (ours, Relaxed), load tail and test
(`PushFull` or `PushRoom`), write the slot, store head (Release). `pop_internal`
and `peek_internal` are the same with the roles exchanged; `len` is two loads.
A slot holds an item or `None`, which stands for uninitialised memory or for an
item that was moved out. A peeked reference is held from `PeekSome` to
`PeekEnd`; the consumer is assumed to let go of it before its next call, which
the borrow checker does not enforce (`peek` and `pop` both take `&self`). Loads
return the latest store: executions that only a weaker memory order would allow
are not explored. The Release stores and Acquire loads of the code order the
slot accesses exactly as the steps here are ordered.

`Producers` and `Consumers` are sets, because `split(&self)` can be called more
than once. The theorems assume `SingleSplit`.

### StageWorker and MultiStagePipeline

Stage `s` takes from `chan[s-1]` and sends into `chan[s]`. The worker's program
counter follows the loop of `stage_worker`: `loop` (shutdown flag), `checkPause`,
`checkReset`, `resetRun` and `resetUnpause` (the two stores of
`set_command(Run)`), `recv`, then `process` or `tick`, and after the loop `stop`,
`flush`, `stopped`, `return`, `exited`. A step that touches only the thread's own
data is merged with the access to shared data next to it: `process` goes with the
`send_or_drop` of its result. The counters are steps of their own (`CountInput`,
`CountOutput`, `CountDropped`, after the item has moved), since the next stage may count its
input before this one has counted its output; only `filtered`, which goes with no move, is
counted where the item is used up.

A stage is abstracted to what it does with items. A stage of `Filters` may answer
`None`. A stage of `Holders` gives, for each item, the one before it, and gives up
what it holds on `tick` and `flush`: the smallest stage for which `tick`,
`reset` and `flush` matter. A stage of `Faulty` may panic in `process`. An item
is its number in the order of acceptance, so that order and duplication are
visible.

Channels are crossbeam's and are external: bounded, the receiver learns of the
last sender's drop once the channel is empty, and the items go with the last
receiver (`Discard`, counted in `lost`).

The owner runs one method at a time. `pause`, `resume`, `reset` and `shutdown`
walk over the stages with `CommandStage` and `FlagStage`, the two stores of
`set_command`; `join` takes one handle at a time and may find its deadline passed
(`JoinTimeout`); `Drop` is shutdown, join and the drop of the fields.
`Clones` says which ends the owner has cloned for other threads, as the tests do.

### StageHandle

Each handle has an owner, and `hpc` says what that owner is at. `Spawn` makes the
channel and the thread, which may run before `StoreRunning`, the builder's last store.
The first stage is built by `spawn`, which keeps the sender, or by `spawn_with_input` on a
channel of the caller's; the others by `spawn_with_input` on the receiver taken out of
the handle before (`take_output`). Commands are again two stores. `StartJoin`, `AwaitThread`
and `EndJoin` are `join`; drop is `StartDrop`, the flag, `DropTakesInput`, `DropAwaits` and
`DropFields`, where the receiver goes last, as in the code.

### PipelineRunner

`BackpressureProducer::push` tries the ring once (`PushOk` or `PushFull`); a
refused item is counted under DropOldest and DropNewest alike, and tried again
under Block. The policy is chosen in the initial state, so that one run covers
all three. `PanicIn` is a panic of the stage or, where there is one, of the callback: the thread
of `spawn_pipeline` is then gone with its count unpublished and the flag not set (a caller
who drives the runner and catches the panic goes on), `join` fails and drop returns all the same
(`Joined`). `driver` says who owns the consumer end: the thread of `spawn_pipeline`, which
polls, publishes its count every `Period` items (1000 in the code), and publishes once more
when it stops; or a caller who polls, drains and resets the statistics of a
`PipelineRunner` itself.

### ChannelMetrics

An operation on the queue and its counters are separate steps, in the order of
the code: the queue first, then `sent`, `current_depth`, and the loop that raises
`max_depth` by `compare_exchange_weak`, which may fail spuriously
(`RaiseFails`). `reset` is five stores.

### ObjectPool, BufferPool, SharedData

`acquire` counts, pops, and creates when the queue was empty, in three steps;
`try_acquire` pops and then counts; a guard's drop counts, resets and pushes, and a full
queue drops the object. An object is its number in the order of creation, and
`used` says whether it carries data. A guard can be used, dropped or taken by any
thread. In `BufferPool` a buffer is its capacity and length, sizes are the code's own
(256 B to 1 MB), `Returned` is `return_buffer` with its test on the capacity, and an owner
may put another `Vec` in its `PooledBuffer` (`TakeVec`). In `SharedData` a handle points to
a cell, and `own` is the value its owner last wrote or cloned: `make_mut` writes in place
or copies first, by the reference count of that moment.

### LatencyStats, CounterSets, MetricsReporting, SnapshotReports

`LatencyStats` takes a sample through the histogram (bucket, count, sum, minimum, maximum)
and the jitter tracker (minimum, maximum, count, mean, sum of squares), an atomic at a
time. `CounterSets` has one machine for five structures, and tables for what
distinguishes them: which fields an item raises and in which order, the order of `snapshot`,
that of `reset`. Of a worker and a histogram the code fixes what an item counts (a worker that panics
counts the input and nothing after it, `ProcessPanics`); the other three are raised by any caller as it
likes, one field at a time, so that of them only the closeness of snapshots is claimed. In `MetricsReporting` producers take items through a token and a stage timer
while each renderer that `Dashboard::start` spawned takes snapshots, field by field in the
order of the code, and `PipelineMetricsAggregator::reset` (`Wipe`) clears the counters one by one;
`carried` remembers the items that were under way in the last reset. `SnapshotReports` is sequential: a recorder with bounded history, its
summary, the target check, and the sparkline with the integers it computes. A mean in the
jitter tracker is a fixed-point number, scaled by a multiple of every count that occurs
(`ScaleAssumption`), so that means of recorded latencies are exact, and clamped to `MaxFixed` as
`to_fixed_point` clamps it (`FixedPoint`); a latency of `u64::MAX`, which
the minimum of nothing is stored as, is left out (`SamplesAssumption`).

### RateLimiter, AdaptiveController, MonotonicClock

Every call of the limiter is a `refill` (read the clock, swap `last_update`, add) and
then load, compare-and-exchange, count. `Tick` is the time passing, at any moment.
`rewound` and `refunded` are history: ticks that are credited twice because
`last_update` was set back, and tokens that resets put in; `bursts` the moments at which a refill
began, as long as no other refill overlaps one and nobody resets, each with what had been granted and
what the bucket held: from there the documented burst is counted. The controller loads the level,
counts, moves the level from the one it loaded, clears the counter, then loads the level again
and samples. `LoadChanges` is the environment: the queue's utilization in three bands. In the
clock a thread brings any raw time, loads the last one, and exchanges or starts again;
`least` remembers, per call, what had been answered before it began.

### TimestampSync, Filters, Transforms, StageChain

One action per method, since a stage has one owner. `TimestampSync` keeps the slots, the
write index and the count as the code does, beside the whole history of inputs they
are compared with. The filters compute with integers and exact fractions in lowest terms; the insertion sort of the
median is the sorted order it ends in (`Ascending`). The noises of the Kalman filter are part of its
state, set at any time (`SetNoise`); `prior` and `measured` remember what it knew when they were
last set and the inputs since. What they should yield is stated by
unrolling their recurrences (`SmoothedPart`, `HighPart`) over the inputs. Rotations are by
quarter turns, so that sine and cosine are integers; a unit is the power of the conversion
factor. `StageChain` composes three stages of any kind (one that passes, one that filters,
one that holds back) in either nesting, with one operator for what `Chain` does per method.

## Runs

| run | bounds | shows |
|---|---|---|
| `ring_spsc` | 4 slots, 5 pushes, 2 values | `FirstInFirstOut`, `NoSlotRace`, `SlotsUsedOnce`, `LenStaysABound`, `PeekedItemStays`, `EachItemLeavesOnce`, `ImplementsFifo`, `WaitFree` |
| `ring_two_splits` | 2 producers, 2 consumers | a second `split` breaks `FirstInFirstOut` |
| `runner` | a ring of 2, 4 offers, period 2, all policies, both drivers; or one stage that holds and may panic under a handle, 2 items, 1 command | `OffersAccounted`, `ResultsInOrder`, `PublishedCountIsClose`, `AcceptedIsProcessed`; `HandlesAreSound`; `DropsReturn` of both |
| `pipeline_safety` | 2 stages, capacity 1, 2 items, any 2 of pause, reset, shutdown, join, drop | `OrderKept`, `FlowBalance`, `LossHasACause`, `ShutdownTakesOneMore`, `ShutdownIsComplete` |
| `pipeline_liveness` | 2 stages that may panic, capacity 1, 1 item, any 2 of pause, resume, reset, drop; clones of both ends | `ShutdownEnds`, `HeadIsTaken` |
| `pipeline_pause` | 1 stage, a pause and a reset | `PauseHolds` fails |
| `pipeline_join` | 2 stages, a shutdown and two joins | `StoppedMeansFinished` fails |
| `channel_metrics` | 2 senders, 2 receivers, capacity 2, 3 sends, a refused send, a reset | `TotalsSettle`, `DepthNotUnderstated`, `HighWaterMark` |
| `channel_depth_drift` | 1 sender, 1 receiver, 1 item | `DepthSettles` fails |
| `shared_objects` | 2 threads in each component; a pool of 2 and 3 objects, 3 acquisitions of buffers, 3 data handles, 2 records of three latencies, 2 counted items, an item and a reset under 2 snapshots, 5 reports | `PoolIsAccounted`, `HandedOutIsFit`, `CountsAgree`, `ReportingIsSound` |
| `item_path` | 2 callers, 3 ticks, 3 calls that may each try again, 2 tokens in a bucket of 1; 3 levels; 4 readings of the clock; 5 inputs to a buffer of 3; 5 inputs, resets and changes of noise to filters of window 3; 4 transforms; 4 samples through 3 stages | `RateHonoured`, `StampsAreSound`, `MatchIsClosest`, `ValuesAgree`, `ReadingsFlow`, `QualityFollowsLoad` |
| `rate_starvation` | 1 caller in `acquire`, 3 ticks | `WaitIsBounded` fails |

Each passing run also checks the type invariants of its modules. Where a run's property
is a conjunction, its parts are defined and explained in their own modules:
`HandedOutIsFit` is `PooledIsClean`, `IdleCapacityBounded`, `ServedInFull` and `DataIsOwn`;
`CountsAgree` is `StatsSettle`, `CountersSettle` and `SnapshotsAreClose`; `ReportingIsSound`
is `ReportsAreClose`, `DroppedDashboardIsGone`, `SummaryIsSound` and `DrawingIsTrue`;
`ValuesAgree` is `FiltersAgree`, `KalmanIsSound` and `FramesAgree`; `PoolIsAccounted` is
`ObjectsAccounted` and `InUseCounted`; `HandlesAreSound` is `JoinIsTrue`, `EndIsVisible` and
`EofLosesNothing`; `DropsReturn` is `StopEnds` and `HandleDropReturns`.

Why the bounds are enough. Five pushes into four slots take head around the
array with the buffer full and empty on the way; four offers do so for a ring of two. Two
stages have every position relative to a neighbour: first and last, upstream and downstream
of a stage that stops, panics or holds back; a channel of one item is full after one send, so
that drops and blocked flushes occur with two items. Two calls of the owner make
every pair of commands meet, and with the worker's own `set_command(Run)` three
writers of the control words; `drop` counts as one call and contains shutdown and
join. Two senders and two receivers reach every order of the counter steps that
the properties distinguish; so do two threads for each shared object, whose properties
are about what one thread does between two steps of another. A pool of two with three
objects is empty, full, and over-full when a guard comes back; three
acquisitions let a buffer be made, grown, returned and given out again, and the sizes asked
for lie on and just above a class boundary and above the last class. Two ticks of three earn no
whole token and three earn two, so that a refill earns nothing, something, or the bucket's
limit. Three quality levels have two ends and a middle. Five inputs to a buffer of three
overwrite each slot, and five to a window of three all but one; the noises include none of the process,
and two of the sensor. Latencies 7, 20 and 900 against a fixed point that holds 1000: the squares of
the first two fit in, those of the last saturate. With three calls on the limiter a refill can meet two
others, and an overfull bucket is lowered, drained and filled again. Three stages of three
kinds are all the chains in which one stage is before, between or after others. The snapshots
recorded are an idle one, a fast one, one that misses targets, and one taken while an item entered
and left, which shows outputs of no input.

The bounds are constants (`MaxTotal`, `MaxCalls`, `MaxItems`, `MaxOffers`, `MaxPushes`,
`MaxSends`, `MaxDrops`, `MaxResets`, `HandleCommands`, `MaxObjects`, `MaxAcquires`, `MaxLen`,
`MaxRecords`, `MaxStatResets`, `MaxClears`, `MaxTokens`, `MaxWipes`, `MaxSnaps`, `MaxReports`, `MaxTime`,
`MaxSets`, `MaxReadings`, `MaxInputs`, `MaxFed`, `MaxStages`, `MaxSamples`) in the guards of the
actions that begin something; `MaxPolls` is where `empty_polls` saturates. Deadlock is not
checked, because all of these systems end: the threads are joined, the bounds are used
up. Two runs use symmetry, `channel_metrics` in senders and receivers and `shared_objects` in
the threads; both check invariants only, and no definition tells one thread from another.

### Fairness

`WaitFree` asks fairness of the end that pushes or pops and of nobody else.
`MCPipelineRunner!MCSpec` asks it of the producer inside a push, of the polling
thread (but not of a panic), of the owner waiting in join, of each stage worker and of the owner inside a drop;
nothing makes an owner stop, drop or command, or the producer offer.
`MultiStagePipeline!FairSpec` asks it of each worker thread (the
scheduler runs it), of the owner once it is inside a method, and of `Recv`, for
`pipeline_liveness` of another thread that keeps receiving. That last one is a
real precondition: the last stage's `flush` uses a blocking send, and with a full
output channel that nobody empties neither shutdown nor join comes to an end.
`MCItemPath!Spec` asks that each thread goes on with its calls of the controller, and that
items go on arriving: the level only moves when somebody asks.
Weak fairness is enough: a thread's next step stays enabled until it is taken,
except for a blocked send or receive, which the other side's step enables for good.

### Where the code and its documentation disagree

These are quoted with their lines in `PROJECT.json`. Shown by a run:

* `split(&self)` does not enforce that there is one producer and one consumer
  (`ring.rs:159`): run `ring_two_splits`.
* A reset takes back a pause (`executor.rs:267`): run `pipeline_pause`.
* After a join that timed out the next one reports Stopped while stages run
  (`multi_stage.rs:297`): run `pipeline_join`.
* `current_depth` stays one too high after a receive that was counted before its
  send (`metrics.rs:71`): run `channel_depth_drift`.
* A thread in `acquire` that looks more often than a token is earned waits on, because
  every refill throws the fraction away (`rate_limiter.rs:179`): run `rate_starvation`.

Met while modelling. No run is violated by these: the properties name what excepts them (`overwritten`,
`rewound`, the taken objects, `crowded`, a flush repeated until it answers None, a full channel whose
receiver the handle holds) and state what does hold besides, so that they document these cases and do
not catch them:

* DropOldest drops the newest item (`split.rs:220`).
* After a panic of the stage or the callback in the thread of `spawn_pipeline` a blocking push spins
  for ever, `is_stopped` answers false, and drop tells nobody (`runner.rs:249`;
  `PublishedCountIsClose`, `AcceptedIsProcessed`).
* Shutdown discards what is queued between stages (`executor.rs:253`; `LossHasACause`).
* The stage handle's builder may overwrite Stopped by Running (`stage_handle.rs:376`;
  `EndIsVisible`), and its drop waits for a flush into a channel it holds the receiver of
  (`stage_handle.rs:313`; `HandleDropReturns`).
* The limiter's `reset` credits all time since creation again (`rate_limiter.rs:254`;
  `RateHonoured`), and rates below 10 give a capacity of 0 (line 35). The first burst is that of the initial tokens where
  they are more than the capacity, and two refills that overlap grant the capacity twice (line 201;
  `RateHonoured`).
* `take` leaves an object counted as acquired (`object_pool.rs:200`; `InUseCounted`).
* A buffer pool below 4 panics (`buffer_pool.rs:78`), and `acquire` may serve less than it
  was asked for (line 158; `ServedInFull`).
* The jitter tracker's count is no lock for its mean and variance (`jitter.rs:123`;
  `StatsSettle`), and its variance saturates at a sum of squares of 2^32 - 1 ns^2 (line 241;
  `VarianceIsExact`); the last histogram bucket has no upper end (`latency.rs:111`).
* A snapshot may show more outputs than inputs (`pipeline_metrics.rs:118`; `ReportsAreClose`), and after
  a reset under traffic every later one may (line 131).
* The counters of `StageMetricsCollector`, `PipelineCounters` and `BackpressureStats` are raised by
  whoever likes; nothing makes their rates at most one.
* `MetricsRecorder::new(0)` panics in its first record (`export.rs:240`).
* The dashboard cannot be restarted, and a second start loses the first thread
  (`dashboard.rs:131`; `DroppedDashboardIsGone`); `render_once` shows its last snapshot twice
  (line 143).
* The recorder's overall drop rate adds up cumulative totals (`export.rs:358`; `SummaryIsSound`).
* One hysteresis counter serves both directions (`controller.rs:153`).
* `Chain::flush` may leave items behind in one call (`traits.rs:161`; `ReadingsFlow`).
* `KalmanFilter1D::reset` does not restore what `new` was given (`filter.rs:376`), and `kalman_gain` is
  not the gain of the last update (line 333).
* `TimestampBuffer::push` overcounts (`fusion.rs:33`; `MatchIsClosest`).

## Proofs

The listed theorems, and the properties of the runs that they state. Each holds for every
value of the constants that satisfies the named assumptions of its module.

| module | theorem | property |
|---|---|---|
| `RingBufferProofs` | `TypeCorrect` | `TypeOK` (for any number of handles) |
| | `FifoOrder` | `FirstInFirstOut` |
| | `RaceFree` | `NoSlotRace` |
| | `InitialisedReads` | `SlotsUsedOnce` |
| | `LenBounds` | `LenStaysABound` |
| | `PeekStable` | `PeekedItemStays` |
| | `DropComplete` | `EachItemLeavesOnce` |
| | `RefinesFifo` | `ImplementsFifo` |
| `ChannelMetricsProofs` | `TypeCorrect` | `TypeOK` |
| | `TotalsExact` | `TotalsSettle` |
| | `DepthIsSafe` | `DepthNotUnderstated` |
| | `HighWaterMarkExact` | `HighWaterMark` |
| `ItemPathProofs` | `GatesTyped` | `TypeOK`, of the limiter alone `LimiterTypeCorrect` |
| | `RateIsHonoured` | `RateHonoured` |
| | `StampsInOrder` | `StampsAreSound` |
| | `ClosestIsMatched` | `MatchIsClosest` |
| | `ReadingsFlowThrough` | `ReadingsFlow` |
| | `ValuesAgreed` | `ValuesAgree`, of it alone `FramesStayTrue`, `FiltersCompute` |
| `MultiStagePipelineProofs` | `TypeCorrect` | `TypeOK` |
| | `ItemsKeepOrder` | `OrderKept` |
| | `CountersBalance` | `FlowBalance` |
| | `LossesExplained` | `LossHasACause` |
| | `OneMoreAtMost` | `ShutdownTakesOneMore` |
| | `StopIsComplete` | `ShutdownIsComplete` |
| `PipelineRunnerProofs` | `TypeCorrect` | `TypeOK` |
| | `NothingUncounted` | `OffersAccounted` |
| | `OrderOfResults` | `ResultsInOrder` |
| | `CountIsClose` | `PublishedCountIsClose` |
| | `HandlesSound` | `HandlesAreSound` |
| `SharedObjectsProofs` | `TypesCorrect` | `TypeOK`, of it alone `PoolTypeCorrect`, `BuffersTypeCorrect` |
| | `ObjectsInOnePlace` | `PoolIsAccounted` |
| | `HandedOut` | `HandedOutIsFit`, of it alone `ReusedIsClean`, `IdleStaysBounded`, `RequestsServed`, `DataStaysOwn` |
| | `CountsAgreed` | `CountsAgree`, of it alone `CountersBalanced`, `SnapshotsStayClose` |
| | `ReportingSound` | `ReportingIsSound`, of it alone `ReportsStayClose`, `DroppedIsGone` |

`RingBufferProofs` assumes that N is a power of two and (except for `TypeCorrect`)
`SingleSplit`. The properties are not inductive by themselves. The
inductive invariant `IInv` adds what ties the indices to the history: head and tail
are the numbers of items sent and received modulo N, their difference lies in
0..N-1, the slots from tail up to head hold exactly the items sent and not yet
received (less the one the consumer has just moved out), all others hold none, and
each handle's local index equals the shared one it alone writes, with the fact that
its test has established. `Invariance` proves it step by step, on a few lemmas of
modular arithmetic; the other theorems follow from it, and the refinement from it
and the case split over `Next`.

`ChannelMetricsProofs` is about any finite sets of senders and receivers. What is true of the
counters at every moment is a sum: the total plus the number of threads that have acted on the
queue and not counted yet is what the queue has seen. The lemmas are about such numbers:
how the cardinality of a set of threads at given steps changes when one thread moves. The
depth needs an inequality of the same kind, since the saturating subtraction only ever
errs upwards, and the high water mark the set of those who still have it to raise.

For the limiter, `ItemPathProofs` bounds by induction what is granted, plus what is in the bucket, plus what
the callers are about to add, by the tokens earned in the ticks credited so far. The credited
ticks are `last_update + rewound`; a thread's stale time can only set `last_update` back by what
`rewound` then records. The lemma on `Earned` (rounded-down earnings of two stretches never
exceed those of both) is arithmetic of integer division. The bucket is bounded since only `LimiterInit`, `AddTokens` and
`ResetTokens` raise it (`BoundedNext`). A burst is bounded from the moment a refill begins: while no other
one is between its clock and its addition, `last_update` never goes back, nobody but its thread has
tokens to add, and what is added is what the time up to `last_update` earns, or less (`Stretch`,
`StretchesNext`).

For the clock it rests on three facts: the clock is never behind an answer nor behind what
a call has to exceed; a thread exchanges only for a later time; and the numbers below `sequence`
have all been taken since the last `reset_seq`. The last one is what "no gap" needs, since a
stamp knows its own number only.

For the synchronizer (`SyncInv`), the reading pushed last but j lies j slots before the last one
written (`Place`), so that the slots looked at are the youngest readings and nothing else; and a
reading that has expired counts as held until the next push, which is why the counts are bounds.
The closest reading exists because a nonempty set of naturals has a smallest element.

For the controller (`ControllerInv`), the hazard is a thread that moves the level from one it read
before another thread moved it: what it is about to store comes from the level it read, so a
thread about to move has read a level that it may move from. The module assumes that the
sampling rate of the lowest level, a power of two, is positive: the provers know nothing of powers.

For the chain of stages (`ChainInv`), the invariant must hold in the middle of a call, where one
reading is in no stage: `Carried` says of the stages' contents and of the reading on its way past
stage k that together with what has left they are the wanted inputs, each once, the older the further
along. Every step of process, tick and flush takes it from stage k to k + 1 (`Through`,
`TickAnswers`), so both nestings follow from the same lemmas (`TicksGood`, `FlushesGood`,
`ProcessGood`). A flush brings something or leaves nothing up to where it has come (`Flushed`), as
long as no filter may refuse what it brings. The values follow from where the sensor is in its
sequence (`At`), modulo its length.

For the filters (`FiltersKnow`), reading k of the window, from the youngest back, is in the slot k
before the index, modulo the window's length; the next input goes to the slot of the oldest one
or to a free one (`WindowMoves`). The running sum follows, since a window that moves gains the input
and loses that oldest reading (`WindowGrows`, `WindowSlides`). The median needs that a sequence can be
put in order at all (`EveryOrder`, by taking the largest away), that an order is a rearrangement, so that what
stands in its middle has the right number below and above it (`MiddleIs`), and that the first places of a
buffer that is not full, or all places of a full one, are the window rearranged. The recursive
filters are unrolled over one more input: every part so far is multiplied by the same factor and one
part is new. An exponential average is also a mean of the input and of the value before, so a bound
of both bounds it (`MixLow`, `MixHigh`).

For the Kalman filter (`KalmanKnows`), Euclid's algorithm is shown to end with a divisor of both
(`GcdDivides`, again without an induction theorem), hence a fraction in lowest terms equals the one it
was made from, and each operation on fractions does what it does on numbers (`IsPlus`, `IsProduct`, ...,
up to a factor, which is why fractions are compared by `Same`). One measurement is then
a weighted mean of the estimate and the measurement whose weights are above zero (`KalmanStep`), so that
a range of both is kept (`BetweenMixed`), the covariance is below the measurement noise, and without process
noise precisions add up: the inverse of the covariance grows by that of the sensor's noise
(`WeighedMoves`). When a noise is set the weighing begins again from what is known then
(`KalmanBegins`); the range of all inputs since the reset goes on.

For the transforms (`FramesInv`), every rotation by quarter turns is a permutation of the axes with
signs, whose determinant is 1 (`Turn`); so are their products, hence the Euler angles (`TurnsCompose`),
and the change of frame. What such a matrix makes of a vector and of the rows of another matrix
is written down once (`Moved`, `RowsMoved`), and everything `FramesAgree` says of rotations
(`Linked`) is kept by one more of them (`TurnLinks`).

`StageWorkerProofs` states once what holds of the workers whoever owns them (`WorkerInv`): what a
stage has in hand goes with its program counter; a stage that took an item after its shutdown is
on its way from that item to its end, which is why there is no second one; a channel without a
receiver stays empty; a stage that ends without having been told to has found its channel empty
and closed; and what a channel lost has a cause that stays. Its lemmas say that a step of a
worker (`WorkKeeps`), of the two ends (`SendKeeps`, `ReceiveKeeps`), of the control words
(`CommandKeeps`) and of the channel ends (`EndsKeep`) keeps this, so that an owner has only to
name the kind of each of its steps.

`MultiStagePipelineProofs` adds the owner, for any number of stages, any capacity, any kinds of
stages and any calls. `FlowBalance` is inductive once it is known that, as long as nobody calls
reset, no command word says so, and with what a channel has taken in and not handed on as one number
(`Rest`); a counter and the count that a thread still owes it move as one (`Took`, `PutOut`, `GaveUp`),
which leaves the counters themselves apart by one item at most. `ShutdownIsComplete` needs the handles that are gone: unless a join failed, they belong to
threads that have ended, but for the one that is being joined. `OrderKept` compares every pair of
channels and stages; the proof numbers the places an item passes along the pipeline (channel i is
3i, the hand of stage s 3s-2, what it holds 3s-1, the consumer 3K+1) and shows that each step moves
the oldest item of one place to a later one past empty places only (`MovesKeepOrder`), loses items
(`LossesKeepOrder`), or lets in one younger than all (`EntersInOrder`). So the argument is one for
all stages, and the case split over `Next` only names the places.

`PipelineRunnerProofs` has for the runner an invariant in four parts: the items offered are those in the
ring, processed, dropped or in hand (`Flow`, `Offers`); what was seen is increasing and precedes
what is queued (`Results`); the published count is a multiple of the
period and less than one period behind, until the thread's last store (`Published`); a panic changes
none of this but where the thread is.

It is also about the handles, the other owners of the same workers. `EofLosesNothing` follows from
`LossCaused`, and join's truth from the threads that stay ended. What it adds is `StateFollows`: the
builder's store of Running comes once, and the state a thread shows after it is the thread's own
unless that store came late (`overwritten`), which is what `EndIsVisible` says a caller may see.

`SharedObjectsProofs` is about any finite number of threads and any number of objects. Each part
of it proves an inductive invariant of one component; a step of the composition is a step of the
component that the behaviour exercises (`StepsOf`), which gives the theorems about the whole.

Object pool (`PoolInv`): every object
made is in exactly one of five places (the queue, a guard, taken for good, freed, a thread's
hand), neither the queue nor the hands hold one twice, and a step moves at most one object from
one place to another (`Moving`). The counters are then cardinalities: the objects out of the
pool, plus or minus the threads whose count is still to come. Those who have an object in hand
between its reset and the push have a clean one, which is why a pooled object is clean.

Buffer pool (`BuffersInv`): every idle buffer fits its class, and every owned one has at least the
bytes of its class, which serves the size that was asked for; both hold until some owner replaces
a Vec (`replaced`). A buffer that has grown beyond twice its class is not put back, so that what
is put back fits again.

Shared data (`SharedInv`): what the reference count says is restated without counting
(`OneReference`: a count of 1 is nobody else with that cell). A handle's cell holds what its owner
wrote last, since a write through a shared cell goes to a new one; there is a free cell
for it because the model has as many cells as handles and at least two share one (`SomeCellIsFree`,
a pigeonhole, from the assumption that there are finitely many handles).

Counters (`CountersInv`): each set keeps ledgers, pairs of a whole and its parts: of the items
counted in the whole, those not counted in a part yet are the threads that still have that part to do,
so that quiet counters agree, but for the threads that a panic ended there (`dead`). For a snapshot, each field that was read is behind the counter it was
read from by no more than the items that began since (`SnapshotBehind`), unless a reset came between.
Finitely many threads, and the five sets of counters there are, are the assumptions.

Statistics (`StatsInv`), for any finite number of threads and any latencies (for mean and variance,
latencies that the fixed point holds). Types are difficult only in
Welford's step: on a count, a mean and a sum of squares loaded at different moments, the new mean
lies between the old one and the sample and the two deviations have the same sign (`Welford`), so
neither value falls below zero. What the statistics say once quiet (`StatsSettle`) holds because at
every moment each of them is what the finished records make of it plus what the threads under
way have already added (`Tallies`): a count is short of its threads by a cardinality, the sum by a sum
over threads, which is again a cardinality, that of pairs of a thread and a number up to its sample
(`Weigh`), so that one more thread is one more disjoint set. A minimum is the least of
what is known of it (`Known`), and a thread between its load and its exchange has seen nothing better
than what is stored (`ExtremeTally`). Mean and variance need that no two records overlapped: then
one thread at most is under way, and what it has loaded is what is stored (`Undisturbed`); one
step of Welford's algorithm is exact on exact values (`DescribesStep`), divisions included, since the
scale is a multiple of every count, and the clamp shows only where the sum of squares exceeds it, from
where it stays there. Between the three steps of a reset that no record overlaps,
what has been cleared is clear and what has not does not matter (`ClearedSoFar`). A percentile walks
the buckets until enough samples are passed: the running sum of the buckets is the number of samples
in them and below (`Cumulative`), buckets are ordered as their latencies are (`BucketGrows`), so the
bucket where it ends is that of the sample with this rank (`PercentileIs`), and what a bucket reports
is close to what is put in it (`BucketTells`).

Recorder (`RecorderInv`): what is kept is the end of what was recorded, by the argument for
windows (`LatestOfMore`). The summary lies among the snapshots since a mean of rates, weighted
by their inputs, lies between some two of them (`MeanRateBetween`), when those without an input have
no output; the sparkline's heights are monotone and reach both ends (`HeightIs`, `HeightEnds`).

The sums in both, and those of the filters, are recursive functions (`Sums`). What is true of them is
stated once, in `SumsProofs`, without an induction theorem: if a fact failed for some length there
would be a least such length (`LeastOf`, `UpTo`), and there it holds by one unfolding.

Reporter (`ReportInv`): a later counter and the items on their way to it are together at most the
inputs and the items that were under way in the last reset (`ItemsFlow`), hence no counter exceeds
the inputs by more than those; a snapshot's fields are
ordered by when they were read (`ReadInOrder`); a history is computed from the number of
snapshots alone (`LatestOf`); and a renderer that runs is one the owner may still join, or one whose
handle is lost (`Dashboard`).

Every invariant that a run checks, and the refinement, is proved. Only model-checked: liveness (`WaitFree`,
`AcceptedIsProcessed`, `DropsReturn`, `ShutdownEnds`, `HeadIsTaken`, `QualityFollowsLoad`), since what
a system must eventually do under fairness needs ENABLED, which is out of the prover's reach; and
the counterexamples of the runs that expect one.

## Plan

All that was planned is done: the modules above, their runs, and a proof of every invariant.
Liveness stays with TLC.

## Not modelled

* `batch_stage_worker` (`executor.rs:368-460`) and `Sampler`: nothing in the crate calls them.
* `reset_dropped_count`, and the runner's `tick` and `reset_stage`, which only forward.
* `WeightedAverage` (`fusion.rs:277-330`), arithmetic without a state. `RateCounter`: nothing in the crate
  calls it. A Kalman filter whose measurement noise is zero: with no other noise its gain is 0 / 0.
* A panic of a stage in `tick` or `flush`: only `process` and, in the runner, the callback may panic.
* Derived values: throughput and utilization are computed from the modelled state and only
  read. The text, JSON and CSV that the dashboard and the exporters write.
* Floating-point rounding; rotations by angles other than quarter turns; the noise of the mock
  sensors, which is random; `sensor/lidar.rs`, data types without state.
* Errors and the crate root, type definitions; `config.rs` is not part of the crate, since
  `lib.rs` does not name it.
* Channels of capacity 0 (rendezvous), and executions that only a memory order weaker than
  sequential consistency allows.
