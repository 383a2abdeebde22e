----------------------------- MODULE CounterSets -----------------------------
(***************************************************************************)
(* The sets of counters that threads share: StageMetrics of a worker       *)
(* (pipeline/executor.rs), StageMetricsCollector (metrics/stage_metrics    *)
(* .rs), PipelineCounters (metrics/counter.rs), BackpressureStats          *)
(* (backpressure/strategy.rs) and the buckets and count of                 *)
(* LatencyHistogram (metrics/latency.rs).                                  *)
(*                                                                         *)
(* All work alike.  What happens to an item is counted field by field,     *)
(* each an atomic of its own; a snapshot loads the fields one by one, and  *)
(* a reset clears them one by one.  They differ in what an item counts and *)
(* in the order of these accesses, which the tables below name.  Of a      *)
(* worker and of a histogram the code fixes what an item counts; the       *)
(* fields of the other sets are public, and a caller raises any of them.   *)
(***************************************************************************)
EXTENDS Integers, SequencesExt

CONSTANTS
  Sets,        \* the counter sets
  Tellers,     \* threads that count
  MaxItems,    \* bound: items
  MaxClears    \* bound: calls of reset

ASSUME SetsAssumption == Sets \subseteq {"worker", "stage", "pipeline", "backpressure", "latency"}
ASSUME TellersAssumption == IsFiniteSet(Tellers)
ASSUME CounterBounds == MaxItems \in Nat /\ MaxClears \in Nat

VARIABLES
  set,         \* the counter set at hand
  tally,       \* its fields
  todo,        \* per teller: what is still to count of its item
  toRead,      \* the snapshot being taken: the fields it has not loaded yet
  snapshot,    \* and what it has loaded
  toClear,     \* the reset under way: the fields it has not cleared yet
  dead,        \* tellers that a panic has ended in the middle of an item
  items, clears,
  opened,      \* history: the items begun when the snapshot was
  disturbed,   \* history: a reset overlapped the snapshot
  torn         \* history: a reset overlapped an item

counterVars == <<set, tally, todo, toRead, snapshot, toClear, dead, items, clears, opened, disturbed, torn>>

---------------------------------------------------------------------------
(* What an item counts                                                     *)

\* stage_worker: the result of process or of a tick is sent, or dropped by a full
\* channel; the latency is recorded last, and only for an input.
WorkerItems == {<<"input", f, "time">> : f \in {"output", "dropped", "filtered"}}
               \union {<<"output">>, <<"dropped">>}

\* Mutant: the count is raised before the bucket.
LatencyItemsCountFirst == {<<"count", "low">>, <<"count", "high">>}

\* record: the bucket first, then the count.
LatencyItems == {<<"low", "count">>, <<"high", "count">>}

---------------------------------------------------------------------------
(* The order in which snapshot loads the fields; reset clears them in it   *)

WorkerFields == <<"input", "output", "filtered", "dropped", "time">>
StageFields == <<"input", "output", "filtered", "dropped", "error">>
PipelineFields == <<"received", "processed", "filtered", "dropped", "errors">>
BackpressureFields == <<"accepted", "dropped", "blocked", "sampled_out">>

\* percentile loads the count first, then the buckets upwards.
LatencyFields == <<"count", "low", "high">>

FieldsOf(s) == CASE s = "worker" -> WorkerFields
                 [] s = "stage" -> StageFields
                 [] s = "pipeline" -> PipelineFields
                 [] s = "backpressure" -> BackpressureFields
                 [] s = "latency" -> LatencyFields

\* The record_ methods, and the increments of PipelineCounters, one at a time.
AnyItems(s) == {<<f>> : f \in ToSet(FieldsOf(s))}

ItemsOf(s) == CASE s = "worker" -> WorkerItems
                [] s = "latency" -> LatencyItems
                [] OTHER -> AnyItems(s)

\* LatencyHistogram::reset clears the buckets before the count.
ClearOrder(s) == IF s = "latency" THEN <<"low", "high", "count">> ELSE FieldsOf(s)

Zero(s) == [f \in ToSet(FieldsOf(s)) |-> 0]

CountersInit ==
  /\ set \in Sets
  /\ tally = Zero(set) /\ snapshot = Zero(set)
  /\ todo = [t \in Tellers |-> <<>>]
  /\ toRead = <<>> /\ toClear = <<>> /\ dead = {}
  /\ items = 0 /\ clears = 0 /\ opened = 0
  /\ disturbed = FALSE /\ torn = FALSE

---------------------------------------------------------------------------
Counting == {t \in Tellers : todo[t] # <<>>}

\* A worker's counters have one teller, its thread.
BeginItem(t, path) ==
  /\ todo[t] = <<>> /\ items < MaxItems
  /\ set = "worker" => Counting = {}
  /\ todo' = [todo EXCEPT ![t] = path]
  /\ items' = items + 1
  /\ torn' = (torn \/ toClear # <<>>)
  /\ UNCHANGED <<set, tally, toRead, snapshot, toClear, dead, clears, opened, disturbed>>

CountNext(t) ==
  /\ todo[t] # <<>> /\ t \notin dead
  /\ tally' = [tally EXCEPT ![Head(todo[t])] = @ + 1]
  /\ todo' = [todo EXCEPT ![t] = Tail(@)]
  /\ UNCHANGED <<set, toRead, snapshot, toClear, dead, items, clears, opened, disturbed, torn>>

\* process panics between the count of its input and that of its result: the thread
\* ends, and what is left of the item is never counted.
ProcessPanics(t) ==
  /\ set = "worker" /\ t \notin dead /\ Len(todo[t]) = 2
  /\ dead' = dead \union {t}
  /\ UNCHANGED <<set, tally, todo, toRead, snapshot, toClear, items, clears, opened, disturbed, torn>>

BeginSnapshot ==
  /\ toRead = <<>>
  /\ toRead' = FieldsOf(set)
  /\ snapshot' = Zero(set)
  /\ opened' = items - Cardinality(Counting)
  /\ disturbed' = (toClear # <<>>)
  /\ UNCHANGED <<set, tally, todo, toClear, dead, items, clears, torn>>

ReadField ==
  /\ toRead # <<>>
  /\ snapshot' = [snapshot EXCEPT ![Head(toRead)] = tally[Head(toRead)]]
  /\ toRead' = Tail(toRead)
  /\ UNCHANGED <<set, tally, todo, toClear, dead, items, clears, opened, disturbed, torn>>

BeginClear ==
  /\ toClear = <<>> /\ clears < MaxClears
  /\ toClear' = ClearOrder(set)
  /\ clears' = clears + 1
  /\ disturbed' = TRUE
  /\ torn' = (Counting # {})
  /\ UNCHANGED <<set, tally, todo, toRead, snapshot, dead, items, opened>>

\* Mutant: a field is cleared by what it was when the item before it was counted.
ClearFieldLate ==
  /\ toClear # <<>>
  /\ tally' = [tally EXCEPT ![Head(toClear)] = IF @ > 1 THEN 1 ELSE 0]
  /\ toClear' = Tail(toClear)
  /\ UNCHANGED <<set, todo, toRead, snapshot, dead, items, clears, opened, disturbed, torn>>

\* Counter::reset, or a store of zero.
ClearField ==
  /\ toClear # <<>>
  /\ tally' = [tally EXCEPT ![Head(toClear)] = 0]
  /\ toClear' = Tail(toClear)
  /\ UNCHANGED <<set, todo, toRead, snapshot, dead, items, clears, opened, disturbed, torn>>

CountersNext ==
  \/ \E t \in Tellers : \/ CountNext(t) \/ ProcessPanics(t)
                         \/ \E path \in ItemsOf(set) : BeginItem(t, path)
  \/ BeginSnapshot \/ ReadField \/ BeginClear \/ ClearField

CountersSpec == CountersInit /\ [][CountersNext]_counterVars

---------------------------------------------------------------------------
(* What is made of a snapshot v                                            *)

\* A worker's rates, as <<part, whole>>; 0 of a whole of 0.  Where a caller counts what
\* it likes no rate is bounded.
RatesOf(s, v) == IF s = "worker" THEN {<<v.filtered, v.input>>, <<v.time, v.input>>} ELSE {}

\* percentile for a target rank: the first bucket that reaches it, or, when none
\* does, the last of all the 64.
Percentile(v, target) ==
  IF v.low >= target THEN "low" ELSE IF v.low + v.high >= target THEN "high" ELSE "last"

---------------------------------------------------------------------------
(* Properties                                                              *)

\* What a set's fields add up to when nothing is under way: every input of a worker is
\* timed, but for one in which it panicked.
Balanced(v) ==
  CASE set = "worker" -> /\ v.time <= v.input /\ v.input <= v.time + Cardinality(dead)
                         /\ v.filtered <= v.input
    [] set = "latency" -> v.count = v.low + v.high
    [] OTHER -> TRUE

\* What came between the first load of the snapshot and the last.
Arrived == items - opened

\* The counters of workers and histograms that no reset has torn balance as soon as
\* nobody counts who lives.
CountersSettle == (Counting \subseteq dead /\ toClear = <<>> /\ ~torn) => Balanced(tally)

\* A finished snapshot is no state the counters were in, but each of its fields is
\* behind by no more than the items that were counted meanwhile, whoever counts what.
\* A worker's whole is loaded before its parts, so that a rate may exceed one, but only
\* by those items.  A histogram is loaded against the order it is counted in: its buckets
\* hold at least what its count says, so that no percentile of an undisturbed one
\* falls through to the last of the 64 buckets (latency.rs:180).
SnapshotsAreClose ==
  (toRead = <<>> /\ ~disturbed /\ ~torn) =>
    /\ \A f \in DOMAIN tally : snapshot[f] <= tally[f] /\ tally[f] <= snapshot[f] + Arrived
    /\ \A r \in RatesOf(set, snapshot) : r[1] <= r[2] + Arrived
    /\ set = "latency" => /\ snapshot.count <= snapshot.low + snapshot.high
                          /\ \A k \in 1..snapshot.count : Percentile(snapshot, k) # "last"
=============================================================================
