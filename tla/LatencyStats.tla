---------------------------- MODULE LatencyStats ----------------------------
(***************************************************************************)
(* What a stage keeps of its latencies: LatencyHistogram (metrics/         *)
(* latency.rs) and JitterTracker (metrics/jitter.rs), fed one after the    *)
(* other by StageMetricsCollector::record_output (stage_metrics.rs).       *)
(*                                                                         *)
(* Everything is an atomic of its own.  Several threads record at a time,  *)
(* and one action is one access.  Mean and sum of squares are fixed-point  *)
(* numbers; here they are scaled by Scale, a multiple of every count that  *)
(* occurs, so that a mean of recorded values is exact.  A latency of       *)
(* u64::MAX ns, which a minimum cannot tell from none, is left out, and so *)
(* is the rounding of f64.                                                 *)
(***************************************************************************)
EXTENDS Sums, FiniteSetsExt, SequencesExt

CONSTANTS
  Recorders,     \* threads that record
  Samples,       \* the latencies they record
  MaxRecords,    \* bound: records
  MaxStatResets, \* bound: calls of reset
  MaxFixed,      \* the largest fixed-point number, u64::MAX >> FP_BITS
  Scale          \* what a stored mean is scaled by

NumBuckets == 64
U64Max == 2147483647       \* stands for u64::MAX, the minimum of no records

ASSUME SamplesAssumption == Samples \subseteq 0..U64Max - 1
ASSUME RecordersAssumption == IsFiniteSet(Recorders)
ASSUME StatBoundsAssumption ==
  MaxRecords \in Nat /\ MaxStatResets \in Nat /\ MaxFixed \in Nat /\ Scale \in Nat \ {0}
ASSUME ScaleAssumption == \A n \in 1..MaxRecords : Scale % n = 0

Pow2[k \in 0..30] == IF k = 0 THEN 1 ELSE 2 * Pow2[k - 1]
Log2(n) == CHOOSE k \in 0..30 : Pow2[k] <= n /\ n \div 2 < Pow2[k]
BucketFor(x) == IF x = 0 THEN 0
                ELSE Min({(Log2(x) * 10) \div 3, NumBuckets - 1})
LatencyForBucket(b) == IF b = 0 THEN 0 ELSE Pow2[(b * 3) \div 10]
Buckets == {BucketFor(x) : x \in Samples}

VARIABLES
  buckets, hcount, hsum,      \* LatencyHistogram
  jcount, jmean, jm2,         \* JitterTracker, jmean scaled once and jm2 twice
  extreme,                    \* min and max of either
  rpc, sample,                \* per recorder: its step and the latency it records
  seen,                       \* per recorder: what a compare-and-exchange expects
  read,                       \* per recorder: count, mean and m2 as it loaded them
  clearing,                   \* reset: the step it is at
  recs, statResets,           \* history: calls
  stored,                     \* history: samples whose record ended since the last reset
  mixed,                      \* history: a record and a reset overlapped
  crowded                     \* history: two records overlapped since the last reset

histogram == <<buckets, hcount, hsum>>
jitter == <<jcount, jmean, jm2>>
statLocals == <<sample, seen, read>>
statHistory == <<recs, statResets, stored, mixed, crowded>>
statVars == <<histogram, jitter, extreme, rpc, statLocals, clearing, statHistory>>

NoRead == [count |-> 0, mean |-> 0, m2 |-> 0]
Busy == {t \in Recorders : rpc[t] # "idle"}
StatGoto(t, from, to) == rpc[t] = from /\ rpc' = [rpc EXCEPT ![t] = to]

StatsInit ==
  /\ buckets = [b \in Buckets |-> 0] /\ hcount = 0 /\ hsum = 0
  /\ jcount = 0 /\ jmean = 0 /\ jm2 = 0
  /\ extreme = [hmin |-> U64Max, hmax |-> 0, jmin |-> U64Max, jmax |-> 0]
  /\ rpc = [t \in Recorders |-> "idle"]
  /\ sample = [t \in Recorders |-> 0]
  /\ seen = [t \in Recorders |-> 0]
  /\ read = [t \in Recorders |-> NoRead]
  /\ clearing = "none"
  /\ recs = 0 /\ statResets = 0
  /\ stored = <<>>
  /\ mixed = FALSE /\ crowded = FALSE

---------------------------------------------------------------------------
(* LatencyHistogram::record: bucket, count, sum                            *)

StartRecord(t, x) ==
  /\ recs < MaxRecords
  /\ StatGoto(t, "idle", "count")
  /\ buckets' = [buckets EXCEPT ![BucketFor(x)] = @ + 1]
  /\ sample' = [sample EXCEPT ![t] = x]
  /\ recs' = recs + 1
  /\ mixed' = (mixed \/ clearing # "none")
  /\ crowded' = (crowded \/ Busy # {})
  /\ UNCHANGED <<hcount, hsum, jitter, extreme, seen, read, clearing, statResets, stored>>

CountRecord(t) ==
  /\ StatGoto(t, "count", "sum")
  /\ hcount' = hcount + 1
  /\ UNCHANGED <<buckets, hsum, jitter, extreme, statLocals, clearing, statHistory>>

SumRecord(t) ==
  /\ StatGoto(t, "sum", "hmin")
  /\ hsum' = hsum + sample[t]
  /\ UNCHANGED <<buckets, hcount, jitter, extreme, statLocals, clearing, statHistory>>

---------------------------------------------------------------------------
(* The loops that lower a minimum and raise a maximum, in the histogram and *)
(* then in the tracker                                                      *)

After == [hmin |-> "hmax", hmax |-> "jmin", jmin |-> "jmax", jmax |-> "loadCount"]
Trying == [hmin |-> "hmin.cas", hmax |-> "hmax.cas", jmin |-> "jmin.cas", jmax |-> "jmax.cas"]
Better(e, x, y) == IF e \in {"hmin", "jmin"} THEN x < y ELSE x > y

LoadExtreme(t, e) ==
  /\ StatGoto(t, e, Trying[e])
  /\ seen' = [seen EXCEPT ![t] = extreme[e]]
  /\ UNCHANGED <<histogram, jitter, extreme, sample, read, clearing, statHistory>>

ExtremeStands(t, e) ==
  /\ ~Better(e, sample[t], seen[t])
  /\ StatGoto(t, Trying[e], After[e])
  /\ seen' = [seen EXCEPT ![t] = 0]
  /\ UNCHANGED <<histogram, jitter, extreme, sample, read, clearing, statHistory>>

\* Mutant: a store instead of the compare-and-exchange.
StoreExtreme(t, e) ==
  /\ Better(e, sample[t], seen[t])
  /\ StatGoto(t, Trying[e], After[e])
  /\ extreme' = [extreme EXCEPT ![e] = sample[t]]
  /\ seen' = [seen EXCEPT ![t] = 0]
  /\ UNCHANGED <<histogram, jitter, sample, read, clearing, statHistory>>

SwapExtreme(t, e) ==
  /\ Better(e, sample[t], seen[t])
  /\ extreme[e] = seen[t]
  /\ StatGoto(t, Trying[e], After[e])
  /\ extreme' = [extreme EXCEPT ![e] = sample[t]]
  /\ seen' = [seen EXCEPT ![t] = 0]
  /\ UNCHANGED <<histogram, jitter, sample, read, clearing, statHistory>>

\* The exchange fails because another thread was faster (or spuriously, which
\* changes nothing).
SwapFails(t, e) ==
  /\ Better(e, sample[t], seen[t])
  /\ extreme[e] # seen[t]
  /\ rpc[t] = Trying[e]
  /\ seen' = [seen EXCEPT ![t] = extreme[e]]
  /\ UNCHANGED <<histogram, jitter, extreme, rpc, sample, read, clearing, statHistory>>

---------------------------------------------------------------------------
(* JitterTracker::record: Welford's algorithm                              *)

LoadCount(t) ==
  /\ StatGoto(t, "loadCount", "loadMean")
  /\ read' = [read EXCEPT ![t].count = jcount]
  /\ UNCHANGED <<histogram, jitter, extreme, sample, seen, clearing, statHistory>>

LoadMean(t) ==
  /\ StatGoto(t, "loadMean", "loadM2")
  /\ read' = [read EXCEPT ![t].mean = jmean]
  /\ UNCHANGED <<histogram, jitter, extreme, sample, seen, clearing, statHistory>>

LoadM2(t) ==
  /\ StatGoto(t, "loadM2", "swapCount")
  /\ read' = [read EXCEPT ![t].m2 = jm2]
  /\ UNCHANGED <<histogram, jitter, extreme, sample, seen, clearing, statHistory>>

\* The new mean moves towards the sample; what is stored of it, and of the sum of
\* squares, is clamped by to_fixed_point.
MovedMean(t) == LET delta == Scale * sample[t] - read[t].mean
                IN  read[t].mean + delta \div (read[t].count + 1)
MovedM2(t) == read[t].m2 + (Scale * sample[t] - read[t].mean) * (Scale * sample[t] - MovedMean(t))

\* Mutant: the fixed point wraps instead of saturating.
FixedPointWraps(value, one) == value % (MaxFixed * one + 1)
FixedPoint(value, one) ==
  IF value < 0 THEN 0 ELSE IF value > MaxFixed * one THEN MaxFixed * one ELSE value

NewMean(t) == FixedPoint(MovedMean(t), Scale)
NewM2(t) == FixedPoint(MovedM2(t), Scale * Scale)

\* "We use count as the lock": the stores that follow are not part of it.
SwapCount(t) ==
  /\ jcount = read[t].count
  /\ StatGoto(t, "swapCount", "storeMean")
  /\ jcount' = read[t].count + 1
  /\ UNCHANGED <<histogram, jmean, jm2, extreme, statLocals, clearing, statHistory>>

SwapCountFails(t) ==
  /\ StatGoto(t, "swapCount", "loadCount")
  /\ read' = [read EXCEPT ![t] = NoRead]
  /\ UNCHANGED <<histogram, jitter, extreme, sample, seen, clearing, statHistory>>

StoreMean(t) ==
  /\ StatGoto(t, "storeMean", "storeM2")
  /\ jmean' = NewMean(t)
  /\ UNCHANGED <<histogram, jcount, jm2, extreme, statLocals, clearing, statHistory>>

StoreM2(t) ==
  /\ StatGoto(t, "storeM2", "idle")
  /\ jm2' = NewM2(t)
  /\ stored' = Append(stored, sample[t])
  /\ sample' = [sample EXCEPT ![t] = 0]
  /\ read' = [read EXCEPT ![t] = NoRead]
  /\ UNCHANGED <<histogram, jcount, jmean, extreme, seen, clearing, recs, statResets, mixed, crowded>>

---------------------------------------------------------------------------
(* reset of the histogram (its 64 stores taken together), then the tracker *)

ClearHistogram ==
  /\ clearing = "none" /\ statResets < MaxStatResets
  /\ clearing' = "hextreme"
  /\ buckets' = [b \in Buckets |-> 0] /\ hcount' = 0 /\ hsum' = 0
  /\ statResets' = statResets + 1
  /\ stored' = <<>>
  /\ crowded' = FALSE
  /\ mixed' = (Busy # {})
  /\ UNCHANGED <<jitter, extreme, rpc, statLocals, recs>>

ClearExtremes ==
  /\ clearing = "hextreme"
  /\ clearing' = "jitter"
  /\ extreme' = [extreme EXCEPT !.hmin = U64Max, !.hmax = 0]
  /\ UNCHANGED <<histogram, jitter, rpc, statLocals, statHistory>>

ClearJitter ==
  /\ clearing = "jitter"
  /\ clearing' = "none"
  /\ jcount' = 0 /\ jmean' = 0 /\ jm2' = 0
  /\ extreme' = [extreme EXCEPT !.jmin = U64Max, !.jmax = 0]
  /\ UNCHANGED <<histogram, rpc, statLocals, statHistory>>

---------------------------------------------------------------------------
(* What the tracker answers: min, max and range, as sets of at most one     *)
(* value, and the variance as a fraction                                   *)

Minimum == IF extreme.jmin = U64Max THEN {} ELSE {extreme.jmin}
Maximum == IF extreme.jmax = 0 /\ jcount = 0 THEN {} ELSE {extreme.jmax}
Spread == {b - a : a \in Minimum, b \in Maximum}

\* Bessel's correction; nothing is known of fewer than two.
Variance == IF jcount < 2 THEN <<0, 1>> ELSE <<jm2, jcount - 1>>

---------------------------------------------------------------------------
RecordStep(t) ==
  \/ \E x \in Samples : StartRecord(t, x)
  \/ CountRecord(t) \/ SumRecord(t)
  \/ \E e \in DOMAIN After : \/ LoadExtreme(t, e) \/ ExtremeStands(t, e)
                             \/ SwapExtreme(t, e) \/ SwapFails(t, e)
  \/ LoadCount(t) \/ LoadMean(t) \/ LoadM2(t)
  \/ SwapCount(t) \/ SwapCountFails(t) \/ StoreMean(t) \/ StoreM2(t)

StatsNext == \/ \E t \in Recorders : RecordStep(t)
             \/ ClearHistogram \/ ClearExtremes \/ ClearJitter

---------------------------------------------------------------------------
(* Properties                                                              *)

StatsTypeOK ==
  /\ buckets \in [Buckets -> Nat] /\ hcount \in Nat /\ hsum \in Nat
  /\ jcount \in Nat /\ jmean \in Nat /\ jm2 \in Nat
  /\ extreme \in [DOMAIN After -> Nat]
  /\ read \in [Recorders -> [count : Nat, mean : Nat, m2 : Nat]]
  /\ stored \in Seq(Samples)

Count == Len(stored)
Total == SumOf(stored)
Recorded == ToSet(stored)
\* The variance is the sum of squares less the square of the sum by the count, or, when
\* that is more than the fixed point holds, the most it holds; all by one less than the
\* count.
Squares == SumOf([i \in DOMAIN stored |-> stored[i] * stored[i]])
VarianceIsExact ==
  Variance[1] * Count * (Count - 1) =
    Variance[2] * Min({Scale * Scale * (Count * Squares - Total * Total),
                       Count * (MaxFixed * (Scale * Scale))})
InBucket(b) == {i \in DOMAIN stored : BucketFor(stored[i]) = b}

\* percentile with the target it computes: the latency it reports for it, and the
\* sample that has that rank.
BucketCounts == [i \in 1..NumBuckets |-> IF i - 1 \in Buckets THEN buckets[i - 1] ELSE 0]
Reported(target) ==
  LatencyForBucket(Min({NumBuckets - 1} \union
    {b \in 0..NumBuckets - 1 : RunningSum(BucketCounts)[b + 1] >= target}))
Ranked(target) == Min({x \in Recorded : Cardinality({i \in DOMAIN stored : stored[i] <= x}) >= target})

\* When no record is under way, and none overlapped a reset, nothing was lost
\* between the threads: histogram, tracker and extremes describe the samples
\* recorded since the reset, and each percentile is the true one rounded down: below
\* 2^20 ns, where the last bucket starts, by less than a factor of four.  Mean and
\* variance are exact if besides no two records overlapped, as the count is no lock for
\* the two stores (jitter.rs:117), and no latency is more than the fixed point holds:
\* the variance up to the sum of squares at which it saturates (jitter.rs:241).
StatsSettle ==
  (Busy = {} /\ clearing = "none" /\ ~mixed) =>
    /\ hcount = Count /\ jcount = Count /\ hsum = Total
    /\ \A b \in Buckets : buckets[b] = Cardinality(InBucket(b))
    /\ Count > 0 => /\ extreme.hmin = Min(Recorded) /\ extreme.jmin = Min(Recorded)
                    /\ extreme.hmax = Max(Recorded) /\ extreme.jmax = Max(Recorded)
                    /\ \A k \in 1..Count :
                         /\ Reported(k) <= Ranked(k)
                         /\ Ranked(k) < 1048576 => Ranked(k) < 4 * Reported(k) + 4
                    /\ (~crowded /\ \A x \in Recorded : x <= MaxFixed) =>
                         jmean * Count = Scale * Total /\ VarianceIsExact
                    /\ Spread = {Max(Recorded) - Min(Recorded)}
    /\ Count = 0 => Spread = {} /\ Variance[1] = 0
=============================================================================
