--------------------------- MODULE SnapshotReports ---------------------------
(***************************************************************************)
(* What is made of snapshots: MetricsRecorder and SummaryStatistics        *)
(* (metrics/export.rs), PerformanceTargets and TargetCheck                 *)
(* (metrics/pipeline_metrics.rs), Dashboard::render_once and the sparkline *)
(* of its renderer (metrics/dashboard.rs).                                 *)
(*                                                                         *)
(* A snapshot is its throughput, p99 latency, jitter and totals, in units  *)
(* in which they are integers; a mean or a rate is a pair <<part, whole>>. *)
(***************************************************************************)
EXTENDS Sums, SequencesExt

CONSTANTS
  Snapshots,      \* the snapshots that occur
  MaxSnapshots,   \* MetricsRecorder::max_snapshots
  RenderHistory,  \* DashboardConfig::history_length
  MaxBars,        \* the values a sparkline shows (30 in the code)
  Targets,        \* PerformanceTargets
  MaxReports      \* bound: snapshots recorded or rendered

ASSUME SnapshotsAssumption ==
  /\ Snapshots \subseteq [throughput : Nat, p99 : Nat, jitter : Nat, input : Nat, output : Nat]
  /\ Targets \in [throughput : Int, p99 : Int, jitter : Int]
ASSUME RecorderAssumption == MaxSnapshots \in Nat /\ MaxBars \in Nat /\ RenderHistory \in Nat
ASSUME ReportsBound == MaxReports \in Nat

VARIABLES
  snapshots,      \* MetricsRecorder
  throughput_history,  \* Dashboard; latency_history is kept alike
  bars,           \* the sparkline last shown, and the values it was made of
  recorded,       \* history: all that was recorded since the last clear
  rendered,       \* history: the throughputs rendered
  reports

recorderVars == <<snapshots, throughput_history, bars, recorded, rendered, reports>>

NoBars == [level |-> <<>>, of |-> <<>>]

RecorderInit ==
  /\ snapshots = <<>> /\ throughput_history = <<>> /\ bars = NoBars
  /\ recorded = <<>> /\ rendered = <<>> /\ reports = 0

---------------------------------------------------------------------------
(* MetricsRecorder                                                         *)

\* Mutant: room is made only when the recorder is already too long.
KeptLate(s, x) == Append(IF Len(s) > MaxSnapshots THEN Tail(s) ELSE s, x)

\* record: a full recorder gives up its oldest snapshot.  With room for none there is no
\* oldest, and remove panics before anything is recorded (export.rs:240).
Kept(s, x) == Append(IF Len(s) >= MaxSnapshots THEN Tail(s) ELSE s, x)

Record(x) ==
  /\ reports < MaxReports /\ MaxSnapshots > 0
  /\ snapshots' = Kept(snapshots, x)
  /\ recorded' = Append(recorded, x)
  /\ reports' = reports + 1
  /\ UNCHANGED <<throughput_history, bars, rendered>>

ClearRecords ==
  /\ snapshots' = <<>> /\ recorded' = <<>>
  /\ UNCHANGED <<throughput_history, bars, rendered, reports>>

---------------------------------------------------------------------------
(* SummaryStatistics::from_snapshots: sums, and folds from 0 or infinity   *)

Each(s, field) == [i \in DOMAIN s |-> s[i][field]]

Summary(s) ==
  [count |-> Len(s),
   throughput |-> SumOf(Each(s, "throughput")),
   least |-> Min(ToSet(Each(s, "throughput"))),
   largest |-> Max({0} \union ToSet(Each(s, "throughput"))),
   p99 |-> Max({0} \union ToSet(Each(s, "p99"))),
   input |-> SumOf(Each(s, "input")),
   output |-> SumOf(Each(s, "output"))]

\* Of a snapshot, and overall: 1 - output / input, and 0 of no input.
DropRate(x) == IF x.input = 0 THEN <<0, 1>> ELSE <<x.input - x.output, x.input>>

---------------------------------------------------------------------------
(* check_targets and all_ok                                                *)

Check(x) == [throughput |-> x.throughput >= Targets.throughput,
             latency |-> x.p99 <= Targets.p99,
             jitter |-> x.jitter <= Targets.jitter]
AllOk(check) == check.throughput /\ check.latency /\ check.jitter

---------------------------------------------------------------------------
(* The sparkline, and render_once                                          *)

Levels7 == 7   \* characters of different height

\* Mutant: scaled to the number of characters.
HeightOver(v, least, range) == ((v - least) * Levels7) \div range

Height(v, least, range) == ((v - least) * (Levels7 - 1)) \div range

\* All of middle height when they are the same; of the values, the first MaxBars.
Sparkline(values) ==
  LET least == Min(ToSet(values))
      range == Max(ToSet(values)) - least
      shown == SubSeq(values, 1, IF Len(values) < MaxBars THEN Len(values) ELSE MaxBars)
  IN  [i \in DOMAIN shown |-> IF range = 0 THEN 3 ELSE Height(shown[i], least, range)]

Shortened(s) == IF Len(s) > RenderHistory THEN Tail(s) ELSE s

\* The history is the dashboard's, copied into a new renderer, whose render appends
\* the same snapshot once more.
RenderOnce(x) ==
  LET history == Shortened(Append(throughput_history, x.throughput))
      again == Shortened(Append(history, x.throughput))
  IN  /\ reports < MaxReports
      /\ throughput_history' = history
      /\ bars' = [level |-> IF again = <<>> THEN <<>> ELSE Sparkline(again), of |-> again]
      /\ rendered' = Append(rendered, x.throughput)
      /\ reports' = reports + 1
      /\ UNCHANGED <<snapshots, recorded>>

RecorderNext == (\E x \in Snapshots : Record(x) \/ RenderOnce(x)) \/ ClearRecords

RecorderSpec == RecorderInit /\ [][RecorderNext]_recorderVars

---------------------------------------------------------------------------
(* Properties                                                              *)

Latest(s, n) == SubSeq(s, IF Len(s) < n THEN 1 ELSE Len(s) - n + 1, Len(s))
NoMore(a, b) == a[1] * b[2] <= b[1] * a[2]

\* export.rs: the recorder holds the latest MaxSnapshots in their order, and its
\* summary lies among them: the extremes occur, the mean throughput is between those of
\* single snapshots, and so is the overall drop rate, although the totals it adds up are
\* cumulative, unless a snapshot was taken between the two totals and shows outputs of
\* no input.
SummaryIsSound ==
  /\ snapshots = Latest(recorded, MaxSnapshots)
  /\ snapshots # <<>> =>
       LET s == Summary(snapshots)
       IN  /\ s.count = Len(snapshots)
           /\ {s.least, s.largest} \subseteq ToSet(Each(snapshots, "throughput"))
           /\ s.p99 \in ToSet(Each(snapshots, "p99"))
           /\ s.least * s.count <= s.throughput /\ s.throughput <= s.largest * s.count
           /\ (\A x \in ToSet(snapshots) : x.input = 0 => x.output = 0) =>
              \E i, j \in DOMAIN snapshots :
                /\ NoMore(DropRate(snapshots[i]), DropRate(s))
                /\ NoMore(DropRate(s), DropRate(snapshots[j]))

\* dashboard.rs:308 onwards: no value is drawn with a character that does not exist;
\* the drawing keeps the order of the values, and when all of them are shown its ends
\* are the least and the largest. The history behind it is the latest of what was
\* rendered, and a snapshot that meets the targets is not made to fail them by doing
\* better.
DrawingIsTrue ==
  /\ \A i \in DOMAIN bars.level : bars.level[i] \in 0..Levels7 - 1
  /\ \A i, j \in DOMAIN bars.level : bars.of[i] <= bars.of[j] => bars.level[i] <= bars.level[j]
  /\ (Len(bars.of) <= MaxBars /\ \E i, j \in DOMAIN bars.of : bars.of[i] # bars.of[j]) =>
       {0, Levels7 - 1} \subseteq ToSet(bars.level)
  /\ throughput_history = Latest(rendered, RenderHistory)
  /\ \A x, y \in Snapshots :
       (AllOk(Check(x)) /\ y.throughput >= x.throughput /\ y.p99 <= x.p99 /\ y.jitter <= x.jitter)
         => AllOk(Check(y))
=============================================================================
