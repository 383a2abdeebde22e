-------------------------- MODULE MetricsReporting --------------------------
(***************************************************************************)
(* The counters of a pipeline and who reports them: LatencyTracker and     *)
(* LatencyToken over PipelineMetricsAggregator (metrics/pipeline_metrics   *)
(* .rs), StageTimer over StageMetricsCollector (stage_metrics.rs), the     *)
(* thread of Dashboard with its renderer (dashboard.rs).                   *)
(*                                                                         *)
(* Producers count items while a reporter reads the same counters one      *)
(* after the other, and a reset clears them one after the other: no        *)
(* snapshot is a state the counters were ever in.                          *)
(***************************************************************************)
EXTENDS Integers, Sequences, FiniteSetsExt

CONSTANTS
  Producers,      \* threads that take items through the pipeline
  Renderers,      \* threads that Dashboard::start may spawn
  HistoryLength,  \* DashboardConfig::history_length
  MaxTokens,      \* bound: items
  MaxWipes,       \* bound: calls of PipelineMetricsAggregator::reset
  MaxSnaps        \* bound: snapshots rendered before the last one begins

ASSUME ProducersAssumption == IsFiniteSet(Producers)
ASSUME HistoryAssumption == HistoryLength \in Nat
ASSUME ReportBoundsAssumption == MaxTokens \in Nat /\ MaxWipes \in Nat /\ MaxSnaps \in Nat

VARIABLES
  total_input, total_output,         \* PipelineMetricsAggregator
  stage_input, stage_ended,          \* the stage's inputs; its outputs and drops
  token,                             \* per producer: how far its item is
  wiping,                            \* reset: the counter it clears next
  wipes,                             \* bounds the calls of reset
  entered,                           \* history: the items begun
  carried,                           \* history: those under way in the last reset
  dashboard,                         \* the owner: "live", "stopping" or "dropped"
  halt,                              \* Dashboard::shutdown
  handle,                            \* Dashboard::thread: the renderers it may join
  spawned,                           \* the renderers start has spawned
  orphans,                           \* history: those whose handle a second start threw away
  render,                            \* per renderer: where its thread is
  snap,                              \* per renderer: the snapshot it is taking
  begun,                             \* history, per renderer: entered when its snapshot began
  steady,                            \* history: renderers whose snapshot no reset overlapped
  window,                            \* per renderer: throughput_history and latency_history, by snapshot number
  taken                              \* history, per renderer: the number of snapshots it rendered

counts == <<total_input, total_output, stage_input, stage_ended>>
wipeVars == <<wiping, wipes, carried>>
ownerVars == <<dashboard, halt, handle, spawned, orphans>>
renderVars == <<render, snap, begun, window, taken, steady>>
reportVars == <<counts, token, entered, wipeVars, ownerVars, renderVars>>

NoSnap == [stageIn |-> 0, stageEnd |-> 0, input |-> 0, output |-> 0]

ReportInit ==
  /\ total_input = 0 /\ total_output = 0 /\ stage_input = 0 /\ stage_ended = 0
  /\ token = [p \in Producers |-> "none"]
  /\ wiping = "none" /\ wipes = 0 /\ entered = 0 /\ carried = 0 /\ steady = {}
  /\ dashboard = "live" /\ halt = FALSE /\ handle = {} /\ spawned = {} /\ orphans = {}
  /\ render = [r \in Renderers |-> "none"]
  /\ snap = [r \in Renderers |-> NoSnap]
  /\ begun = [r \in Renderers |-> 0]
  /\ window = [r \in Renderers |-> <<>>]
  /\ taken = [r \in Renderers |-> 0]

---------------------------------------------------------------------------
(* An item: a LatencyToken around a StageTimer                             *)

TokenGoto(p, from, to) == token[p] = from /\ token' = [token EXCEPT ![p] = to]

StartToken(p) ==
  /\ entered < MaxTokens
  /\ TokenGoto(p, "none", "started")
  /\ total_input' = total_input + 1
  /\ entered' = entered + 1
  /\ carried' = IF wiping = "none" THEN carried ELSE carried + 1
  /\ UNCHANGED <<total_output, stage_input, stage_ended, wiping, wipes, ownerVars, renderVars>>

StageInput(p) ==
  /\ TokenGoto(p, "started", "inStage")
  /\ stage_input' = stage_input + 1
  /\ UNCHANGED <<total_input, total_output, stage_ended, entered, wipeVars, ownerVars, renderVars>>

\* StageTimer: record_output, record_filtered, or dropped unrecorded, which its
\* Drop counts: each timer counts once.
StageEnd(p) ==
  /\ TokenGoto(p, "inStage", "processed")
  /\ stage_ended' = stage_ended + 1
  /\ UNCHANGED <<total_input, total_output, stage_input, entered, wipeVars, ownerVars, renderVars>>

CompleteToken(p) ==
  /\ TokenGoto(p, "processed", "none")
  /\ total_output' = total_output + 1
  /\ UNCHANGED <<total_input, stage_input, stage_ended, entered, wipeVars, ownerVars, renderVars>>

\* A token that is dropped is not counted as output.
DropToken(p) ==
  /\ token[p] \in {"started", "processed"}
  /\ token' = [token EXCEPT ![p] = "none"]
  /\ UNCHANGED <<counts, entered, wipeVars, ownerVars, renderVars>>

---------------------------------------------------------------------------
(* PipelineMetricsAggregator::reset, a store after the other, while items   *)
(* are under way and snapshots are taken: the stages first                  *)

UnderWay == {p \in Producers : token[p] # "none"}

BeginWipe ==
  /\ wiping = "none" /\ wipes < MaxWipes
  /\ wiping' = "stage_ended" /\ wipes' = wipes + 1
  /\ stage_input' = 0
  /\ carried' = Cardinality(UnderWay)
  /\ steady' = {}
  /\ UNCHANGED <<total_input, total_output, stage_ended, token, entered, ownerVars,
                 render, snap, begun, window, taken>>

\* What a stage ended with is in several counters, taken as one.
WipeStageEnded ==
  /\ wiping = "stage_ended" /\ wiping' = "total_input"
  /\ stage_ended' = 0
  /\ UNCHANGED <<total_input, total_output, stage_input, token, entered, wipes, carried, ownerVars, renderVars>>

WipeTotalInput ==
  /\ wiping = "total_input" /\ wiping' = "total_output"
  /\ total_input' = 0
  /\ UNCHANGED <<total_output, stage_input, stage_ended, token, entered, wipes, carried, ownerVars, renderVars>>

WipeTotalOutput ==
  /\ wiping = "total_output" /\ wiping' = "none"
  /\ total_output' = 0
  /\ UNCHANGED <<total_input, stage_input, stage_ended, token, entered, wipes, carried, ownerVars, renderVars>>

Wipe == BeginWipe \/ WipeStageEnded \/ WipeTotalInput \/ WipeTotalOutput

---------------------------------------------------------------------------
(* Dashboard: start, stop, drop                                            *)

\* start does not look at shutdown, which stop has set for good, nor at a thread
\* that already runs: its handle is overwritten.
StartDashboard(r) ==
  /\ dashboard = "live" /\ r \notin spawned
  /\ spawned' = spawned \union {r}
  /\ render' = [render EXCEPT ![r] = "check"]
  /\ orphans' = orphans \union handle
  /\ handle' = {r}
  /\ UNCHANGED <<counts, token, entered, wipeVars, dashboard, halt, snap, begun, window, taken, steady>>

\* stop, and Drop which calls it: the flag, then join.
StopDashboard(next) ==
  /\ dashboard = "live"
  /\ halt' = TRUE
  /\ dashboard' = next
  /\ UNCHANGED <<counts, token, entered, wipeVars, handle, spawned, orphans, renderVars>>

\* Mutant: the thread is told to end and left to itself.
JoinNothing ==
  /\ dashboard \in {"stopping", "dropping"}
  /\ handle' = {}
  /\ dashboard' = IF dashboard = "dropping" THEN "dropped" ELSE "live"
  /\ UNCHANGED <<counts, token, entered, wipeVars, halt, spawned, orphans, renderVars>>

JoinDashboard ==
  /\ dashboard \in {"stopping", "dropping"}
  /\ \A r \in handle : render[r] = "ended"
  /\ handle' = {}
  /\ dashboard' = IF dashboard = "dropping" THEN "dropped" ELSE "live"
  /\ UNCHANGED <<counts, token, entered, wipeVars, halt, spawned, orphans, renderVars>>

---------------------------------------------------------------------------
(* The dashboard's thread: check the flag, take a snapshot, render, sleep  *)

RenderGoto(r, from, to) == render[r] = from /\ render' = [render EXCEPT ![r] = to]

CheckHalt(r) ==
  /\ halt
  /\ RenderGoto(r, "check", "ended")
  /\ UNCHANGED <<counts, token, entered, wipeVars, ownerVars, snap, begun, window, taken, steady>>

\* PipelineMetricsAggregator::snapshot reads the stages first, each its input
\* before what came of it, and then total_input before total_output.
ReadStageInput(r) ==
  /\ ~halt /\ MapThenSumSet(LAMBDA q : taken[q], Renderers) < MaxSnaps
  /\ RenderGoto(r, "check", "stageEnd")
  /\ snap' = [snap EXCEPT ![r] = [NoSnap EXCEPT !.stageIn = stage_input]]
  /\ begun' = [begun EXCEPT ![r] = entered]
  /\ steady' = IF wiping = "none" THEN steady \union {r} ELSE steady \ {r}
  /\ UNCHANGED <<counts, token, entered, wipeVars, ownerVars, window, taken>>

ReadStageEnd(r) ==
  /\ RenderGoto(r, "stageEnd", "input")
  /\ snap' = [snap EXCEPT ![r].stageEnd = stage_ended]
  /\ UNCHANGED <<counts, token, entered, wipeVars, ownerVars, begun, window, taken, steady>>

ReadInput(r) ==
  /\ RenderGoto(r, "input", "output")
  /\ snap' = [snap EXCEPT ![r].input = total_input]
  /\ UNCHANGED <<counts, token, entered, wipeVars, ownerVars, begun, window, taken, steady>>

\* Mutant: the output is counted, and read, before the input.
ReadOutputTwice(r) ==
  /\ RenderGoto(r, "output", "record")
  /\ snap' = [snap EXCEPT ![r].output = total_output + stage_ended]
  /\ UNCHANGED <<counts, token, entered, wipeVars, ownerVars, begun, window, taken, steady>>

ReadOutput(r) ==
  /\ RenderGoto(r, "output", "record")
  /\ snap' = [snap EXCEPT ![r].output = total_output]
  /\ UNCHANGED <<counts, token, entered, wipeVars, ownerVars, begun, window, taken, steady>>

\* The oldest entry goes once there are more than HistoryLength.
Trim(w) == IF Len(w) > HistoryLength THEN Tail(w) ELSE w

Render(r) ==
  /\ RenderGoto(r, "record", "check")
  /\ window' = [window EXCEPT ![r] = Trim(Append(@, taken[r] + 1))]
  /\ taken' = [taken EXCEPT ![r] = @ + 1]
  /\ snap' = [snap EXCEPT ![r] = NoSnap]
  /\ begun' = [begun EXCEPT ![r] = 0]
  /\ UNCHANGED <<counts, token, entered, wipeVars, ownerVars, steady>>

---------------------------------------------------------------------------
ReportNext ==
  \/ \E p \in Producers : StartToken(p) \/ StageInput(p) \/ StageEnd(p)
                          \/ CompleteToken(p) \/ DropToken(p)
  \/ Wipe
  \/ \E r \in Renderers : StartDashboard(r)
  \/ StopDashboard("stopping") \/ StopDashboard("dropping") \/ JoinDashboard
  \/ \E r \in Renderers : \/ CheckHalt(r) \/ ReadStageInput(r) \/ ReadStageEnd(r)
                          \/ ReadInput(r) \/ ReadOutput(r) \/ Render(r)

ReportSpec == ReportInit /\ [][ReportNext]_reportVars

---------------------------------------------------------------------------
(* Properties                                                              *)

\* A snapshot is not a state the counters were in, but what is wrong with it is
\* bounded by what happened while it was taken, as long as no reset overlapped it: no
\* more outputs than inputs but for items that started meanwhile and items that the last
\* reset took out of the inputs while they were under way, so that a drop rate below
\* zero (pipeline_metrics.rs:172) is at most theirs; never more stage inputs than items
\* but for these; and a renderer's history holds its latest snapshots in order.
ReportsAreClose ==
  /\ \A r \in steady : render[r] = "record" =>
       /\ snap[r].output <= snap[r].input + (entered - begun[r]) + carried
       /\ snap[r].stageIn <= snap[r].input + carried
       /\ snap[r].stageEnd <= snap[r].input + carried
  /\ \A r \in Renderers :
       window[r] = LET n == IF taken[r] < HistoryLength THEN taken[r] ELSE HistoryLength
                   IN  [i \in 1..n |-> taken[r] - n + i]

\* dashboard.rs:134 "Stops the dashboard": once drop has returned no thread reads
\* the metrics any more, except those whose handle a second start threw away; and
\* even these have been told to end.
DroppedDashboardIsGone ==
  dashboard = "dropped" =>
    /\ halt \/ spawned = {}
    /\ \A r \in spawned \ orphans : render[r] = "ended"
=============================================================================
