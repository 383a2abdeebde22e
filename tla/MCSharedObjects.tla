-------------------------- MODULE MCSharedObjects --------------------------
(* The objects that threads share without a lock: object pool, buffer pool,   *)
(* shared data, latency statistics, counters, metrics and their reporter, and  *)
(* what is made of snapshots.  None of them calls another: a behaviour         *)
(* exercises the one that `component` names.                                   *)
EXTENDS ObjectPool, BufferPool, SharedData, LatencyStats, CounterSets, MetricsReporting,
        SnapshotReports, TLC

VARIABLE component
memoryVars == <<poolVars, bufferVars, sharedVars>>
countVars == <<statVars, counterVars>>
reportingVars == <<reportVars, recorderVars>>
allVars == <<component, memoryVars, countVars, reportingVars>>

Components == {"objects", "buffers", "shared", "stats", "counters", "reports", "recorder"}

Init == /\ component \in Components
        /\ PoolInit /\ BuffersInit /\ SharedInit
        /\ StatsInit /\ CountersInit /\ ReportInit /\ RecorderInit
        /\ component # "counters" => set = "stage"

Next ==
  /\ UNCHANGED component
  /\ \/ /\ component = "objects" /\ PoolNext
        /\ UNCHANGED <<bufferVars, sharedVars, countVars, reportingVars>>
     \/ /\ component = "buffers" /\ BuffersNext
        /\ UNCHANGED <<poolVars, sharedVars, countVars, reportingVars>>
     \/ /\ component = "shared" /\ SharedNext
        /\ UNCHANGED <<poolVars, bufferVars, countVars, reportingVars>>
     \/ /\ component = "stats" /\ StatsNext
        /\ UNCHANGED <<memoryVars, counterVars, reportingVars>>
     \/ /\ component = "counters" /\ CountersNext
        /\ UNCHANGED <<memoryVars, statVars, reportingVars>>
     \/ /\ component = "reports" /\ ReportNext
        /\ UNCHANGED <<memoryVars, countVars, recorderVars>>
     \/ /\ component = "recorder" /\ RecorderNext
        /\ UNCHANGED <<memoryVars, countVars, reportVars>>

Spec == Init /\ [][Next]_allVars

\* Snapshots of an idle pipeline, a fast one, one that misses targets, and one that was
\* taken while an item entered and left.
Snap(rate, high, deviation, in, out) ==
  [throughput |-> rate, p99 |-> high, jitter |-> deviation, input |-> in, output |-> out]
SomeSnapshots ==
  {Snap(0, 0, 0, 0, 0), Snap(9, 4, 1, 10, 9), Snap(4, 7, 3, 12, 6), Snap(5, 3, 1, 0, 2)}
SomeTargets == [throughput |-> 5, p99 |-> 5, jitter |-> 2]

\* Every set of threads is the same set of two.
Symmetry == Permutations(Threads)

\* Of a component that the behaviour does not exercise there is nothing to say.
Of(c, P) == component = c => P

TypeOK == Of("objects", PoolTypeOK) /\ Of("buffers", BuffersTypeOK) /\ Of("stats", StatsTypeOK)

\* What a thread is handed is fit for use: a pooled object is clean, a buffer has
\* the room that was asked for while an idle one keeps no more memory than its class
\* may, and shared data does not change under its owner.
HandedOutIsFit == /\ Of("objects", PooledIsClean)
                  /\ Of("buffers", IdleCapacityBounded /\ ServedInFull)
                  /\ Of("shared", DataIsOwn)

\* Counters and statistics add up once their threads are quiet, and a snapshot of
\* moving ones is off by no more than what moved.
CountsAgree == Of("stats", StatsSettle) /\ Of("counters", CountersSettle /\ SnapshotsAreClose)

\* The reporter's view is close to the counters, the reporter ends when told to, and
\* what is recorded, summed up and drawn of snapshots is true to them.
ReportingIsSound ==
  /\ Of("reports", ReportsAreClose /\ DroppedDashboardIsGone)
  /\ Of("recorder", SummaryIsSound /\ DrawingIsTrue)
=============================================================================
