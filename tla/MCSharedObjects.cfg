\* Two threads for each. A pool of two objects; two buffers at a time of sizes that
\* meet each boundary; three handles of shared data; two recorders of latencies
\* whose squares are below and beyond what the fixed point holds; two threads that count
\* two items, or panic; a producer whose counters are reset under it, and two
\* renderers; five snapshots into a recorder of two and a history of four.
SPECIFICATION Spec
CONSTANTS
  Threads = {t1, t2}
  PoolCap = 2
  Prefilled = 1
  HasReset = TRUE
  MaxObjects = 3
  PoolSize = 4
  PreparedBufs = 1
  Slots = {t1, t2}
  Requests = {256, 257, 2000000}
  Writes = {300}
  MaxLen = 600
  MaxAcquires = 3
  DataHandles = {t1, t2, d3}
  Values = 2
  Recorders = {t1, t2}
  Samples = {7, 20, 900}
  MaxRecords = 2
  MaxStatResets = 1
  MaxFixed = 1000
  Scale = 2
  Sets = {"worker", "stage", "pipeline", "backpressure", "latency"}
  Tellers = {t1, t2}
  MaxItems = 2
  MaxClears = 1
  Producers = {p1}
  Renderers = {t1, t2}
  HistoryLength = 1
  MaxTokens = 1
  MaxWipes = 1
  MaxSnaps = 2
  Snapshots <- SomeSnapshots
  Targets <- SomeTargets
  MaxSnapshots = 2
  RenderHistory = 4
  MaxBars = 3
  MaxReports = 5
SYMMETRY Symmetry
INVARIANTS
  TypeOK
  PoolIsAccounted
  HandedOutIsFit
  CountsAgree
  ReportingIsSound
CHECK_DEADLOCK FALSE
