\* Two threads on the limiter, the controller and the clock.  The limiter earns two
\* tokens in three ticks, so that a refill may earn none, and begins with more than it
\* may hold.  Three levels of quality.  A buffer of three readings whose times come in
\* any order; a window of three; two noises of either kind; three stages of any kinds.
SPECIFICATION Spec
CONSTANTS
  Parts = {"limiter", "adaptive", "clock", "sync", "filters", "frames", "chain"}
  Callers = {t1, t2}
  Capacity = 1
  InitialTokens = 2
  RefillNum = 2
  RefillDen = 3
  SleepTicks = 1
  Demands = {1}
  Timeouts = {1}
  MaxTime = 3
  MaxCalls = 3
  Workers = {t1, t2}
  Minimal = 2
  Threshold = 1
  MaxSets = 1
  Stampers = {t1, t2}
  RawTimes = {1, 2}
  MaxReadings = 4
  SyncCap = 3
  Tolerance = 1
  Times = {0, 1, 2, 3, 4}
  MaxInputs = 5
  WINDOW = 3
  AlphaNum = 2
  AlphaDen = 3
  InitialEstimate = 5
  InitialError = 2
  ProcessNoises = {0, 1}
  MeasurementNoises = {1, 3}
  Readings = {0, 2, 5}
  MaxFed = 5
  Accels <- AccelChoices
  Gyros <- GyroChoices
  Bias <- BiasVector
  Gain = 3
  MaxStages = 4
  SensorValues <- TwoOneFour
  MaxSamples = 4
INVARIANTS
  TypeOK
  RateHonoured
  StampsAreSound
  MatchIsClosest
  ValuesAgree
  ReadingsFlow
PROPERTIES
  QualityFollowsLoad
CHECK_DEADLOCK FALSE
