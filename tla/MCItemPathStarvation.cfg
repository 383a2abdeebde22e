\* One thread in acquire: it looks every tick, and a tick alone earns no token.
SPECIFICATION Spec
CONSTANTS
  Parts = {"limiter"}
  Callers = {t1}
  Capacity = 2
  InitialTokens = 0
  RefillNum = 2
  RefillDen = 3
  SleepTicks = 1
  Demands = {1}
  Timeouts = {1}
  MaxTime = 3
  MaxCalls = 1
  Workers = {t1, t2}
  Minimal = 2
  Threshold = 1
  MaxSets = 1
  Stampers = {t1, t2}
  RawTimes = {1, 2}
  MaxReadings = 4
  SyncCap = 3
  Tolerance = 1
  Times = {0, 1, 2, 3, 4}
  MaxInputs = 5
  WINDOW = 3
  AlphaNum = 2
  AlphaDen = 3
  InitialEstimate = 5
  InitialError = 2
  ProcessNoises = {0, 1}
  MeasurementNoises = {1, 3}
  Readings = {0, 2, 5}
  MaxFed = 6
  Accels <- AccelChoices
  Gyros <- GyroChoices
  Bias <- BiasVector
  Gain = 3
  MaxStages = 4
  SensorValues <- TwoOneFour
  MaxSamples = 4
INVARIANTS
  WaitIsBounded
CHECK_DEADLOCK FALSE
