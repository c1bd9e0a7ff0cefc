SPECIFICATION Spec
CONSTANTS
  w1 = w1
  w2 = w2
  NoRun = NoRun
  Worker = {w1, w2}
  NumEvents = 2
  BatchSize = 1
  MaxAttempts = 2
  RetryDelay = 1
  Timeout = 4
  MaxFaults = 2
SYMMETRY Symmetry
INVARIANTS TypeOK EffectsOnce FailureReportedOnce ReceiptsMatchRuns RetriesBounded
PROPERTIES FinishedRunsStay ImplementsPromise
