SPECIFICATION FairSpec
CONSTANTS
  w1 = w1
  w2 = w2
  NoRun = NoRun
  Worker = {w1}
  NumEvents = 1
  BatchSize = 1
  MaxAttempts = 3
  RetryDelay = 1
  Timeout = 3
  MaxFaults = 0
PROPERTIES ApprovedRunsFinish
