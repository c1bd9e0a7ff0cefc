SPECIFICATION FairSpec
CONSTANTS
  w1 = w1
  w2 = w2
  NoRun = NoRun
  Worker = {w1, w2}
  NumEvents = 2
  BatchSize = 1
  MaxAttempts = 2
  RetryDelay = 1
  Timeout = 2
  MaxFaults = 1
PROPERTIES EveryEventAcknowledged EveryRetryEnds
