\* A new consumer group, and max_attempts set to 0.
SPECIFICATION Spec
CONSTANTS
  late = late
  Workers = {w1, w2}
  NoWorker = NoWorker
  Jobs = {plain, bad, null}
  NoJob = NoJob
  Valid = {plain}
  Null = {null}
  ExpiresAt <- MCExpiresAt
  SendAfter <- MCSendAfter
  MaxSendDelay = 1
  FreshGroup = TRUE
  Faults = {"crash", "rebalance", "db", "kafka", "smtp"}
  MaxAttempts = 0
  StaleAfter = 1
  MaxLog = 3
  MaxNow = 2
  MaxDisruptions = 2
SYMMETRY Symmetry
PROPERTIES
  CommitLeavesTrace
\* A worker with nothing to read waits for ever.
CHECK_DEADLOCK FALSE
