\* The partition leaves only dead consumers and the database answers.
SPECIFICATION Spec
CONSTANTS
  late = late
  Workers = {w1, w2}
  NoWorker = NoWorker
  Jobs = {plain, late}
  NoJob = NoJob
  Valid = {plain, late}
  Null = {}
  ExpiresAt <- MCExpiresAt
  SendAfter <- MCSendAfter
  MaxSendDelay = 1
  FreshGroup = FALSE
  Faults = {"crash", "kafka", "smtp"}
  MaxAttempts = 2
  StaleAfter = 1
  MaxLog = 3
  MaxNow = 4
  MaxDisruptions = 2
SYMMETRY Symmetry
INVARIANTS
  SendsWithinBudget
PROPERTIES
  AttemptsNeverRegress
\* A worker with nothing to read waits for ever.
CHECK_DEADLOCK FALSE
