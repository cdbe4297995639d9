\* One valid event; Kafka goes away once.
SPECIFICATION Spec
CONSTANTS
  valid = valid
  poor = poor
  campaign = campaign
  Events = {valid}
  Kind <- MCKind
  StartAttempts = 2
  StartupTries = 1
  WaitTries = 1
  InitRestarts = 0
  MaxOutages = 1
  MaxPosts = 1
  MaxRestarts = 0
  MaxMishaps = 0
INVARIANTS
  AcceptedMeansEnqueued
CHECK_DEADLOCK FALSE
