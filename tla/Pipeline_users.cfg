SPECIFICATION Spec

CONSTANTS
  j1 = j1
  j2 = j2
  None = None
  Jobs = {j1}
  Platform <- OnTikTok
  Processes = {p1}
  Clients = {c1}
  MaxAttempts = 2
  MaxRetries = 1
  MaxCrashes = 0
  DispatchTries = 2
  RemoteTries = 2
  RetryTries = 1
  Faults = {"redis_down", "crash"}

PROPERTIES
  EndedAttemptsStay
