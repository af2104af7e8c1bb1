SPECIFICATION FairSpec

CONSTANTS
  j1 = j1
  j2 = j2
  None = None
  Jobs = {j1}
  Platform <- OnTikTok
  Processes = {p1}
  Clients = {}
  MaxAttempts = 4
  MaxRetries = 0
  MaxCrashes = 0
  DispatchTries = 2
  RemoteTries = 2
  RetryTries = 1
  Faults = {}

PROPERTIES
  WaitingEnds
