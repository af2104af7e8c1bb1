SPECIFICATION Spec

CONSTANTS
  j1 = j1
  j2 = j2
  None = None
  Jobs = {j1, j2}
  Platform <- OnTwo
  Processes = {p1}
  Clients = {}
  MaxAttempts = 2
  MaxRetries = 0
  MaxCrashes = 0
  DispatchTries = 1
  RemoteTries = 1
  RetryTries = 1
  Faults = {}

INVARIANTS
  DraftClaimsAreReal
