SPECIFICATION Spec

CONSTANTS
  j1 = j1
  j2 = j2
  None = None
  Jobs = {j1}
  Platform <- OnTikTok
  Processes = {p1}
  Clients = {}
  MaxAttempts = 2
  MaxRetries = 0
  MaxCrashes = 1
  DispatchTries = 2
  RemoteTries = 2
  RetryTries = 1
  Faults = {"lost_answer", "late_error", "store_error", "redis_down", "crash", "slow_save", "evict"}

INVARIANTS
  TypeOK
  AttemptsExclusive
  PostsAreLogged
  SuccessIsReal
  WaitingIsPollable
