SPECIFICATION Spec

CONSTANTS
  page = page
  PageLists <- NoneOrBoth
  Own = own
  User = user
  Targets = {own, page}
  Kinds = {"FACEBOOK", "INSTAGRAM", "TIKTOK"}
  Operations = {"connect", "mock", "reconnect", "disconnect", "refresh"}
  Faults = TRUE
  Lives = {1}
  Life = 1
  Lookahead = 1
  MaxTime = 2
  MaxRequests = 2
  MaxGrants = 3
CHECK_DEADLOCK FALSE

INVARIANTS TypeOK OneDefault TargetsHaveToken HealthyCanPublish StoredTokenUsable
PROPERTIES LostIsNoticed DueRefreshEnds
