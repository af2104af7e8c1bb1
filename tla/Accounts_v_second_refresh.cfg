SPECIFICATION Spec

CONSTANTS
  page = page
  PageLists <- NoneOrBoth
  Own = own
  User = user
  Targets = {own, page}
  Kinds = {"FACEBOOK", "INSTAGRAM", "TIKTOK"}
  Operations = {}
  Faults = FALSE
  Lives = {2}
  Life = 2
  Lookahead = 1
  MaxTime = 3
  MaxRequests = 0
  MaxGrants = 3
CHECK_DEADLOCK FALSE

PROPERTIES DueIsRefreshed
