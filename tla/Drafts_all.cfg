SPECIFICATION Spec

CONSTANTS
  None = None
  MaxDrafts = 2
  Platforms = {p1}
  Operations = {"create", "update", "archive", "duplicate", "publishNow", "schedule", "cancel", "reschedule"}
  MaxTime = 2
  MaxRequests = 2
  MaxJobs = 2
  FirstDrafts = {0, 2}
  Earlier = {0, 2}
CHECK_DEADLOCK FALSE

INVARIANTS TypeOK OneJobPerReading CancelLeavesNoneQueued
PROPERTIES DueJobRuns NeverBeforeAsked
