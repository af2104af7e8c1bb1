SPECIFICATION Spec

CONSTANTS
  None = None
  Assets = {a1}
  Converted = {a1}
  Drafts = {d1}
  Processes = {p1}
  Requests = {r1}
  MaxEntries = 2
  MaxMishaps = 1
  IngestTries = 2
  ReprocessTries = 2

INVARIANTS
  TypeOK
  ReadyIsPublishable
  OneThumbnail

PROPERTIES
  QueuedIngestSettles

CHECK_DEADLOCK FALSE
