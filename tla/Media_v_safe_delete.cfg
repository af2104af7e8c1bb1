SPECIFICATION Spec

CONSTANTS
  None = None
  Assets = {a1}
  Converted = {}
  Drafts = {d1}
  Processes = {p1}
  Requests = {r1, r2}
  MaxEntries = 1
  MaxMishaps = 0
  IngestTries = 1
  ReprocessTries = 1

PROPERTIES
  SafeDelete
