SPECIFICATION Spec
CONSTANTS
  Workers = {w1, w2}
  NoWorker = NoWorker
  TTL = 2
  RenewAfter = 1
  DbTimeout = 1
  MaxGeneration = 2
  MaxRequests = 0
  MaxFaults = 2
  LateOps = {}
  Prompt = TRUE
PROPERTIES
  CloseBeforeRelease
