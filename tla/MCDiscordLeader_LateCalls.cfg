SPECIFICATION Spec
SYMMETRY MCSymmetry
CONSTANTS
  Workers = {w1, w2}
  NoWorker = NoWorker
  TTL = 3
  RenewAfter = 1
  DbTimeout = 1
  MaxGeneration = 3
  MaxRequests = 0
  MaxFaults = 2
  LateOps = {"release"}
  Prompt = TRUE
INVARIANTS
  SingleWriter
