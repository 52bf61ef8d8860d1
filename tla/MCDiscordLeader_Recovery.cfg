SPECIFICATION FairSpec
CONSTANTS
  Workers = {w1, w2}
  NoWorker = NoWorker
  TTL = 2
  RenewAfter = 1
  DbTimeout = 0
  MaxGeneration = 4
  MaxRequests = 1
  MaxFaults = 1
  LateOps = {"acquire", "renew", "release", "start", "complete", "fail"}
  Prompt = TRUE
INVARIANTS
  TypeOK
  UniqueGeneration
PROPERTIES
  CompletionMovesLeadership
  LeadershipRecovers
  HandoffSettles
