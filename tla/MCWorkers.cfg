SPECIFICATION MCSpec
CHECK_DEADLOCK FALSE
CONSTANTS
  Callers <- MCDirect
  Gap <- MCGap
  Retry = 1
  MaxSleep = 2
  Stale = 3
  MaxLag = 1
  Latency = 0
  MaxFaults = 1
  Grace = 1
  StaleProbe = 1
  Retirement = 3
  ConsoleProbe = 4
  MaxAt = 5
  MaxEvidence = 4
  Workers = {1, 2}
  Claim = 1
  BaseRetry = 1
  Backoff <- MCBackoff
  MaxAttempt = 1
INVARIANTS
  PersonaTypeOK
  OverlapNeedsExpiry
  TypeOK
  RateCeiling
  KeepsPlace
  LifecycleFollowsEvidence
  ProbesArePaced
PROPERTIES
  LiveClaimStands
  DebtIsAttempted
  DueProbeSettles
  LaneIsFair
