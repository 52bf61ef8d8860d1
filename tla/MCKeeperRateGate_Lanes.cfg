SPECIFICATION FairSpec
CONSTANTS
  Callers <- MCLanes
  Gap <- MCGap
  Retry = 1
  MaxSleep = 5
  Stale = 15
  MaxLag = 0
  Latency = 0
  MaxFaults = 1
PROPERTY Served
