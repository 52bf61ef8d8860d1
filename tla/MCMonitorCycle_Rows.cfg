SPECIFICATION PCSpec
CHECK_DEADLOCK FALSE
CONSTANTS
  Grace = 3
  StaleProbe = 1
  Retirement = 4
  ConsoleProbe = 1
  Lanes = {}
  Probers = {p1}
  Commands = {c1}
  LeaderTasks = {c1}
  Skew <- MCSkew
  Names = {n1, n2}
  FirstName = n1
  Horizon = 1
  Start = 0
  MaxTime = 3
  Faults = TRUE
  MaxCycle = 1
  MaxDelay = 0
INVARIANTS
  TypeOK
  OutageClock
  SuccessHasSnapshot
  NameHistoryAgrees
  NoSessionWhileOffline
PROPERTIES
  ConfirmedWithSnapshot
