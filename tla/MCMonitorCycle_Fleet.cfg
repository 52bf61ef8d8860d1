SPECIFICATION CycleSpec
CONSTANTS
  Grace = 1
  StaleProbe = 1
  Retirement = 2
  ConsoleProbe = 1
  Lanes = {l1}
  Probers = {p1}
  Commands = {}
  LeaderTasks = {}
  Skew <- MCNoSkew
  Names = {n1}
  FirstName = n1
  Horizon = 1
  Start = 0
  MaxTime = 3
  Faults = FALSE
  MaxCycle = 1
  MaxDelay = 0
PROPERTIES
  RecoveryIsBaseline
