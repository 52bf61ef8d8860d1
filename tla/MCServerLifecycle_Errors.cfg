SPECIFICATION Spec
CONSTANTS
  Grace = 1
  StaleProbe = 1
  Retirement = 2
  ConsoleProbe = 2
  Lanes = {l1}
  Probers = {}
  Commands = {c1}
  Skew <- MCNoSkew
  Names = {n1}
  FirstName = n1
  Start = 1
  MaxTime = 3
  Faults = TRUE
PROPERTIES
  ErrorIsInert
