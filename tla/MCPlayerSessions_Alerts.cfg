SPECIFICATION SessionsSpec
SYMMETRY MCSymmetry
CHECK_DEADLOCK FALSE
CONSTANTS
  Players = {p1, p2}
  Names = {n1, n2}
  Nobody = Nobody
  WatchedName = n1
  MaxSessions = 2
INVARIANTS
  SessionsTypeOK
  AnnouncedOnce
PROPERTIES
  DepartureTakesTwo
  
