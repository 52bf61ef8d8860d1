SPECIFICATION MessagesSpec
SYMMETRY MCSymmetry
CHECK_DEADLOCK FALSE
CONSTANTS
  Channels = {a, b}
  NoChannel = NoChannel
  MaxFaults = 1
  Ids = {1, 2, 3}
INVARIANTS
  MessagesTypeOK
  NothingAbandoned
  NoContradiction
  MentionedOnce
PROPERTIES
  CycleHeals
