SPECIFICATION PanelSpec
SYMMETRY MCSymmetry
CHECK_DEADLOCK FALSE
CONSTANTS
  Channels = {a, b}
  NoChannel = NoChannel
  MaxFaults = 2
  MaxPanels = 2
  Messages = {m1, m2}
  Callers = {"caller"}
INVARIANTS
  PanelTypeOK
  StraysNeedTrouble
PROPERTIES
  ReconcileHeals
  SetKeepsPanel
