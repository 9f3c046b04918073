SPECIFICATION Spec
CONSTANTS
  interval = 8
  max_polls = 10
  persist = TRUE
  Durations = {2, 5, 9}
  StoreDelays = {0, 3}
INVARIANTS
  PanelMatchesLog
PROPERTIES
  Cadence
  WatchEnds
