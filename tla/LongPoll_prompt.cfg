CONSTANTS
  c1 = c1  c2 = c2  k1 = k1  k2 = k2  k3 = k3  i1 = i1  i2 = i2
  Conn = {c1}
  Call = {k1, k2, k3}
  Instance = {i1}
  Home <- OneHome
  Event <- PromptEvents
  Registered <- PromptRegistered
  Programs <- PromptPrograms
  HistoryCap = 2
  MaxFaults = 0
  MaxCrashes = 0
  MaxExpiries = 0
SPECIFICATION TimelessSpec
INVARIANTS RemovedIsOlder NumbersUnique
PROPERTIES FeedSpec PushWakes
CHECK_DEADLOCK FALSE
