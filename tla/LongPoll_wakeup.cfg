CONSTANTS
  c1 = c1  c2 = c2  k1 = k1  k2 = k2  k3 = k3  i1 = i1  i2 = i2
  Conn = {c1}
  Call = {k1, k2}
  Instance = {i1, i2}
  Home <- FarHomes
  Event <- CatalogueEvents
  Registered <- CatalogueRegistered
  Programs <- CataloguePrograms
  HistoryCap = 20
  MaxFaults = 0
  MaxCrashes = 0
  MaxExpiries = 0
SPECIFICATION Spec
INVARIANT NoLostWakeup
CHECK_DEADLOCK FALSE
