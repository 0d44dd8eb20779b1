CONSTANTS
  c1 = c1  c2 = c2  k1 = k1  k2 = k2  k3 = k3  i1 = i1  i2 = i2
  Conn = {c1}
  Call = {k1, k2}
  Instance = {i1, i2}
  Home <- FarHome
  Event <- MixedEvents
  Registered <- MixedRegistered
  Programs <- MixedPrograms
  HistoryCap = 20
  MaxFaults = 1
  MaxCrashes = 1
  MaxExpiries = 1
SPECIFICATION PollingSpec
INVARIANT TypeOK
PROPERTY CatchUp
CHECK_DEADLOCK FALSE
