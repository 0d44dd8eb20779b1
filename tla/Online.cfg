CONSTANTS
  u1 = u1  u2 = u2  k1 = k1  k2 = k2  k3 = k3
  User = {u1, u2}
  Recipients <- Watched
  p1 = p1  p2 = p2
  Process = {p1, p2}
  Call = {k1, k2, k3}
  Scenarios <- ComeAndGo
  Ttl = 1
  MaxTime = 2
  MaxFaults = 1
SPECIFICATION FairSpec
INVARIANTS TypeOK Agreement
PROPERTY SilenceIsNoticed
CHECK_DEADLOCK FALSE
