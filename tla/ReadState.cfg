CONSTANTS
  u1 = u1  u2 = u2  c1 = c1  d1 = d1  d2 = d2  k1 = k1  k2 = k2  k3 = k3
  User = {u1, u2}
  Chat = {c1, d1, d2}
  Kind <- Kinds
  Members <- Both
  Earlier <- TwoRows
  Call = {k1, k2, k3}
  Scenarios <- SomeScenarios
  MaxFaults = 1
SPECIFICATION Spec
INVARIANTS TypeOK ReceiptsAreTrue CounterSettles
PROPERTIES BornUnread ReadStaysRead
CHECK_DEADLOCK FALSE
