CONSTANTS
  u1 = u1  u2 = u2  u3 = u3  k1 = k1  k2 = k2  k3 = k3
  User = {u1, u2, u3}
  NoUser = NoUser
  Founders <- Chat
  Admins = {u1}
  Call = {k1, k2, k3}
  NoCall = NoCall
  Requests <- ReuseRequests
  MaxFaults = 0
SPECIFICATION Spec
INVARIANT LocalIdsUnique
CHECK_DEADLOCK FALSE
