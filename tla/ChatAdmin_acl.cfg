CONSTANTS
  u1 = u1  u2 = u2  u3 = u3  u4 = u4  k1 = k1  k2 = k2  k3 = k3
  User = {u1, u2, u3, u4}
  NoUser = NoUser
  Owner = u1
  Founders = {u1, u2, u3}
  Moderators = {u1, u2}
  Club = {u2}
  Message <- TwoMessages
  Id <- Rows
  Author <- Authors
  Call = {k1}
  Scenarios <- PhotoScenario
  Invites <- OneLink
  MaxFaults = 0
SPECIFICATION Spec
PROPERTY ACLIsKept
CHECK_DEADLOCK FALSE
