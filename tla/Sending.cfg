CONSTANTS
  k1 = k1  k2 = k2  k3 = k3
  Member <- Members
  Chat <- TheChat
  Founders = {1, 2}
  Owner = 1
  Moderators = {}
  Mass = "all"
  OnlineNow = {}
  Settings <- SomeSettings
  Call = {k1, k2, k3}
  Scenarios <- SomeScenarios
  MaxPeers = 3
  MaxExpiries = 1
  MaxFaults = 1
SPECIFICATION FairSpec
INVARIANTS TypeOK OncePerKeyLife AnswersAreSent ToldAsFound
PROPERTIES KeysAreFreed Delivered
CHECK_DEADLOCK FALSE
