\* A client that may hang, a reset and a switch.
SPECIFICATION ServerLiveSpec
CONSTANTS
  Callers = {c1, c2}
  CommandIds = {"r", "t"}
  Offered <- ResetSwitch
  MaxGeneration = 2
  Clients = {k1}
  DeviceIds = {"d1"}
  Policies = {"normal", "hang"}
  MaxPayments = 1
PROPERTIES
  ConnectionsEnd
  LastResetAcknowledged
  LastSwitchFollowed
CHECK_DEADLOCK FALSE
